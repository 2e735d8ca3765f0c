------------------------------- MODULE MCFlow -------------------------------
\* Instances of Flow for TLC.
EXTENDS Flow
=============================================================================
