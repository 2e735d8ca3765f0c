------------------------------ MODULE MCScan ------------------------------
\* Instances of Scan for TLC.
EXTENDS Scan

\* A holds mail with a gap between its UIDs, B has no UIDNEXT reported, and J is
\* empty and skipped unless the special-use lookup fails.
Mail ==
  [A |-> {[uid |-> 1, msg |-> "m1"], [uid |-> 2, msg |-> "m2"], [uid |-> 5, msg |-> "m3"]},
   B |-> {[uid |-> 2, msg |-> "m4"]},
   J |-> {}]
NextUids == [A |-> 6, B |-> 3, J |-> 1]
From == [m \in Messages |-> IF m \in {"m1", "m4"} THEN "ann" ELSE "bob"]
=============================================================================
