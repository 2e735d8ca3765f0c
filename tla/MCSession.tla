----------------------------- MODULE MCSession -----------------------------
\* Instances of Session for TLC. Copies are numbered so that their first UIDs
\* can be read off; folders are strings.
EXTENDS Session

\* A scenario: [copy |-> <<Message-ID, folder, UID, sender>>].
Ids4(s) == [c \in DOMAIN s |-> s[c][1]]
Homes(s) == [c \in DOMAIN s |-> s[c][2]]
FirstUids(s) == [c \in DOMAIN s |-> s[c][3]]
SendersOf(s) == [c \in DOMAIN s |-> s[c][4]]

\* Two copies of X and one Y in A, one Z in B, and the user's own X in Trash.
Duplicates ==
  << <<"X", "A", 1, "ann">>, <<"X", "A", 2, "ann">>, <<"Y", "A", 3, "bob">>,
     <<"Z", "B", 1, "bob">>, <<"X", "Trash", 4, "ann">> >>
DuplicateCopies == DOMAIN Duplicates
DuplicateIds == Ids4(Duplicates)
DuplicateHomes == Homes(Duplicates)
DuplicateUids == FirstUids(Duplicates)
DuplicateSenders == SendersOf(Duplicates)

\* Two copies of X and a Y in A, and the user's own X in Trash.
Fallback ==
  << <<"X", "A", 1, "ann">>, <<"X", "A", 2, "ann">>, <<"Y", "A", 3, "bob">>,
     <<"X", "Trash", 4, "ann">> >>
FallbackCopies == DOMAIN Fallback
FallbackIds == Ids4(Fallback)
FallbackHomes == Homes(Fallback)
FallbackUids == FirstUids(Fallback)
FallbackSenders == SendersOf(Fallback)

\* A mixed bag: a selected X, a Y that the keep rule matches, a message without
\* a Message-ID, one in a folder the server marks special-use, which the scan
\* read because its lookup failed, and a W the scan has not seen.
Mixed ==
  << <<"X", "A", 1, "ann">>, <<"Y", "A", 2, "ann">>, <<"none", "A", 3, "ann">>,
     <<"Z", "J", 1, "bob">>, <<"W", "S", 1, "bob">> >>
MixedCopies == DOMAIN Mixed
MixedIds == Ids4(Mixed)
MixedHomes == Homes(Mixed)
MixedUids == FirstUids(Mixed)
MixedSenders == SendersOf(Mixed)
=============================================================================
