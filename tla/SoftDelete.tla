----------------------------- MODULE SoftDelete -----------------------------
\* What mailshear promises of the user's mail, whatever fails: a delete is a
\* move to Trash and an undo is the move back. A letter is never outside every
\* mailbox, enters Trash once, and only a letter that was put there comes back,
\* once, to a folder that misses one with its Message-ID.
EXTENDS Naturals, FiniteSets

CONSTANTS
  Letters,  \* the messages of the account
  Folders,  \* the mailboxes other than Trash
  Trash,
  IdOf,     \* [Letters -> Message-IDs]
  Home      \* [Letters -> mailboxes], where each is at first

VARIABLES
  place,      \* [Letters -> SUBSET mailboxes]: those that hold the letter
  discarded,  \* letters put into Trash
  returned    \* letters put back

places == <<place, discarded, returned>>

Init ==
  /\ place = [l \in Letters |-> {Home[l]}]
  /\ discarded = {} /\ returned = {}

\* The letters are put into mailbox b, by a move or by a copy.
Put(ls, b) ==
  \E kept \in BOOLEAN :
    place' = [l \in Letters |->
                IF l \in ls THEN {b} \cup (IF kept THEN place[l] ELSE {}) ELSE place[l]]

\* Letters of a folder go to Trash.
Discard(ls) ==
  /\ \A l \in ls : Home[l] \in Folders /\ place[l] = {Home[l]}
  /\ ls \cap discarded = {}
  /\ Put(ls, Trash)
  /\ discarded' = discarded \cup ls
  /\ UNCHANGED returned

\* Letters of folder f with this Message-ID that are no longer there.
Missing(id, f) == {l \in discarded : IdOf[l] = id /\ Home[l] = f /\ f \notin place[l]}

\* Letters that were put into Trash go back to folder f, no more of a Message-ID
\* than are missing there. Letters with one Message-ID count as equal.
Return(ls, f) ==
  /\ ls \subseteq discarded \ returned
  /\ \A l \in ls :
       /\ Trash \in place[l]
       /\ Cardinality({m \in ls : IdOf[m] = IdOf[l]}) <= Cardinality(Missing(IdOf[l], f))
  /\ Put(ls, f)
  /\ returned' = returned \cup ls
  /\ UNCHANGED discarded

\* The original of a letter that was copied is removed.
Remove(ls, b) ==
  /\ \A l \in ls :
       /\ l \in discarded /\ b \in place[l] /\ place[l] # {b}
       /\ (b = Trash) <=> (l \in returned)
  /\ place' = [l \in Letters |-> IF l \in ls THEN place[l] \ {b} ELSE place[l]]
  /\ UNCHANGED <<discarded, returned>>

Next ==
  \E ls \in (SUBSET Letters) \ {{}} :
    \/ Discard(ls)
    \/ \E f \in Folders : Return(ls, f)
    \/ \E b \in Folders \cup {Trash} : Remove(ls, b)

Spec == Init /\ [][Next]_places
=============================================================================
