------------------------------ MODULE Mailbox ------------------------------
\* The IMAP server mailshear works against, and the part of internal/imapx that
\* changes it: MoveUIDs. The server is external to the repository; it is
\* modelled by what the code relies on (unique ascending UIDs per mailbox,
\* UIDVALIDITY, COPY / MOVE / STORE / UID EXPUNGE by UID, searches by
\* Message-ID).
EXTENDS Integers, FiniteSets, Sequences

CONSTANTS
  Folders,      \* mailboxes the scan reads
  Trash,        \* the resolved Trash destination
  Copies,       \* physical messages; a Message-ID may be shared by several
  MessageIDs,   \* the Message-ID values
  NoId,         \* a message without a Message-ID header
  IdOf,         \* [Copies -> MessageIDs \cup {NoId}]
  Home,         \* where each copy is before the run, [Copies -> Boxes]
  FirstUid,     \* the UID it has there, [Copies -> Nat \ {0}]
  FirstNext,    \* a UID above all of those
  Starred0,     \* copies \Flagged or \Answered when the scan read them
  HasMove,      \* the server advertises MOVE
  HasUIDPlus,   \* the server advertises UIDPLUS
  ImapBatch,    \* imapx.moveBatch, UIDs per IMAP command
  FaultKinds,   \* what may fail: see Fault
  MaxFaults,    \* bound on the failures of one behaviour
  UserActs,     \* what another mail client may do meanwhile
  MaxUserActs   \* bound on the steps of that client

Boxes == Folders \cup {Trash}

ASSUME BoxAssumption == Trash \notin Folders
ASSUME CopyAssumption ==
  /\ IdOf \in [Copies -> MessageIDs \cup {NoId}]
  /\ NoId \notin MessageIDs
  /\ Home \in [Copies -> Boxes]
  /\ FirstUid \in [Copies -> Nat \ {0}]
  /\ \A c, d \in Copies :
       Home[c] = Home[d] /\ FirstUid[c] = FirstUid[d] => c = d
  /\ FirstNext \in Nat
  /\ \A c \in Copies : FirstUid[c] < FirstNext
  /\ Starred0 \subseteq Copies
ASSUME FiniteAssumption == IsFiniteSet(Copies) /\ IsFiniteSet(Folders)
ASSUME ServerAssumption == HasMove \in BOOLEAN /\ HasUIDPlus \in BOOLEAN
ASSUME BoundAssumption ==
  ImapBatch \in Nat \ {0} /\ MaxFaults \in Nat /\ MaxUserActs \in Nat

VARIABLES
  mail,       \* [Boxes -> SUBSET Entry], what each mailbox holds
  uidnext,    \* [Boxes -> Nat], a bound no UID of the mailbox reaches
  validity,   \* [Boxes -> Nat], UIDVALIDITY
  starred,    \* copies \Flagged or \Answered now (the two count alike)
  selected,   \* the mailbox mailshear has selected, or "none"
  mv,         \* the MoveUIDs call in progress
  cancelled,  \* the operation's context was cancelled (ctrl+c)
  faults,     \* failures so far
  userActs,   \* steps of the other client so far
  trashed,    \* history: [folder, uid, msg] the program put into Trash
  restored    \* history: copies the program took out of Trash

serverVars == <<mail, uidnext, validity, starred>>
mailVars == <<mail, uidnext, validity, starred, selected, mv, cancelled,
              faults, userActs, trashed, restored>>

Uids == Nat \ {0}
Entry == [uid : Uids, msg : Copies, deleted : BOOLEAN]
Idle == [pc |-> "idle", src |-> Trash, dst |-> Trash, todo |-> {}, chunk |-> {}]

-----------------------------------------------------------------------------
\* Reading a mailbox.

UidsIn(b) == {e.uid : e \in mail[b]}
At(b, U) == {e \in mail[b] : e.uid \in U}
WithId(b, id) == {e \in mail[b] : IdOf[e.msg] = id}

\* Client.SearchMessageID in mailbox b.
Search(b, id) == {e.uid : e \in WithId(b, id)}

\* The n lowest and the n highest UIDs of U.
Lowest(U, n) == {u \in U : Cardinality({v \in U : v < u}) < n}
Highest(U, n) == {u \in U : Cardinality({v \in U : v > u}) < n}

-----------------------------------------------------------------------------
\* Changing a mailbox. A message that enters a mailbox gets a UID above every
\* UID given out there before; a batch keeps its order.

Entering(b, es) ==
  {[uid |-> uidnext[b] + e.uid, msg |-> e.msg, deleted |-> FALSE] : e \in es}

\* What the program did to the history of each copy.
Record(src, dst, es) ==
  /\ trashed' = IF dst = Trash
                  THEN trashed \cup
                       {[folder |-> src, uid |-> e.uid, msg |-> e.msg] : e \in es}
                  ELSE trashed
  /\ restored' = IF src = Trash THEN restored \cup {e.msg : e \in es}
                                ELSE restored

CopyEntries(src, dst, es) ==
  /\ mail' = [mail EXCEPT ![dst] = @ \cup Entering(dst, es)]
  /\ uidnext' = [uidnext EXCEPT ![dst] = @ + uidnext[src]]

MoveEntries(src, dst, es) ==
  /\ mail' = [mail EXCEPT ![src] = @ \ es, ![dst] = @ \cup Entering(dst, es)]
  /\ uidnext' = [uidnext EXCEPT ![dst] = @ + uidnext[src]]

-----------------------------------------------------------------------------
\* Failures. A step that may fail takes one of the budget; kinds are "crash",
\* "move", "audit", "db", "imap" (a lookup, SELECT, FETCH or SEARCH) and
\* "cancel".

Fault(kind) ==
  /\ kind \in FaultKinds
  /\ faults < MaxFaults
  /\ faults' = faults + 1

\* A call that fails because the server or the database did, or because its
\* context is cancelled.
Fails(kind) ==
  \/ (cancelled /\ UNCHANGED faults)
  \/ (~cancelled /\ Fault(kind))

\* A call that goes through.
Goes == ~cancelled /\ UNCHANGED faults

-----------------------------------------------------------------------------
\* imapx.Client.MoveUIDs, called by apply and by undo. mv.pc is "chunk" between
\* IMAP commands, "store" and "expunge" inside the COPY fallback, and "ok" or
\* "err" when the call has returned to its caller.

MoveCall(src, dst, uids) ==
  mv' = [pc |-> "chunk", src |-> src, dst |-> dst, todo |-> uids, chunk |-> {}]

Chunk == Lowest(mv.todo, ImapBatch)

\* The chunk is done: go on with the rest, or return nil.
ChunkDone(chunk) ==
  LET rest == mv.todo \ chunk
  IN  mv' = [mv EXCEPT !.todo = rest, !.chunk = {},
                       !.pc = IF rest = {} THEN "ok" ELSE "chunk"]

MoveError == mv' = [mv EXCEPT !.pc = "err"]

\* Without MOVE and UIDPLUS the call refuses; a cancelled context stops it
\* between two chunks.
RefuseMove ==
  /\ mv.pc = "chunk"
  /\ cancelled \/ ~(HasMove \/ HasUIDPlus)
  /\ MoveError
  /\ UNCHANGED <<serverVars, selected, cancelled, faults, userActs,
                 trashed, restored>>

\* UID MOVE. A UID that is no longer in the mailbox is ignored by the server.
\* RFC 6851 lets a MOVE that fails have moved some of the messages.
UidMove ==
  /\ mv.pc = "chunk" /\ HasMove /\ ~cancelled
  /\ LET es == At(mv.src, Chunk)
     IN  \/ /\ MoveEntries(mv.src, mv.dst, es)
            /\ Record(mv.src, mv.dst, es)
            /\ ChunkDone(Chunk)
            /\ UNCHANGED faults
         \/ \E some \in SUBSET es :
              /\ Fault("move")
              /\ MoveEntries(mv.src, mv.dst, some)
              /\ Record(mv.src, mv.dst, some)
              /\ MoveError
  /\ UNCHANGED <<validity, starred, selected, cancelled, userActs>>

\* Mutant of UidCopy: the error of the COPY is not looked at.
CopyUnchecked ==
  /\ mv.pc = "chunk" /\ ~HasMove /\ HasUIDPlus /\ ~cancelled
  /\ LET es == At(mv.src, Chunk)
     IN  \/ /\ CopyEntries(mv.src, mv.dst, es)
            /\ Record(mv.src, mv.dst, es)
            /\ UNCHANGED faults
         \/ /\ Fault("move")
            /\ UNCHANGED <<mail, uidnext, trashed, restored>>
  /\ mv' = [mv EXCEPT !.pc = "store", !.chunk = Chunk]
  /\ UNCHANGED <<validity, starred, selected, cancelled, userActs>>

\* The fallback's UID COPY, which takes all of the messages or none; a failure
\* may be only the answer that was lost.
UidCopy ==
  /\ mv.pc = "chunk" /\ ~HasMove /\ HasUIDPlus /\ ~cancelled
  /\ LET es == At(mv.src, Chunk)
     IN  \/ /\ CopyEntries(mv.src, mv.dst, es)
            /\ Record(mv.src, mv.dst, es)
            /\ mv' = [mv EXCEPT !.pc = "store", !.chunk = Chunk]
            /\ UNCHANGED faults
         \/ \E some \in {{}, es} :
              /\ Fault("move")
              /\ CopyEntries(mv.src, mv.dst, some)
              /\ Record(mv.src, mv.dst, some)
              /\ MoveError
  /\ UNCHANGED <<validity, starred, selected, cancelled, userActs>>

MarkDeleted(b, es) ==
  mail' = [mail EXCEPT ![b] = (@ \ es) \cup {[e EXCEPT !.deleted = TRUE] : e \in es}]

\* +FLAGS.SILENT (\Deleted) on the copied UIDs.
UidStore ==
  /\ mv.pc = "store"
  /\ LET es == At(mv.src, mv.chunk)
     IN  \/ /\ MarkDeleted(mv.src, es)
            /\ mv' = [mv EXCEPT !.pc = "expunge"]
            /\ UNCHANGED faults
         \/ \E some \in SUBSET es :
              /\ Fault("move")
              /\ MarkDeleted(mv.src, some)
              /\ MoveError
  /\ UNCHANGED <<uidnext, validity, starred, selected, cancelled, userActs,
                 trashed, restored>>

\* Mutant of UidExpunge: the fallback stops at the \Deleted flags.
NoExpunge ==
  /\ mv.pc = "expunge"
  /\ ChunkDone(mv.chunk)
  /\ UNCHANGED <<serverVars, selected, cancelled, faults, userActs, trashed, restored>>

\* UID EXPUNGE of the copied UIDs, the \Deleted ones among them.
UidExpunge ==
  /\ mv.pc = "expunge"
  /\ LET es == {e \in At(mv.src, mv.chunk) : e.deleted}
     IN  \/ /\ mail' = [mail EXCEPT ![mv.src] = @ \ es]
            /\ ChunkDone(mv.chunk)
            /\ UNCHANGED faults
         \/ \E some \in SUBSET es :
              /\ Fault("move")
              /\ mail' = [mail EXCEPT ![mv.src] = @ \ some]
              /\ MoveError
  /\ UNCHANGED <<uidnext, validity, starred, selected, cancelled, userActs,
                 trashed, restored>>

MoveUIDs == RefuseMove \/ UidMove \/ UidCopy \/ UidStore \/ UidExpunge

-----------------------------------------------------------------------------
\* Another mail client on the same account.

UserAct(kind) ==
  /\ kind \in UserActs
  /\ userActs < MaxUserActs
  /\ userActs' = userActs + 1
  /\ UNCHANGED <<selected, mv, cancelled, faults, trashed, restored>>

UserStars ==
  /\ UserAct("star")
  /\ \E c \in Copies \ starred : starred' = starred \cup {c}
  /\ UNCHANGED <<mail, uidnext, validity>>

UserUnstars ==
  /\ UserAct("unstar")
  /\ \E c \in starred : starred' = starred \ {c}
  /\ UNCHANGED <<mail, uidnext, validity>>

\* A message is filed in another folder, deleted to Trash or taken back out.
UserMoves ==
  /\ UserAct("move")
  /\ \E src, dst \in Boxes : \E e \in mail[src] :
       src # dst /\ MoveEntries(src, dst, {e})
  /\ UNCHANGED <<validity, starred>>

\* A mailbox is rebuilt: its messages get other UIDs. UIDVALIDITY must change
\* with them, but a mailbox deleted and recreated within the granularity of
\* the server's UIDVALIDITY keeps it. No server does this to the mailbox a
\* session has selected.
UserRebuilds ==
  /\ UserAct("rebuild")
  /\ \E b \in Folders \ {selected}, bump \in {0, 1} :
       /\ mail' = [mail EXCEPT ![b] = {[e EXCEPT !.uid = uidnext[b] - @] : e \in mail[b]}]
       /\ validity' = [validity EXCEPT ![b] = @ + bump]
  /\ UNCHANGED <<uidnext, starred>>

UserClient == UserStars \/ UserUnstars \/ UserMoves \/ UserRebuilds

-----------------------------------------------------------------------------
MailInit ==
  /\ mail = [b \in Boxes |->
                {[uid |-> FirstUid[c], msg |-> c, deleted |-> FALSE] :
                   c \in {d \in Copies : Home[d] = b}}]
  /\ uidnext = [b \in Boxes |-> FirstNext]
  /\ validity = [b \in Boxes |-> 1]
  /\ starred = Starred0
  /\ selected = "none"
  /\ mv = Idle
  /\ cancelled = FALSE
  /\ faults = 0 /\ userActs = 0
  /\ trashed = {} /\ restored = {}

MailTypeOK ==
  /\ mail \in [Boxes -> SUBSET Entry]
  /\ uidnext \in [Boxes -> Nat]
  /\ validity \in [Boxes -> Nat]
  /\ starred \subseteq Copies
  /\ selected \in Boxes \cup {"none"}
  /\ mv \in [pc : {"idle", "chunk", "store", "expunge", "ok", "err"},
              src : Boxes, dst : Boxes, todo : SUBSET Uids, chunk : SUBSET Uids]
  /\ cancelled \in BOOLEAN
  /\ faults \in 0 .. MaxFaults
  /\ userActs \in 0 .. MaxUserActs
  /\ trashed \subseteq [folder : Boxes, uid : Uids, msg : Copies]
  /\ restored \subseteq Copies

-----------------------------------------------------------------------------
\* What the properties of the components rest on.

\* A UID names one message of its mailbox, and is below the next one.
UidsOK ==
  \A b \in Boxes : \A e, d \in mail[b] :
    /\ e.uid < uidnext[b]
    /\ e.uid = d.uid => e = d

BoxesOK ==
  mail \in [Boxes -> SUBSET Entry] /\ uidnext \in [Boxes -> Nat] /\ UidsOK
MailInv == MailTypeOK /\ UidsOK

\* A step gives no message that is in b another UID, and no UID that b has used
\* to another message.
KeepsUids(b) ==
  /\ uidnext[b] <= uidnext'[b]
  /\ \A e \in mail'[b] : e.uid < uidnext[b] =>
       \E d \in mail[b] : d.uid = e.uid /\ d.msg = e.msg
=============================================================================
