------------------------------ MODULE Session ------------------------------
\* One account in use: a plan is applied and the run may be undone, while the
\* server, the disk and the user's other mail client do what they do. The user
\* interface (internal/tui) starts one operation at a time.
EXTENDS Apply, Undo

ASSUME SessionAssumption ==
  NeverTouch = WellKnown /\ MarkedUse = SpecialUse

vars == <<mailVars, auditVars, applyVars, undoVars>>

Running == pc \notin {"review", "prepared"} /\ ~RunEnded
Busy == Running \/ UndoRunning

-----------------------------------------------------------------------------
\* The user starts the undo of a run that is over, however it ended.
Undo == RunEnded /\ UndoStart /\ UNCHANGED applyVars

MoveStep == MoveUIDs /\ UNCHANGED <<auditVars, applyVars, undoVars>>

\* What else happens on the account; steady follows the flags.
OtherClient ==
  /\ UserClient
  /\ steady' = steady \cap starred'
  /\ UNCHANGED <<auditVars, db, runVars, undoVars>>

\* interrupt: the first ctrl+c cancels the context of the operation.
Cancel ==
  /\ Busy /\ ~cancelled /\ Fault("cancel")
  /\ cancelled' = TRUE
  /\ UNCHANGED <<serverVars, selected, mv, userActs, trashed, restored,
                 auditVars, applyVars, undoVars>>

\* The process dies, or the machine does; an issued command that reached the
\* server is one taken before. Only the files stay: scope and targets are kept
\* as history, for the properties to refer to.
Crash ==
  /\ Busy /\ Fault("crash")
  /\ LoseTail /\ auErr' = FALSE
  /\ mv' = Idle /\ selected' = "none" /\ cancelled' = FALSE
  /\ pc' = IF Running THEN "crashed" ELSE pc
  /\ upc' = IF UndoRunning THEN "crashed" ELSE upc
  /\ todo' = {} /\ queue' = {} /\ intents' = {}
  /\ ucheck' = {} /\ found' = NothingFound
  /\ UNCHANGED <<serverVars, userActs, trashed, restored, db, scope, trashOk,
                 targets, noSource, folder, flagsSeen, steady, blocked, never, undos>>

\* Nothing more to do.
Over ==
  /\ RunEnded /\ ~UndoRunning /\ undos = MaxUndos
  /\ UNCHANGED vars

Init == MailInit /\ AuditInit /\ ApplyInit /\ UndoInit

ApplyNext == (Prepare \/ ApplyStep) /\ UNCHANGED undoVars
UndoNext == UndoStep /\ UNCHANGED applyVars

Next ==
  \/ ApplyNext \/ UndoNext \/ MoveStep
  \/ Undo \/ OtherClient \/ Cancel \/ Crash \/ Over

\* An operation that was started is carried on: each runs in a goroutine of its
\* own that waits for the server and the disk only. That the server answers, or
\* the connection breaks, is assumed of it: the client sets no deadline for the
\* start of an answer. Nobody has to start an operation, and nothing has to fail.
Fairness ==
  /\ WF_vars(Running /\ ApplyStep /\ UNCHANGED undoVars)
  /\ WF_vars(UndoNext)
  /\ WF_vars(MoveStep)

Spec == Init /\ [][Next]_vars
FairSpec == Spec /\ Fairness

-----------------------------------------------------------------------------
\* Properties.

TypeOK == MailTypeOK /\ AuditTypeOK /\ ApplyTypeOK /\ UndoTypeOK

\* Write ahead: every message the program ever put into Trash has an intent on
\* disk, with the folder it came from and the Message-ID undo will look for,
\* whatever crashed, failed or was lost since (deleteFolder).
WriteAhead ==
  \A t \in trashed : \E i \in 1 .. audit.synced :
    audit.lines[i] = Intent(t.folder, t.uid, IdOf[t.msg])

\* A scanned message disappears from the local database only when the log
\* durably confirms that it was moved (deleteFolder: Sync before
\* DeleteMessageRows).
RowsOutliveRecord ==
  \A r \in ScannedRows \ db.rows : \E i \in 1 .. audit.synced :
    IsConfirmation(i) /\ audit.lines[i].folder = r.folder /\ r.uid \in audit.lines[i].uids

\* Undo takes only copies out of Trash that the run put there, and leaves the
\* user's own copy of the same Message-ID alone (Run: the count and newest
\* UIDs first).
OnlyOwnCopies == restored \subseteq {t.msg : t \in trashed}

\* An undo that ends without an error brings each folder it may restore into
\* back to as many copies of each Message-ID as it had before the run, however
\* far that run had come, as long as nobody else moved mail.
CountBefore(f, id) == Cardinality({c \in Copies : Home[c] = f /\ IdOf[c] = id})
RoundTrip ==
  upc = "ended" /\ userActs = 0 =>
    \A f \in Folders \ blocked, id \in MessageIDs :
      Cardinality(WithId(f, id)) = CountBefore(f, id)

\* The COPY fallback never leaves a message in no mailbox at all, whichever of
\* its three commands failed (MoveUIDs).
NothingLost == \A c \in Copies : \E b \in Boxes : \E e \in mail[b] : e.msg = c

\* A confirmed UID is gone from its folder: undo does not look there again.
ConfirmedMeansGone == \A f \in Folders : Confirmed(f) \cap UidsIn(f) = {}

\* A message is moved only if a selected row stands for it, by folder, UID and
\* Message-ID, that was neither starred when it was scanned nor kept, outside
\* the folders mail is never deleted from, also when a rebuilt mailbox gives
\* its UIDs to other messages (ineligible, protectedFolders).
RightMessage ==
  \A t \in trashed : \E r \in targets :
    /\ r.folder = t.folder /\ r.uid = t.uid /\ IdOf[r.msg] = IdOf[t.msg]
    /\ InScope(r) /\ ~r.starred /\ ~Kept(r, [msg |-> t.msg])
    /\ t.folder \notin WellKnown

\* A message that was starred when the user started the run, and still is when
\* the folder's flags are read, is not moved (FetchFlags, ineligible).
NoSteadyStar == \A t \in trashed : t.msg \notin steady

\* A run that ends without an error and with its log intact accounts for every
\* message it was to delete: a confirmed move or a skip.
Accounted(r) ==
  \/ r.uid \in Confirmed(r.folder)
  \/ \E i \in Lines :
       /\ audit.lines[i].action = "skip" /\ audit.lines[i].folder = r.folder
       /\ r.uid \in audit.lines[i].uids
AllAccounted ==
  pc = "done" /\ trashOk /\ ~auErr /\ undos = 0 => \A r \in targets : Accounted(r)

\* What the program promises of the mail, SoftDelete, is what its commands do,
\* with MOVE and with the COPY fallback, whatever crashes or fails, as long as
\* nobody else moves mail: a letter is held by the mailboxes that have an entry
\* for it, one marked \Deleted included (deleteFolder, Run, MoveUIDs).
HeldBy(c) == {b \in Boxes : \E e \in mail[b] : e.msg = c}
Discarded == {t.msg : t \in trashed}
Promise == INSTANCE SoftDelete WITH
  Letters <- Copies,
  place <- [c \in Copies |-> HeldBy(c)],
  discarded <- Discarded,
  returned <- restored
ImplementsSoftDelete == Promise!Spec

\* A run the user confirmed ends, and so does an undo (Execute, Run).
OperationsEnd ==
  /\ pc = "refused" ~> RunEnded
  /\ upc = "check" ~> ~UndoRunning

\* What a comment in deleteFolder says of a crash and of a full disk: never a
\* message undo does not know about.
UndoKnows == trashed # {} => Readable

\* What the comment on neverDest says: a delete never moves messages into these,
\* whatever the config or the server says the trash mailbox is.
NeverIntoNeverDest == Trash \in NeverDest => trashed = {}

-----------------------------------------------------------------------------
\* The inductive invariant behind WriteAhead and RightMessage.

NotYet == {"review", "prepared", "refused", "unsubscribe", "targets"}
InFolder == {"flags", "identity", "intent", "moving", "rows"}
InBatches == {"intent", "moving", "rows"}

\* UID u of the folder stands for a row that may be moved, and will as long as
\* the folder is selected.
Verified(u) ==
  \E r \in targets :
    /\ r.folder = folder /\ r.uid = u /\ InScope(r) /\ ~r.starred
    /\ u < uidnext[folder]
    /\ \A e \in mail[folder] : e.uid = u =>
         IdOf[e.msg] = IdOf[r.msg] /\ ~Kept(r, [msg |-> e.msg])

\* One of the first n lines is the intent to move UID u of the folder.
Intended(u, n) ==
  \E i \in 1 .. n : audit.lines[i] = Intent(folder, u, StoredId(folder, u))

RowsInv ==
  /\ targets \subseteq ScannedRows /\ db.rows \subseteq ScannedRows
  /\ \A r \in targets : InScope(r)
  /\ pc \in NotYet => targets = {}

FolderInv ==
  /\ pc \in InFolder \cup {"folder"} => WellKnown \subseteq noSource
  /\ pc \in InFolder => selected = folder /\ folder \in Folders \ noSource

BatchInv ==
  /\ pc \in InBatches => \A u \in queue : Verified(u)
  /\ pc = "intent" /\ ~auErr =>
       \A u \in Batch \ intents : Intended(u, Len(audit.lines))
  /\ pc = "intent" => intents \subseteq queue
  /\ pc = "moving" =>
       /\ \A u \in Batch : Intended(u, audit.synced)
       /\ mv.src = folder /\ mv.todo \subseteq Batch

CallInv ==
  /\ mv.pc \in {"chunk", "store", "expunge"} /\ mv.dst = Trash => pc = "moving"
  /\ UndoRunning => RunEnded
  /\ pc \in NotYet => trashed = {}

IInv ==
  /\ TypeOK /\ UidsOK
  /\ RowsInv /\ FolderInv /\ BatchInv /\ CallInv
  /\ WriteAhead /\ RightMessage

-----------------------------------------------------------------------------
\* The inductive invariants behind the other safety properties, each together
\* with IInv.

\* Rows go after their confirmation is on disk.
RecordInv ==
  /\ RowsOutliveRecord
  /\ pc = "rows" => \E i \in 1 .. audit.synced : audit.lines[i] = Confirmation(folder, Batch)

\* A call that is out is apply's, from the folder it works on, or undo's, out of
\* Trash; it names no UID that its mailbox has not given out yet.
CallOut == mv.pc \in {"chunk", "store", "expunge"}
OwnerInv ==
  /\ CallOut => \/ pc = "moving" /\ mv.src = folder /\ mv.dst = Trash
                \/ upc = "moving" /\ mv.src = Trash
  /\ CallOut => \A u \in mv.todo \cup mv.chunk : u < uidnext[mv.src]
  /\ \A f \in Folders : \A u \in found[f] : u < uidnext[Trash]

\* Between COPY and EXPUNGE every message of the chunk is also elsewhere.
Elsewhere(e) ==
  \E b \in Boxes : \E d \in mail[b] : d.msg = e.msg /\ ~(b = mv.src /\ d.uid \in mv.chunk)
LossInv ==
  /\ OwnerInv /\ NothingLost
  /\ mv.pc \in {"store", "expunge"} => \A e \in At(mv.src, mv.chunk) : Elsewhere(e)

\* A UID that is gone for good: given out before, and in the mailbox no more.
Vanished(f, u) == u < uidnext[f] /\ \A e \in mail[f] : e.uid # u
GoneInv ==
  /\ OwnerInv
  /\ \A f \in Folders : \A u \in Confirmed(f) : Vanished(f, u)
  /\ pc = "moving" /\ mv.pc # "err" => \A u \in Batch \ mv.todo : Vanished(folder, u)
  /\ pc = "moving" /\ mv.pc = "ok" => mv.todo = {}
  /\ pc = "moving" /\ mv.pc = "expunge" => \A e \in At(mv.src, mv.chunk) : e.deleted

\* No UID that is to be moved stands for a message starred since the start.
Unstarred(u) == \A e \in mail[folder] : e.uid = u => e.msg \notin steady
SteadyInv ==
  /\ NoSteadyStar /\ steady \subseteq starred
  /\ pc = "identity" => \A u \in flagsSeen.present \ flagsSeen.starred :
                          u < uidnext[folder] /\ Unstarred(u)
  /\ pc \in InBatches => \A u \in queue : Unstarred(u)

\* Every target is accounted for, in a folder still to do, or in the one at hand.
AtHand(r) ==
  /\ pc \in InFolder /\ r.folder = folder
  /\ pc \in {"flags", "identity"} \/ r.uid \in queue
Pending(r) ==
  \/ Accounted(r)
  \/ pc \in InFolder \cup {"folder"} /\ r.folder \in todo
  \/ AtHand(r)
AccountInv ==
  /\ undos = 0 => upc = "none"
  /\ trashOk /\ ~auErr /\ undos = 0 /\ pc \in InFolder \cup {"folder", "finish", "done"} =>
       \A r \in targets : Pending(r)

\* As long as nobody else moves mail and no undo has moved any: a message that
\* the run did not put into Trash is where it was at first, under its first UID,
\* and nowhere else; Trash has those that were put there, above what it had.
Untouched == undos = 0 \/ (undos = 1 /\ upc = "check")
Waits(f, U) == \A e \in mail[f] : e.uid \in U => e.msg \notin Discarded
HomesOK ==
  /\ restored = {}
  /\ \A f \in Folders : \A e \in mail[f] : Home[e.msg] = f /\ e.uid = FirstUid[e.msg]
  /\ \A e \in mail[Trash] :
       IF Home[e.msg] = Trash THEN e.uid < FirstNext
                              ELSE e.uid > FirstNext /\ e.msg \in Discarded
  /\ \A e, d \in mail[Trash] : e.msg = d.msg => e = d
  /\ FirstNext <= uidnext[Trash]
  /\ \A t \in trashed : t.folder = Home[t.msg] /\ t.uid = FirstUid[t.msg] /\ t.folder \in Folders
  /\ \A c \in Discarded : Trash \in HeldBy(c)

\* What is still to be moved was not put into Trash yet.
WaitingOK ==
  /\ pc \in InFolder \cup {"folder"} => \A f \in todo : Waits(f, Uids)
  /\ pc \in InFolder => folder \notin todo
  /\ pc \in {"flags", "identity"} => Waits(folder, Uids)
  /\ pc = "intent" => Waits(folder, queue)
  /\ pc \in {"moving", "rows"} => Waits(folder, queue \ Batch)
  /\ pc = "moving" /\ mv.pc = "chunk" => Waits(folder, mv.todo)
  /\ pc = "moving" /\ mv.pc \in {"store", "expunge"} =>
       /\ Waits(folder, mv.todo \ mv.chunk)
       /\ \A e \in At(folder, mv.chunk) : e.msg \in Discarded
DiscardInv ==
  /\ OwnerInv
  /\ ~RunEnded => undos = 0
  /\ undos = 0 => upc = "none"
  /\ Untouched => HomesOK /\ WaitingOK

\* Every intent names a message where it was at first, and none is named twice;
\* what is still to be recorded was not.
Unwritten(f, U) ==
  \A i \in Lines : IsIntent(i) /\ audit.lines[i].folder = f => audit.lines[i].uids \cap U = {}
LogOK ==
  /\ \A i \in Lines : IsIntent(i) =>
       \E c \in Copies : Home[c] \in Folders /\ audit.lines[i] = Intent(Home[c], FirstUid[c], IdOf[c])
  /\ \A i, j \in Lines :
       /\ IsIntent(i) /\ IsIntent(j)
       /\ audit.lines[i].folder = audit.lines[j].folder /\ audit.lines[i].uids = audit.lines[j].uids
       => i = j
UnwrittenOK ==
  /\ pc \in NotYet => \A f \in Folders : Unwritten(f, Uids)
  /\ pc \in InFolder \cup {"folder"} => \A f \in todo : Unwritten(f, Uids)
  /\ pc \in InFolder => folder \notin todo
  /\ pc \in {"flags", "identity"} => Unwritten(folder, Uids)
  /\ pc = "intent" => intents \subseteq Batch /\ Unwritten(folder, (queue \ Batch) \cup intents)
  /\ pc \in {"moving", "rows"} => Unwritten(folder, queue \ Batch)
LedgerInv == LogOK /\ UnwrittenOK

\* What undo has counted so far.
CheckInv ==
  upc = "check" =>
    \A id \in Ids : Source(id) \notin ucheck \cup blocked => never[id] = NeverMoved(id)

\* While undo moves messages back: what it has found in Trash for a folder and
\* not moved yet is the run's, at most as many of a Message-ID as the folder
\* misses, and makes up for them.
Missing(f, id) == {c \in Discarded : IdOf[c] = id /\ Home[c] = f /\ f \notin HeldBy(c)}
Owed(f, id) == {e.msg : e \in {x \in At(Trash, found[f]) : IdOf[x.msg] = id}} \ restored
Balanced(f, id) ==
  /\ Cardinality(Owed(f, id)) <= Cardinality(Missing(f, id))
  /\ f \notin blocked =>
       Cardinality(WithId(f, id)) + Cardinality(Owed(f, id)) = CountBefore(f, id)

\* The UIDs of the call that still name a message undo has not moved.
Left == IF mv.pc = "chunk" THEN mv.todo
        ELSE IF mv.pc \in {"store", "expunge"} THEN mv.todo \ mv.chunk ELSE {}
ReturnsOK ==
  /\ \A b \in Boxes : IsFiniteSet(mail[b])
  /\ \A c \in Discarded : Home[c] \in Folders
  /\ \A f \in Folders : \A e \in mail[f] : Home[e.msg] = f
  /\ \A e, d \in mail[Trash] : e.msg = d.msg => e = d
  /\ \A c \in restored : c \in Discarded /\ Home[c] \in HeldBy(c)
  /\ \A f \in Folders : \A e \in At(Trash, found[f]) :
       /\ e.msg \in Discarded /\ Home[e.msg] = f /\ IdOf[e.msg] \in MessageIDs
       /\ ~(upc = "moving" /\ mv.dst = f) => e.msg \notin restored
  /\ \A f \in Folders, id \in MessageIDs : Balanced(f, id)
  /\ upc = "moving" =>
       /\ mv.dst \in Folders /\ mv.todo \subseteq found[mv.dst]
       /\ mv.pc \in {"store", "expunge"} => mv.chunk \subseteq mv.todo
       /\ mv.pc # "err" =>
            \A e \in At(Trash, found[mv.dst]) : e.msg \in restored <=> e.uid \notin Left
ReturnInv ==
  /\ upc \in {"restore", "moving"} => ReturnsOK
  /\ restored \subseteq Discarded
  /\ upc = "ended" => \A f \in Folders \ blocked, id \in MessageIDs :
                        Cardinality(WithId(f, id)) = CountBefore(f, id)

-----------------------------------------------------------------------------
\* What an operation still has to do, as a set of steps <<<<box, uid>>, step>>
\* with UID 0 for a whole mailbox: why it comes to an end.

\* MoveUIDs, for one UID of its call.
MoveWork == {"copy", "store", "expunge"}
CallLeft(u) ==
  IF ~CallOut \/ u \notin mv.todo THEN {}
  ELSE IF u \notin mv.chunk THEN MoveWork
  ELSE IF mv.pc = "store" THEN {"store", "expunge"} ELSE {"expunge"}

\* A run: its phases, the folders it has not come to, and the UIDs in them, of
\* which the ones at hand are recorded, moved, confirmed and dropped by batches.
PhasesLeft ==
  CASE pc = "refused" -> {"refused", "unsubscribe", "targets", "folders", "finish"}
    [] pc = "unsubscribe" -> {"unsubscribe", "targets", "folders", "finish"}
    [] pc = "targets" -> {"targets", "folders", "finish"}
    [] pc \in InFolder \cup {"folder"} -> {"folders", "finish"}
    [] pc \in {"finish", "abort"} -> {"finish"}
    [] OTHER -> {}

FolderAhead(f) ==
  \/ pc \in {"refused", "unsubscribe", "targets"}
  \/ pc \in InFolder \cup {"folder"} /\ f \in todo
FolderLeft(f) ==
  IF FolderAhead(f) THEN {"select", "flags", "identity"}
  ELSE IF pc = "flags" /\ f = folder THEN {"flags", "identity"}
  ELSE IF pc = "identity" /\ f = folder THEN {"identity"} ELSE {}

UidWork == {"intent", "sync", "confirm", "drop"} \cup MoveWork
BatchLeft(u) ==
  IF pc = "intent" THEN (IF u \in intents THEN UidWork ELSE UidWork \ {"intent"})
  ELSE IF pc = "moving" THEN {"confirm", "drop"} \cup CallLeft(u) ELSE {"drop"}
UidAhead(f, u) ==
  \/ FolderAhead(f)
  \/ pc \in {"flags", "identity"} /\ f = folder
  \/ pc \in InBatches /\ f = folder /\ u \in queue \ Batch
UidLeft(f, u) ==
  IF UidAhead(f, u) THEN UidWork
  ELSE IF pc \in InBatches /\ f = folder /\ u \in Batch THEN BatchLeft(u) ELSE {}

FoldersLeft == UNION {{<<f, 0>>} \X FolderLeft(f) : f \in Folders}
UidsLeft == UNION {{<<r.folder, r.uid>>} \X UidLeft(r.folder, r.uid) : r \in ScannedRows}
RunLeft == ({<<Trash, 0>>} \X PhasesLeft) \cup FoldersLeft \cup UidsLeft

\* Every step of a run, and of the call it waits for, uses up something the run
\* still had to do and adds nothing, whatever fails and whatever the server, the
\* other client or a crash do: no error path of Execute, deleteFolder or
\* MoveUIDs goes back to work that was done, and no loop runs without end.
RunBounded ==
  [][Running =>
       /\ IsFiniteSet(RunLeft)
       /\ IF UNCHANGED <<runVars, mv>>
            THEN RunLeft' = RunLeft
            ELSE RunLeft' \subseteq RunLeft /\ RunLeft' # RunLeft]_vars

\* An undo: the folders to check, and then each UID it has found in Trash.
ReturnLeft(f, u) ==
  IF upc = "moving" /\ f = mv.dst THEN {"note"} \cup CallLeft(u) ELSE {"call", "note"} \cup MoveWork
FoundLeft == UNION {UNION {{<<f, u>>} \X ReturnLeft(f, u) : u \in found[f]} : f \in Folders}
UndoLeft ==
  CASE upc = "check" -> {<<<<Trash, 0>>, "locate">>} \cup ((ucheck \X {0}) \X {"check"})
    [] upc \in {"restore", "moving"} -> {<<<<Trash, 0>>, "end">>} \cup FoundLeft
    [] OTHER -> {}

\* The same of an undo, which once, between its two phases, learns what there is
\* to move back, and looks for nothing after that (Run).
UndoBounded ==
  [][UndoRunning =>
       /\ IsFiniteSet(UndoLeft)
       /\ upc # "check" => upc' # "check"
       /\ IF UNCHANGED <<upc, ucheck, found, mv>>
            THEN UndoLeft' = UndoLeft
            ELSE \/ upc = "check" /\ upc' = "restore"
                 \/ UndoLeft' \subseteq UndoLeft /\ UndoLeft' # UndoLeft]_vars

\* Neither operation has a loop that could run without end (Execute, Run).
OperationsBounded == RunBounded /\ UndoBounded

\* The inductive invariant behind the two: no batch and no chunk is empty, and a
\* folder that was selected is not to come again.
RunBusy ==
  /\ pc \in InFolder => folder \notin todo
  /\ pc \in InBatches => queue # {}
  /\ pc = "intent" => intents \subseteq Batch
CallBusy ==
  /\ mv.pc = "chunk" => mv.todo # {} /\ mv.chunk = {}
  /\ mv.pc \in {"store", "expunge"} => mv.chunk # {} /\ mv.chunk \subseteq mv.todo
UndoBusy ==
  upc = "moving" => mv.dst \in Folders /\ found[mv.dst] # {} /\ mv.todo \subseteq found[mv.dst]
BusyInv == OwnerInv /\ RunBusy /\ CallBusy /\ UndoBusy
=============================================================================
