------------------------------- MODULE Apply -------------------------------
\* internal/apply: Prepare works out what a plan would do, Execute unsubscribes
\* and moves the selected messages to Trash folder by folder and batch by batch,
\* with a write-ahead audit line for every message.
EXTENDS AuditLog

CONSTANTS
  Senders,        \* sender keys
  SenderOf,       \* [Copies -> Senders]
  Bulk,           \* copies that carry List-Unsubscribe
  Transactional,  \* copies whose subject the keep rule matches
  Scanned,        \* copies the last scan stored
  Unsubscribe,    \* senders the plan unsubscribes from
  DeleteMatched,  \* senders whose List-Unsubscribe mail the plan deletes
  DeleteAll,      \* senders whose whole mail the plan deletes
  IncludeKept,    \* senders that waive the keep rule
  KeepEnabled,    \* protect.keep_transactional
  Protected,      \* senders the database or the config protects
  OwnAddress,     \* senders whose address is the account's own
  WellKnown,      \* folders named like Trash, Spam, Drafts or Sent
  SpecialUse,     \* folders the server marks \Trash, \Junk, \Drafts or \Sent
  NeverDest,      \* neverDest: mailboxes nothing may be moved into
  MoveBatch       \* apply.moveBatch, UIDs per audit checkpoint

ASSUME PlanAssumption ==
  /\ SenderOf \in [Copies -> Senders]
  /\ Bulk \subseteq Copies /\ Transactional \subseteq Copies /\ Scanned \subseteq Copies
  /\ Unsubscribe \cup DeleteMatched \cup DeleteAll \cup IncludeKept \subseteq Senders
  /\ Protected \cup OwnAddress \subseteq Senders
  /\ WellKnown \subseteq Folders /\ SpecialUse \subseteq Folders
  /\ NeverDest \subseteq Boxes
  /\ KeepEnabled \in BOOLEAN
  /\ MoveBatch \in Nat \ {0}

VARIABLES
  db,         \* the local database: messages rows and the folders' UIDVALIDITY
  pc,         \* where the run is
  scope,      \* the plan entries left after Prepare, by delete scope
  trashOk,    \* Prepare resolved the Trash mailbox
  targets,    \* the rows deleteAll read
  noSource,   \* folders this run never reads from
  todo,       \* folders still to do
  folder,     \* the folder being worked on
  flagsSeen,  \* FetchFlags' answer: UIDs present, and the flagged ones
  queue,      \* eligible UIDs not yet moved
  intents,    \* UIDs of the batch whose intent is not written yet
  steady      \* history: copies starred ever since Execute began

runVars == <<pc, scope, trashOk, targets, noSource, todo, folder, flagsSeen,
             queue, intents>>
applyVars == <<db, runVars, steady>>

Row == [folder : Folders, uid : Uids, msg : Copies, starred : BOOLEAN]
ScannedRows ==
  {[folder |-> Home[c], uid |-> FirstUid[c], msg |-> c, starred |-> c \in Starred0] :
     c \in {d \in Scanned : Home[d] # Trash}}

RunEnded == pc \in {"done", "stopped", "failed", "crashed"}

NoFlags == [present |-> {}, starred |-> {}]
NoScope == [all |-> {}, matched |-> {}]

Goto(label) == pc' = label

-----------------------------------------------------------------------------
\* Prepare.

\* filterProtected. A protected sender loses its entry; "everything from this
\* sender" is refused for the account's own address, and what else the entry
\* asks for is kept.
FilterProtected ==
  [all |-> (DeleteAll \ Protected) \ OwnAddress, matched |-> DeleteMatched \ Protected]

Refused ==
  ((Unsubscribe \cup DeleteMatched \cup DeleteAll) \cap Protected)
  \cup (DeleteAll \cap OwnAddress)


\* What a step of the run that issues no MOVE leaves alone.
ServerSame == UNCHANGED <<serverVars, cancelled, userActs, trashed, restored>>

\* Prepare reads the database and looks up Trash; it changes nothing else. A
\* Trash that cannot be resolved is remembered, not returned.
Prepare ==
  /\ pc = "review"
  /\ scope' = FilterProtected
  /\ \/ trashOk' = TRUE /\ UNCHANGED faults
     \/ trashOk' = FALSE /\ Fault("imap") /\ scope' # NoScope
  /\ Goto("prepared")
  /\ ServerSame
  /\ UNCHANGED <<selected, mv, auditVars, db, targets, noSource, todo, folder,
                 flagsSeen, queue, intents, steady>>

-----------------------------------------------------------------------------
\* Execute: the run row and the audit log, the entries Prepare refused, then
\* the unsubscribe phase and the delete phase.

OpenRun ==
  /\ pc = "prepared"
  /\ \/ Goes /\ Goto("refused")
     \/ Fails("db") /\ Goto("failed")
  /\ steady' = starred
  /\ ServerSame
  /\ UNCHANGED <<selected, mv, auditVars, db, scope, trashOk, targets, noSource,
                 todo, folder, flagsSeen, queue, intents>>

WriteRefused ==
  /\ pc = "refused"
  /\ IF Refused = {} THEN UNCHANGED <<auditVars, faults>>
                     ELSE Write(NewLine("skip", "", Trash, {}, NoId))
  /\ Goto(IF auErr' THEN "failed" ELSE "unsubscribe")
  /\ ServerSame
  /\ UNCHANGED <<selected, mv, db, scope, trashOk, targets, noSource, todo, folder,
                 flagsSeen, queue, intents, steady>>

\* The executor has module Unsub to itself; here the phase is its audit lines.
\* A write that fails is found out before the first MOVE. ExecOptions may leave
\* either phase out.
UnsubscribePhase ==
  /\ pc = "unsubscribe"
  /\ \/ UNCHANGED <<auditVars, faults>>
     \/ Unsubscribe \ Protected # {} /\ Write(NewLine("unsubscribe", "", Trash, {}, NoId))
  /\ Goto("targets") \/ Goto("finish")
  /\ ServerSame
  /\ UNCHANGED <<selected, mv, db, scope, trashOk, targets, noSource, todo, folder,
                 flagsSeen, queue, intents, steady>>

-----------------------------------------------------------------------------
\* deleteAll.

\* deleteTargets: what the database holds now for each entry and its scope.
InScope(r) ==
  \/ SenderOf[r.msg] \in scope.all
  \/ SenderOf[r.msg] \in scope.matched /\ r.msg \in Bulk

DeleteTargets == {r \in db.rows : InScope(r)}

RowsIn(f) == {r \in targets : r.folder = f}
UidsOf(rows) == {r.uid : r \in rows}

\* Without a Trash every target is skipped. protectedFolders goes on when the
\* server cannot answer a special-use lookup.
StartDelete ==
  /\ pc = "targets"
  /\ \/ /\ Goes
        /\ targets' = DeleteTargets
        /\ todo' = IF trashOk THEN {r.folder : r \in targets'} ELSE {}
        /\ noSource' = WellKnown \cup SpecialUse
        /\ IF trashOk \/ targets' = {}
             THEN UNCHANGED auditVars /\ Goto("folder")
             ELSE Put(NewLine("skip", "", Trash, {}, NoId)) /\ Goto("finish")
     \/ /\ Fault("imap") /\ ~cancelled /\ trashOk
        /\ targets' = DeleteTargets
        /\ todo' = {r.folder : r \in targets'}
        /\ \E known \in SUBSET SpecialUse : noSource' = WellKnown \cup known
        /\ Goto("folder")
        /\ UNCHANGED auditVars
     \/ /\ Fails("db")
        /\ Goto("abort")
        /\ UNCHANGED <<auditVars, targets, todo, noSource>>
  /\ ServerSame
  /\ UNCHANGED <<selected, mv, db, scope, trashOk, folder, flagsSeen, queue,
                 intents, steady>>

\* The loop over the folders: its context check, and its end.
EndFolders ==
  /\ pc = "folder"
  /\ todo = {} \/ cancelled
  /\ Goto(IF todo = {} THEN "finish" ELSE "abort")
  /\ ServerSame
  /\ UNCHANGED <<selected, mv, faults, auditVars, db, scope, trashOk, targets,
                 noSource, todo, folder, flagsSeen, queue, intents, steady>>

\* deleteFolder refuses a protected folder, one the scan does not know, one it
\* cannot select and one whose UIDVALIDITY is not the scanned one.
StaleValidity(f) == db.validity[f] = 0 \/ db.validity[f] # validity[f]

SkipLine(f, uids) == NewLine("skip", "", f, uids, NoId)

SkipFolder(f) ==
  /\ pc = "folder" /\ f \in todo
  /\ \/ ~cancelled /\ f \in noSource /\ UNCHANGED selected
        /\ Write(SkipLine(f, UidsOf(RowsIn(f))))
     \/ ~cancelled /\ f \notin noSource /\ StaleValidity(f) /\ selected' = f
        /\ Write(SkipLine(f, UidsOf(RowsIn(f))))
     \/ f \notin noSource /\ Fails("db") /\ UNCHANGED selected
        /\ Put(SkipLine(f, UidsOf(RowsIn(f))))
     \/ ~cancelled /\ f \notin noSource /\ Fault("imap") /\ selected' = "none"
        /\ Put(SkipLine(f, UidsOf(RowsIn(f))))
  /\ todo' = todo \ {f}
  /\ ServerSame
  /\ UNCHANGED <<mv, db, pc, scope, trashOk, targets, noSource, folder, flagsSeen,
                 queue, intents, steady>>

SelectFolder(f) ==
  /\ pc = "folder" /\ f \in todo /\ ~cancelled
  /\ f \notin noSource /\ ~StaleValidity(f)
  /\ selected' = f
  /\ folder' = f
  /\ todo' = todo \ {f}
  /\ Goto("flags")
  /\ ServerSame
  /\ UNCHANGED <<mv, faults, auditVars, db, scope, trashOk, targets, noSource,
                 flagsSeen, queue, intents, steady>>

\* An error that ends the run: Execute still calls finish.
Abort(kind, label) ==
  /\ pc = label
  /\ Fails(kind)
  /\ Goto("abort")
  /\ ServerSame
  /\ UNCHANGED <<selected, mv, auditVars, db, scope, trashOk, targets, noSource, todo,
                 folder, flagsSeen, queue, intents, steady>>

\* One FETCH for the flags of every target UID of the folder ...
FetchFlags ==
  /\ pc = "flags" /\ Goes
  /\ LET es == At(folder, UidsOf(RowsIn(folder)))
     IN  flagsSeen' = [present |-> {e.uid : e \in es},
                       starred |-> {e.uid : e \in {x \in es : x.msg \in starred}}]
  /\ Goto("identity")
  /\ ServerSame
  /\ UNCHANGED <<selected, mv, auditVars, db, scope, trashOk, targets, noSource, todo,
                 folder, queue, intents, steady>>

\* Mutants: the flags of the scan alone; the UID alone.
FlagsAsScanned(r) == ~r.starred
SameUid(r, e) == e.uid = r.uid

\* ... and one for their Message-IDs and subjects. Flags count from the scan
\* and from the fetch; a UID the flag fetch did not report is unknown, not clean.
FlagsClean(r) ==
  /\ ~r.starred
  /\ r.uid \in flagsSeen.present
  /\ r.uid \notin flagsSeen.starred

SameMessage(r, e) ==
  /\ e.uid = r.uid
  /\ IdOf[r.msg] # NoId
  /\ IdOf[e.msg] = IdOf[r.msg]

Kept(r, e) ==
  /\ KeepEnabled
  /\ SenderOf[r.msg] \notin IncludeKept
  /\ e.msg \in Transactional \/ r.msg \in Transactional

\* ~ineligible
Eligible(r) ==
  /\ FlagsClean(r)
  /\ \E e \in mail[folder] : SameMessage(r, e) /\ ~Kept(r, e)

\* Mutant of FetchIdentity: what is not eligible is dropped in silence.
DropIneligible ==
  /\ pc = "identity" /\ ~cancelled
  /\ queue' = UidsOf({r \in RowsIn(folder) : Eligible(r)})
  /\ intents' = Lowest(queue', MoveBatch)
  /\ Goto(IF queue' = {} THEN "folder" ELSE IF auErr THEN "abort" ELSE "intent")
  /\ ServerSame
  /\ UNCHANGED <<selected, mv, faults, auditVars, db, scope, trashOk, targets, noSource,
                 todo, folder, flagsSeen, steady>>

FetchIdentity ==
  /\ pc = "identity" /\ ~cancelled
  /\ LET rows == RowsIn(folder)
         good == {r \in rows : Eligible(r)}
     IN  /\ IF good = rows THEN UNCHANGED <<auditVars, faults>>
                           ELSE Write(SkipLine(folder, UidsOf(rows \ good)))
         /\ queue' = UidsOf(good)
         /\ intents' = Lowest(queue', MoveBatch)
         /\ Goto(IF good = {} THEN "folder" ELSE IF auErr' THEN "abort" ELSE "intent")
  /\ ServerSame
  /\ UNCHANGED <<selected, mv, db, scope, trashOk, targets, noSource, todo, folder,
                 flagsSeen, steady>>

-----------------------------------------------------------------------------
\* The batches of one folder.

Batch == Lowest(queue, MoveBatch)
StoredId(f, u) == IdOf[(CHOOSE r \in targets : r.folder = f /\ r.uid = u).msg]

\* Write ahead: one intent per UID of the batch ...
WriteIntent ==
  /\ pc = "intent"
  /\ \E u \in intents :
       /\ \A v \in intents : u <= v
       /\ Write(Intent(folder, u, StoredId(folder, u)))
       /\ intents' = intents \ {u}
  /\ ServerSame
  /\ UNCHANGED <<selected, mv, db, pc, scope, trashOk, targets, noSource, todo, folder,
                 flagsSeen, queue, steady>>

\* Mutant of SyncIntents: the MOVE goes out first, the log is synced after it.
MoveUnsynced ==
  /\ pc = "intent" /\ intents = {} /\ ~auErr
  /\ MoveCall(folder, Trash, Batch)
  /\ Goto("moving")
  /\ ServerSame
  /\ UNCHANGED <<selected, faults, auditVars, db, scope, trashOk, targets, noSource,
                 todo, folder, flagsSeen, queue, intents, steady>>

\* ... fsynced, and only then the MOVE.
SyncIntents ==
  /\ pc = "intent" /\ intents = {}
  /\ \/ SyncOk /\ MoveCall(folder, Trash, Batch) /\ Goto("moving")
     \/ SyncFails /\ UNCHANGED mv /\ Goto("abort")
  /\ ServerSame
  /\ UNCHANGED <<selected, db, scope, trashOk, targets, noSource, todo, folder,
                 flagsSeen, queue, intents, steady>>

\* Mutant of Confirm: the confirmation is left in the page cache.
ConfirmUnsynced ==
  /\ pc = "moving" /\ mv.pc = "ok"
  /\ Write(Confirmation(folder, Batch))
  /\ Goto("rows")
  /\ mv' = Idle
  /\ ServerSame
  /\ UNCHANGED <<selected, db, scope, trashOk, targets, noSource, todo, folder,
                 flagsSeen, queue, intents, steady>>

\* MoveUIDs returned nil: the confirmation lists the UIDs the server accepted.
Confirm ==
  /\ pc = "moving" /\ mv.pc = "ok"
  /\ \/ WriteSynced(Confirmation(folder, Batch)) /\ Goto("rows")
     \/ WriteUnsynced(Confirmation(folder, Batch)) /\ Goto("abort")
  /\ mv' = Idle
  /\ ServerSame
  /\ UNCHANGED <<selected, db, scope, trashOk, targets, noSource, todo, folder,
                 flagsSeen, queue, intents, steady>>

\* Mutant of MoveFailed: the batch is tried again, whatever the error was.
MoveRetried ==
  /\ pc = "moving" /\ mv.pc = "err"
  /\ MoveCall(folder, Trash, Batch)
  /\ ServerSame
  /\ UNCHANGED <<selected, faults, auditVars, db, pc, scope, trashOk, targets, noSource,
                 todo, folder, flagsSeen, queue, intents, steady>>

\* MoveUIDs returned an error: nothing of the batch is confirmed.
MoveFailed ==
  /\ pc = "moving" /\ mv.pc = "err"
  /\ Write(NewLine("error", "", folder, {}, NoId))
  /\ mv' = Idle
  /\ Goto("abort")
  /\ ServerSame
  /\ UNCHANGED <<selected, db, scope, trashOk, targets, noSource, todo, folder,
                 flagsSeen, queue, intents, steady>>

\* DeleteMessageRows, then the next batch.
DropRows ==
  /\ pc = "rows" /\ Goes
  /\ db' = [db EXCEPT !.rows = {r \in @ : ~(r.folder = folder /\ r.uid \in Batch)}]
  /\ queue' = queue \ Batch
  /\ intents' = Lowest(queue', MoveBatch)
  /\ Goto(IF queue' = {} THEN "folder" ELSE "intent")
  /\ ServerSame
  /\ UNCHANGED <<selected, mv, auditVars, scope, trashOk, targets, noSource, todo,
                 folder, flagsSeen, steady>>

\* finish: the summary is recorded, or a warning is printed.
Finish ==
  /\ pc \in {"finish", "abort"}
  /\ Goto(IF pc = "finish" THEN "done" ELSE "stopped")
  /\ ServerSame
  /\ UNCHANGED <<selected, mv, faults, auditVars, db, scope, trashOk, targets, noSource,
                 todo, folder, flagsSeen, queue, intents, steady>>

ApplyStep ==
  \/ OpenRun \/ WriteRefused \/ UnsubscribePhase
  \/ StartDelete \/ EndFolders
  \/ \E f \in Folders : SkipFolder(f) \/ SelectFolder(f)
  \/ FetchFlags \/ FetchIdentity
  \/ Abort("imap", "flags") \/ Abort("imap", "identity") \/ Abort("db", "rows")
  \/ WriteIntent \/ SyncIntents \/ Confirm \/ MoveFailed \/ DropRows
  \/ Finish

ApplyInit ==
  /\ db = [rows |-> ScannedRows, validity |-> [f \in Folders |-> 1]]
  /\ pc = "review"
  /\ scope = NoScope
  /\ trashOk = FALSE
  /\ targets = {} /\ noSource = {} /\ todo = {}
  /\ folder = Trash
  /\ flagsSeen = NoFlags
  /\ queue = {} /\ intents = {}
  /\ steady = {}

ApplyTypeOK ==
  /\ db \in [rows : SUBSET Row, validity : [Folders -> Nat]]
  /\ pc \in {"review", "prepared", "refused", "unsubscribe", "targets", "folder",
             "flags", "identity", "intent", "moving", "rows", "finish", "abort",
             "done", "stopped", "failed", "crashed"}
  /\ scope \in [all : SUBSET Senders, matched : SUBSET Senders]
  /\ trashOk \in BOOLEAN
  /\ targets \subseteq Row
  /\ noSource \subseteq Folders /\ todo \subseteq Folders
  /\ folder \in Boxes
  /\ flagsSeen \in [present : SUBSET Uids, starred : SUBSET Uids]
  /\ queue \subseteq Uids /\ intents \subseteq Uids
  /\ steady \subseteq Copies
=============================================================================
