--------------------------- MODULE SessionProofs ---------------------------
\* Theorems about Session: the types, write-ahead logging, and that only the
\* messages the plan selected are moved. All rest on the inductive invariant
\* IInv.
EXTENDS Session, AuditLogProofs, FiniteSetTheorems, NaturalsInduction, WellFoundedInduction

Calls == [pc : {"idle", "chunk", "store", "expunge", "ok", "err"},
          src : Boxes, dst : Boxes, todo : SUBSET Uids, chunk : SUBSET Uids]

-----------------------------------------------------------------------------
\* The rows.

\* A folder and a UID name one scanned row.
LEMMA RowUnique ==
  ASSUME NEW r \in ScannedRows, NEW s \in ScannedRows, r.folder = s.folder, r.uid = s.uid
  PROVE  r = s
<1> DEFINE row(c) == [folder |-> Home[c], uid |-> FirstUid[c], msg |-> c, starred |-> c \in Starred0]
<1>1. PICK c \in Copies : r = row(c)
  BY PlanAssumption DEF ScannedRows
<1>2. PICK d \in Copies : s = row(d)
  BY PlanAssumption DEF ScannedRows
<1>3. Home[c] = Home[d] /\ FirstUid[c] = FirstUid[d]
  BY <1>1, <1>2
<1> QED BY <1>1, <1>2, <1>3, CopyAssumption

LEMMA RowsTyped == ScannedRows \subseteq Row
<1> SUFFICES ASSUME NEW c \in Copies, Home[c] # Trash
             PROVE  [folder |-> Home[c], uid |-> FirstUid[c], msg |-> c,
                     starred |-> c \in Starred0] \in Row
  BY PlanAssumption DEF ScannedRows
<1>1. Home[c] \in Folders /\ FirstUid[c] \in Uids /\ (c \in Starred0) \in BOOLEAN
  BY CopyAssumption DEF Boxes, Uids
<1> QED BY <1>1 DEF Row

LEMMA StoredIdIs ==
  ASSUME RowsInv, NEW r \in targets, r.folder = folder
  PROVE  StoredId(folder, r.uid) = IdOf[r.msg] /\ IdOf[r.msg] \in MessageIDs \cup {NoId}
<1>1. /\ \A s \in targets : s.folder = folder /\ s.uid = r.uid => s = r
      /\ r.msg \in Copies
  BY RowUnique, RowsTyped DEF RowsInv, Row
<1>2. (CHOOSE s \in targets : s.folder = folder /\ s.uid = r.uid) = r
  BY <1>1
<1> QED BY <1>1, <1>2, CopyAssumption DEF StoredId

-----------------------------------------------------------------------------
\* What a step keeps as long as the folder stays selected.

LEMMA VerifiedKept ==
  ASSUME MailInv, BoxesOK', RowsInv, NEW u, Verified(u), folder \in Boxes, KeepsUids(folder),
         UNCHANGED <<targets, folder, scope>>
  PROVE  Verified(u)'
<1>1. PICK r \in targets :
        /\ r.folder = folder /\ r.uid = u /\ InScope(r) /\ ~r.starred
        /\ u < uidnext[folder]
        /\ \A e \in mail[folder] : e.uid = u =>
             IdOf[e.msg] = IdOf[r.msg] /\ ~Kept(r, [msg |-> e.msg])
  BY DEF Verified
<1>2. InScope(r)'
  BY <1>1 DEF InScope
<1>3. uidnext[folder] \in Nat /\ uidnext'[folder] \in Nat /\ uidnext[folder] <= uidnext'[folder]
  BY DEF MailInv, MailTypeOK, BoxesOK, KeepsUids
<1>4. \A e \in mail'[folder] : e.uid \in Nat
  BY DEF BoxesOK, Entry, Uids
<1>5. ASSUME NEW e \in mail'[folder], e.uid = u
      PROVE  IdOf[e.msg] = IdOf[r.msg] /\ ~Kept(r, [msg |-> e.msg])
  <2>1. PICK d \in mail[folder] : d.uid = e.uid /\ d.msg = e.msg
    BY <1>1, <1>5 DEF KeepsUids
  <2> QED BY <1>1, <1>5, <2>1
<1>6. u < uidnext'[folder]
  <2>1. u \in Nat
    BY <1>1, RowsTyped DEF RowsInv, Row, Uids
  <2> QED BY <2>1, <1>1, <1>3
<1> QED BY <1>1, <1>2, <1>5, <1>6 DEF Verified, Kept

\* The two safety properties survive every step that puts nothing into Trash.
LEMMA HistoryKept ==
  ASSUME AuditTypeOK, WriteAhead, RightMessage, trashed' = trashed, KeepsSynced,
         AuditTypeOK', UNCHANGED <<targets, scope>> \/ trashed = {}
  PROVE  WriteAhead' /\ RightMessage'
<1>1. audit.synced \in Nat /\ audit'.synced \in Nat /\ audit.synced <= audit'.synced
  BY DEF AuditTypeOK, KeepsSynced
<1>2. WriteAhead'
  BY <1>1 DEF WriteAhead, KeepsSynced
<1>3. CASE UNCHANGED <<targets, scope>>
  BY <1>2, <1>3 DEF RightMessage, InScope, Kept
<1>4. CASE trashed = {}
  BY <1>2, <1>4 DEF RightMessage
<1> QED BY <1>2, <1>3, <1>4

-----------------------------------------------------------------------------
\* The steps of apply, none of which moves mail itself.

LEMMA MailFrame ==
  ASSUME MailInv, ServerSame, selected' \in Boxes \cup {"none"}, mv' \in Calls,
         faults' \in 0 .. MaxFaults
  PROVE  MailTypeOK' /\ BoxesOK' /\ \A b \in Boxes : KeepsUids(b)
<1>1. UNCHANGED <<mail, uidnext, validity, starred, cancelled, userActs, trashed, restored>>
  BY DEF ServerSame, serverVars
<1>2. BoxesOK' /\ \A b \in Boxes : KeepsUids(b)
  BY <1>1, SameKeeps
<1>3. /\ validity \in [Boxes -> Nat] /\ starred \subseteq Copies /\ cancelled \in BOOLEAN
      /\ userActs \in 0 .. MaxUserActs /\ restored \subseteq Copies
      /\ trashed \subseteq [folder : Boxes, uid : Uids, msg : Copies]
  BY DEF MailInv, MailTypeOK
<1>4. MailTypeOK'
  BY <1>1, <1>2, <1>3 DEF MailTypeOK, BoxesOK, Calls
<1> QED BY <1>2, <1>4

LEMMA QuietStep ==
  ASSUME IInv, ServerSame, UNCHANGED undoVars, ~RunEnded,
         selected' \in Boxes \cup {"none"}, mv' \in Calls, faults' \in 0 .. MaxFaults,
         AuditTypeOK', KeepsLines, ApplyTypeOK',
         RowsInv', FolderInv', BatchInv',
         UNCHANGED <<targets, scope>> \/ trashed = {},
         pc' \in NotYet => trashed = {},
         mv'.pc \in {"chunk", "store", "expunge"} /\ mv'.dst = Trash => pc' = "moving"
  PROVE  IInv'
<1>1. MailInv /\ AuditTypeOK /\ WriteAhead /\ RightMessage /\ CallInv /\ UndoTypeOK
  BY DEF IInv, TypeOK, MailInv
<1>2. MailTypeOK' /\ BoxesOK'
  BY <1>1, MailFrame
<1>3. trashed' = trashed
  BY DEF ServerSame
<1>4. WriteAhead' /\ RightMessage'
  BY <1>1, <1>3, LinesAreSynced, HistoryKept
<1>5. UndoTypeOK'
  BY <1>1 DEF UndoTypeOK, undoVars
<1>6. CallInv'
  <2>1. ~UndoRunning'
    BY <1>1 DEF CallInv, UndoRunning, undoVars
  <2> QED BY <2>1, <1>3 DEF CallInv
<1> QED BY <1>2, <1>4, <1>5, <1>6 DEF IInv, TypeOK, BoxesOK

\* Nothing is asked of a run that is in no folder.
LEMMA OutOfFolder ==
  ASSUME pc' \notin InFolder \cup {"folder"}
  PROVE  FolderInv' /\ BatchInv'
BY DEF FolderInv, BatchInv, InFolder, InBatches

\* What IInv gives every one of these steps to start from.
LEMMA Start ==
  ASSUME IInv
  PROVE  /\ MailInv /\ AuditTypeOK /\ ApplyTypeOK /\ UndoTypeOK
         /\ RowsInv /\ FolderInv /\ BatchInv /\ CallInv
         /\ selected \in Boxes \cup {"none"} /\ mv \in Calls /\ faults \in 0 .. MaxFaults
         /\ auErr \in BOOLEAN
         /\ audit.synced \in Nat /\ Len(audit.lines) \in Nat /\ audit.synced <= Len(audit.lines)
         /\ pc # "moving" => ~(mv.pc \in {"chunk", "store", "expunge"} /\ mv.dst = Trash)
BY DEF IInv, TypeOK, MailInv, MailTypeOK, Calls, AuditTypeOK, CallInv

LEMMA SameLog ==
  ASSUME AuditTypeOK, UNCHANGED auditVars
  PROVE  AuditTypeOK' /\ KeepsLines
BY DEF AuditTypeOK, KeepsLines, auditVars

LEMMA NewLineTyped ==
  ASSUME NEW a \in Actions, NEW f \in Boxes, NEW U \in SUBSET Uids
  PROVE  NewLine(a, "", f, U, NoId) \in Line /\ NewLine("move", "done", f, U, NoId) \in Line
BY DEF NewLine, Line, Actions

LEMMA PrepareStep ==
  ASSUME IInv, Prepare, UNCHANGED undoVars
  PROVE  IInv'
<1>1. /\ ServerSame /\ pc = "review" /\ pc' = "prepared"
      /\ UNCHANGED <<selected, mv, auditVars, db, targets, noSource, todo, folder, flagsSeen,
                     queue, intents, steady>>
      /\ scope' = FilterProtected /\ trashOk' \in BOOLEAN
      /\ Fault("imap") \/ UNCHANGED faults
  BY DEF Prepare, Goto
<1>2. scope' \in [all : SUBSET Senders, matched : SUBSET Senders]
  BY <1>1, PlanAssumption DEF FilterProtected
<1>3. ApplyTypeOK'
  BY <1>1, <1>2, Start DEF ApplyTypeOK
<1>4. RowsInv' /\ trashed = {}
  BY <1>1, Start DEF RowsInv, InScope, NotYet, ScannedRows, CallInv
<1>5. FolderInv' /\ BatchInv'
  BY <1>1, OutOfFolder DEF InFolder
<1>6. faults' \in 0 .. MaxFaults /\ AuditTypeOK' /\ KeepsLines
  BY <1>1, Start, FaultTyped, SameLog
<1> QED BY <1>1, <1>3, <1>4, <1>5, <1>6, Start, QuietStep DEF RunEnded

\* Before the delete phase, and at the end of a run.
LEMMA OpenRunStep ==
  ASSUME IInv, OpenRun, UNCHANGED undoVars
  PROVE  IInv'
<1>1. /\ ServerSame /\ pc = "prepared" /\ pc' \in {"refused", "failed"}
      /\ UNCHANGED <<selected, mv, auditVars, db, scope, trashOk, targets, noSource, todo,
                     folder, flagsSeen, queue, intents>>
      /\ steady' = starred
      /\ Fault("db") \/ UNCHANGED faults
  BY DEF OpenRun, Goto, Goes, Fails
<1>2. steady' \subseteq Copies /\ trashed = {}
  BY <1>1, Start DEF MailInv, MailTypeOK, CallInv, NotYet
<1>3. ApplyTypeOK' /\ RowsInv'
  BY <1>1, <1>2, Start DEF ApplyTypeOK, RowsInv, InScope, NotYet, ScannedRows
<1>4. FolderInv' /\ BatchInv'
  BY <1>1, OutOfFolder DEF InFolder
<1>5. faults' \in 0 .. MaxFaults /\ AuditTypeOK' /\ KeepsLines
  BY <1>1, Start, FaultTyped, SameLog
<1> QED BY <1>1, <1>2, <1>3, <1>4, <1>5, Start, QuietStep DEF RunEnded

LEMMA WriteRefusedStep ==
  ASSUME IInv, WriteRefused, UNCHANGED undoVars
  PROVE  IInv'
<1> DEFINE l == NewLine("skip", "", Trash, {}, NoId)
<1>1. /\ ServerSame /\ pc = "refused" /\ pc' \in {"failed", "unsubscribe"}
      /\ UNCHANGED <<selected, mv, db, scope, trashOk, targets, noSource, todo, folder,
                     flagsSeen, queue, intents, steady>>
      /\ UNCHANGED <<auditVars, faults>> \/ Write(l)
  BY DEF WriteRefused, Goto
<1>2. l \in Line
  BY NewLineTyped DEF Actions, Boxes
<1> HIDE DEF l
<1>3. faults' \in 0 .. MaxFaults /\ AuditTypeOK' /\ KeepsLines
  BY <1>1, <1>2, Start, SameLog, WriteKeeps, FaultTyped
<1>4. ApplyTypeOK' /\ RowsInv' /\ trashed = {}
  BY <1>1, Start DEF ApplyTypeOK, RowsInv, InScope, NotYet, ScannedRows, CallInv
<1>5. FolderInv' /\ BatchInv'
  BY <1>1, OutOfFolder DEF InFolder
<1> QED BY <1>1, <1>3, <1>4, <1>5, Start, QuietStep DEF RunEnded

LEMMA UnsubscribeStep ==
  ASSUME IInv, UnsubscribePhase, UNCHANGED undoVars
  PROVE  IInv'
<1> DEFINE l == NewLine("unsubscribe", "", Trash, {}, NoId)
<1>1. /\ ServerSame /\ pc = "unsubscribe" /\ pc' \in {"targets", "finish"}
      /\ UNCHANGED <<selected, mv, db, scope, trashOk, targets, noSource, todo, folder,
                     flagsSeen, queue, intents, steady>>
      /\ UNCHANGED <<auditVars, faults>> \/ Write(l)
  BY DEF UnsubscribePhase, Goto
<1>2. l \in Line
  BY NewLineTyped DEF Actions, Boxes
<1> HIDE DEF l
<1>3. faults' \in 0 .. MaxFaults /\ AuditTypeOK' /\ KeepsLines
  BY <1>1, <1>2, Start, SameLog, WriteKeeps, FaultTyped
<1>4. ApplyTypeOK' /\ RowsInv' /\ trashed = {}
  BY <1>1, Start DEF ApplyTypeOK, RowsInv, InScope, NotYet, ScannedRows, CallInv
<1>5. FolderInv' /\ BatchInv'
  BY <1>1, OutOfFolder DEF InFolder
<1> QED BY <1>1, <1>3, <1>4, <1>5, Start, QuietStep DEF RunEnded

LEMMA FinishStep ==
  ASSUME IInv, Finish, UNCHANGED undoVars
  PROVE  IInv'
<1>1. /\ ServerSame /\ pc \in {"finish", "abort"} /\ pc' \in {"done", "stopped"}
      /\ UNCHANGED <<selected, mv, faults, auditVars, db, scope, trashOk, targets, noSource,
                     todo, folder, flagsSeen, queue, intents, steady>>
  BY DEF Finish, Goto
<1>2. faults' \in 0 .. MaxFaults /\ AuditTypeOK' /\ KeepsLines
  BY <1>1, Start, SameLog, FaultTyped
<1>3. ApplyTypeOK' /\ RowsInv'
  BY <1>1, Start DEF ApplyTypeOK, RowsInv, InScope, NotYet, ScannedRows
<1>4. FolderInv' /\ BatchInv' /\ pc' \notin NotYet
  BY <1>1, OutOfFolder DEF InFolder, NotYet
<1> QED BY <1>1, <1>2, <1>3, <1>4, Start, QuietStep DEF RunEnded

LEMMA AbortStep ==
  ASSUME IInv, NEW kind, NEW label \in {"flags", "identity", "rows"}, Abort(kind, label),
         UNCHANGED undoVars
  PROVE  IInv'
<1>1. /\ ServerSame /\ pc \in {"flags", "identity", "rows"} /\ pc' = "abort"
      /\ UNCHANGED <<selected, mv, auditVars, db, scope, trashOk, targets, noSource,
                     todo, folder, flagsSeen, queue, intents, steady>>
      /\ Fault(kind) \/ UNCHANGED faults
  BY DEF Abort, Goto, Fails
<1>2. faults' \in 0 .. MaxFaults /\ AuditTypeOK' /\ KeepsLines
  BY <1>1, Start, SameLog, FaultTyped
<1>3. ApplyTypeOK' /\ RowsInv'
  BY <1>1, Start DEF ApplyTypeOK, RowsInv, InScope, NotYet, ScannedRows
<1>4. FolderInv' /\ BatchInv' /\ pc' \notin NotYet
  BY <1>1, OutOfFolder DEF InFolder, NotYet
<1> QED BY <1>1, <1>2, <1>3, <1>4, Start, QuietStep DEF RunEnded

\* The folders.
LEMMA EndFoldersStep ==
  ASSUME IInv, EndFolders, UNCHANGED undoVars
  PROVE  IInv'
<1>1. /\ ServerSame /\ pc = "folder" /\ pc' \in {"finish", "abort"}
      /\ UNCHANGED <<selected, mv, faults, auditVars, db, scope, trashOk, targets, noSource,
                     todo, folder, flagsSeen, queue, intents, steady>>
  BY DEF EndFolders, Goto
<1>2. faults' \in 0 .. MaxFaults /\ AuditTypeOK' /\ KeepsLines
  BY <1>1, Start, SameLog, FaultTyped
<1>3. ApplyTypeOK' /\ RowsInv'
  BY <1>1, Start DEF ApplyTypeOK, RowsInv, InScope, NotYet, ScannedRows
<1>4. FolderInv' /\ BatchInv' /\ pc' \notin NotYet
  BY <1>1, OutOfFolder DEF InFolder, NotYet
<1> QED BY <1>1, <1>2, <1>3, <1>4, Start, QuietStep DEF RunEnded

LEMMA StartDeleteStep ==
  ASSUME IInv, StartDelete, UNCHANGED undoVars
  PROVE  IInv'
<1> DEFINE l == NewLine("skip", "", Trash, {}, NoId)
<1>1. /\ ServerSame /\ pc = "targets" /\ pc' \in {"folder", "finish", "abort"}
      /\ UNCHANGED <<selected, mv, db, scope, trashOk, folder, flagsSeen, queue, intents, steady>>
      /\ UNCHANGED auditVars \/ Put(l)
      /\ Fault("imap") \/ Fault("db") \/ UNCHANGED faults
      /\ \/ /\ targets' = DeleteTargets
            /\ todo' \subseteq {r.folder : r \in targets'}
            /\ \E known \in SUBSET SpecialUse : noSource' = WellKnown \cup known
         \/ pc' = "abort" /\ UNCHANGED <<targets, todo, noSource>>
  BY DEF StartDelete, Goto, Goes, Fails
<1>2. l \in Line
  BY NewLineTyped DEF Actions, Boxes
<1> HIDE DEF l
<1>3. faults' \in 0 .. MaxFaults /\ AuditTypeOK' /\ KeepsLines
  BY <1>1, <1>2, Start, SameLog, PutKeeps, FaultTyped
<1>4. DeleteTargets \subseteq db.rows /\ db.rows \subseteq ScannedRows /\ trashed = {}
  BY <1>1, Start DEF DeleteTargets, RowsInv, CallInv, NotYet
<1>5. targets' \subseteq ScannedRows /\ \A r \in targets' : InScope(r)
  BY <1>1, <1>4, Start DEF RowsInv, DeleteTargets
<1>6. RowsInv'
  BY <1>1, <1>4, <1>5 DEF RowsInv, InScope, NotYet, ScannedRows
<1>7. targets' \subseteq Row /\ todo' \subseteq Folders /\ noSource' \subseteq Folders
  <2>1. targets' \subseteq Row
    BY <1>5, RowsTyped
  <2>2. CASE pc' = "abort" /\ UNCHANGED <<targets, todo, noSource>>
    BY <2>1, <2>2, Start DEF ApplyTypeOK
  <2>3. CASE /\ todo' \subseteq {r.folder : r \in targets'}
             /\ \E known \in SUBSET SpecialUse : noSource' = WellKnown \cup known
    BY <2>1, <2>3, PlanAssumption DEF Row
  <2> QED BY <1>1, <2>1, <2>2, <2>3
<1>8. ApplyTypeOK'
  BY <1>1, <1>7, Start DEF ApplyTypeOK
<1>9. FolderInv' /\ BatchInv'
  <2>1. CASE pc' # "folder"
    BY <1>1, <2>1, OutOfFolder DEF InFolder
  <2>2. CASE pc' = "folder"
    BY <1>1, <2>2 DEF FolderInv, BatchInv, InFolder, InBatches
  <2> QED BY <2>1, <2>2
<1> QED BY <1>1, <1>3, <1>4, <1>6, <1>8, <1>9, Start, QuietStep DEF RunEnded

LEMMA SkipFolderStep ==
  ASSUME IInv, NEW f \in Folders, SkipFolder(f), UNCHANGED undoVars
  PROVE  IInv'
<1> DEFINE l == SkipLine(f, UidsOf(RowsIn(f)))
<1>1. /\ ServerSame /\ pc = "folder" /\ todo' = todo \ {f}
      /\ UNCHANGED <<mv, db, pc, scope, trashOk, targets, noSource, folder, flagsSeen,
                     queue, intents, steady>>
      /\ Write(l) \/ (Put(l) /\ (Fault("db") \/ Fault("imap") \/ UNCHANGED faults))
      /\ selected' \in {selected, f, "none"}
  BY DEF SkipFolder, Fails
<1>2. l \in Line
  <2>1. UidsOf(RowsIn(f)) \subseteq Uids
    BY Start DEF ApplyTypeOK, UidsOf, RowsIn, Row
  <2> QED BY <2>1, NewLineTyped DEF SkipLine, Actions, Boxes
<1> HIDE DEF l
<1>3. faults' \in 0 .. MaxFaults /\ AuditTypeOK' /\ KeepsLines
  BY <1>1, <1>2, Start, PutKeeps, WriteKeeps, FaultTyped
<1>4. ApplyTypeOK' /\ RowsInv' /\ selected' \in Boxes \cup {"none"}
  BY <1>1, Start DEF ApplyTypeOK, RowsInv, InScope, NotYet, ScannedRows, Boxes
<1>5. FolderInv' /\ BatchInv'
  BY <1>1, Start DEF FolderInv, BatchInv, InFolder, InBatches
<1>6. pc' \notin NotYet
  BY <1>1 DEF NotYet
<1> QED BY <1>1, <1>3, <1>4, <1>5, <1>6, Start, QuietStep DEF RunEnded

LEMMA SelectFolderStep ==
  ASSUME IInv, NEW f \in Folders, SelectFolder(f), UNCHANGED undoVars
  PROVE  IInv'
<1>1. /\ ServerSame /\ pc = "folder" /\ pc' = "flags" /\ todo' = todo \ {f}
      /\ selected' = f /\ folder' = f /\ f \notin noSource
      /\ UNCHANGED <<mv, faults, auditVars, db, scope, trashOk, targets, noSource, flagsSeen,
                     queue, intents, steady>>
  BY DEF SelectFolder, Goto
<1>2. faults' \in 0 .. MaxFaults /\ AuditTypeOK' /\ KeepsLines
  BY <1>1, Start, SameLog, FaultTyped
<1>3. ApplyTypeOK' /\ RowsInv' /\ selected' \in Boxes \cup {"none"}
  BY <1>1, Start DEF ApplyTypeOK, RowsInv, InScope, NotYet, ScannedRows, Boxes
<1>4. FolderInv' /\ BatchInv' /\ pc' \notin NotYet
  BY <1>1, Start DEF FolderInv, BatchInv, InFolder, InBatches, NotYet
<1> QED BY <1>1, <1>2, <1>3, <1>4, Start, QuietStep DEF RunEnded

\* The checks of one folder.
LEMMA FetchFlagsStep ==
  ASSUME IInv, FetchFlags, UNCHANGED undoVars
  PROVE  IInv'
<1>1. /\ ServerSame /\ pc = "flags" /\ pc' = "identity"
      /\ UNCHANGED <<selected, mv, faults, auditVars, db, scope, trashOk, targets, noSource,
                     todo, folder, queue, intents, steady>>
  BY DEF FetchFlags, Goto, Goes
<1>2. flagsSeen' \in [present : SUBSET Uids, starred : SUBSET Uids]
  <2>1. folder \in Boxes /\ \A e \in mail[folder] : e.uid \in Uids
    BY Start DEF ApplyTypeOK, MailInv, MailTypeOK, Entry
  <2>2. \A e \in At(folder, UidsOf(RowsIn(folder))) : e.uid \in Uids
    BY <2>1, AtIsSubset
  <2> QED BY <2>2 DEF FetchFlags
<1>3. faults' \in 0 .. MaxFaults /\ AuditTypeOK' /\ KeepsLines
  BY <1>1, Start, SameLog, FaultTyped
<1>4. ApplyTypeOK' /\ RowsInv'
  BY <1>1, <1>2, Start DEF ApplyTypeOK, RowsInv, InScope, NotYet, ScannedRows
<1>5. FolderInv' /\ BatchInv' /\ pc' \notin NotYet
  BY <1>1, Start DEF FolderInv, BatchInv, InFolder, InBatches, NotYet
<1> QED BY <1>1, <1>3, <1>4, <1>5, Start, QuietStep DEF RunEnded

\* An eligible row stays verified as long as its folder is selected.
LEMMA EligibleVerified ==
  ASSUME IInv, folder \in Folders, NEW r \in targets, r.folder = folder, Eligible(r)
  PROVE  Verified(r.uid)
<1>1. PICK e \in mail[folder] : SameMessage(r, e) /\ ~Kept(r, e)
  BY DEF Eligible
<1>2. ~r.starred /\ InScope(r)
  BY DEF Eligible, FlagsClean, IInv, RowsInv
<1>3. /\ e.uid = r.uid /\ IdOf[e.msg] = IdOf[r.msg] /\ e.uid < uidnext[folder]
      /\ \A d \in mail[folder] : d.uid = r.uid => d = e
  BY <1>1 DEF SameMessage, IInv, UidsOK, Boxes
<1>4. ~Kept(r, [msg |-> e.msg])
  BY <1>1 DEF Kept
<1> QED BY <1>2, <1>3, <1>4 DEF Verified

LEMMA FetchIdentityStep ==
  ASSUME IInv, FetchIdentity, UNCHANGED undoVars
  PROVE  IInv'
<1> DEFINE good == {r \in RowsIn(folder) : Eligible(r)}
           l == SkipLine(folder, UidsOf(RowsIn(folder) \ good))
<1>1. /\ ServerSame /\ pc = "identity" /\ pc' \in {"folder", "abort", "intent"}
      /\ UNCHANGED <<selected, mv, db, scope, trashOk, targets, noSource, todo, folder,
                     flagsSeen, steady>>
      /\ UNCHANGED <<auditVars, faults>> \/ Write(l)
      /\ queue' = UidsOf(good) /\ intents' = Lowest(queue', MoveBatch)
  BY DEF FetchIdentity, Goto
<1>2. /\ folder \in Folders \ noSource /\ selected = folder /\ WellKnown \subseteq noSource
      /\ folder \in Boxes
  BY <1>1, Start DEF FolderInv, InFolder, Boxes
<1>3. /\ \A r \in good : r \in targets /\ r.folder = folder /\ Eligible(r) /\ r.uid \in Uids
      /\ UidsOf(RowsIn(folder) \ good) \subseteq Uids
  BY Start DEF RowsIn, UidsOf, ApplyTypeOK, Row
<1>4. l \in Line
  BY <1>2, <1>3, NewLineTyped DEF SkipLine, Actions
<1>5. \A u \in UidsOf(good) : u \in Uids /\ Verified(u)
  BY <1>2, <1>3, EligibleVerified DEF UidsOf
<1> HIDE DEF l, good
<1>6. faults' \in 0 .. MaxFaults /\ AuditTypeOK' /\ KeepsLines
  BY <1>1, <1>4, Start, SameLog, WriteKeeps, FaultTyped
<1>7. queue' \subseteq Uids /\ intents' \subseteq queue'
  BY <1>1, <1>5, BoundsAreSubsets
<1>8. ApplyTypeOK'
  BY <1>1, <1>7, Start DEF ApplyTypeOK
<1>9. RowsInv' /\ pc' \notin NotYet
  BY <1>1, Start DEF RowsInv, InScope, NotYet, ScannedRows
<1>10. BoxesOK' /\ KeepsUids(folder)
  BY <1>1, <1>2, <1>6, Start, MailFrame
<1>11. \A u \in queue' : Verified(u)'
  BY <1>1, <1>2, <1>5, <1>10, Start, VerifiedKept
<1>12. Batch' \ intents' = {}
  BY <1>1 DEF Batch
<1>13. FolderInv' /\ BatchInv'
  BY <1>1, <1>2, <1>7, <1>11, <1>12 DEF FolderInv, BatchInv, InFolder, InBatches
<1> QED BY <1>1, <1>6, <1>8, <1>9, <1>13, Start, QuietStep DEF RunEnded

\* The batches.

\* What is in the queue of a folder stands for rows of it.
LEMMA QueueTyped ==
  ASSUME IInv, pc \in InBatches, NEW u \in queue
  PROVE  /\ u \in Uids /\ StoredId(folder, u) \in MessageIDs \cup {NoId}
         /\ folder \in Folders \ WellKnown /\ folder \in Boxes /\ selected = folder
         /\ \E r \in targets :
              /\ r.folder = folder /\ r.uid = u /\ InScope(r) /\ ~r.starred
              /\ StoredId(folder, u) = IdOf[r.msg]
              /\ \A e \in mail[folder] : e.uid = u =>
                   IdOf[e.msg] = IdOf[r.msg] /\ ~Kept(r, [msg |-> e.msg])
<1>1. /\ Verified(u) /\ RowsInv
      /\ folder \in Folders \ noSource /\ WellKnown \subseteq noSource /\ selected = folder
  BY DEF IInv, BatchInv, FolderInv, InBatches, InFolder
<1>2. PICK r \in targets :
        /\ r.folder = folder /\ r.uid = u /\ InScope(r) /\ ~r.starred
        /\ \A e \in mail[folder] : e.uid = u =>
             IdOf[e.msg] = IdOf[r.msg] /\ ~Kept(r, [msg |-> e.msg])
  BY <1>1 DEF Verified
<1>3. StoredId(folder, u) = IdOf[r.msg] /\ IdOf[r.msg] \in MessageIDs \cup {NoId}
  BY <1>1, <1>2, StoredIdIs
<1>4. u \in Uids
  BY <1>2, Start DEF ApplyTypeOK, Row
<1> QED BY <1>1, <1>2, <1>3, <1>4 DEF Boxes

\* The queue of a folder stays verified in a step that moves nothing.
LEMMA QueueKept ==
  ASSUME IInv, pc \in InBatches, ServerSame, selected' = selected, mv' \in Calls,
         faults' \in 0 .. MaxFaults, UNCHANGED <<targets, folder, scope>>,
         queue' \subseteq queue
  PROVE  \A u \in queue' : Verified(u)'
<1> SUFFICES ASSUME NEW u \in queue' PROVE Verified(u)'
  OBVIOUS
<1>1. folder \in Boxes /\ Verified(u)
  BY QueueTyped DEF IInv, BatchInv
<1>2. BoxesOK' /\ KeepsUids(folder)
  BY <1>1, Start, MailFrame
<1> QED BY <1>1, <1>2, Start, VerifiedKept

LEMMA WriteIntentStep ==
  ASSUME IInv, WriteIntent, UNCHANGED undoVars
  PROVE  IInv'
<1>1. PICK u \in intents :
        Write(Intent(folder, u, StoredId(folder, u))) /\ intents' = intents \ {u}
  BY DEF WriteIntent
<1>2. /\ ServerSame /\ pc = "intent" /\ pc' = "intent"
      /\ UNCHANGED <<selected, mv, db, scope, trashOk, targets, noSource, todo, folder,
                     flagsSeen, queue, steady>>
  BY DEF WriteIntent
<1> DEFINE l == Intent(folder, u, StoredId(folder, u))
<1>3. u \in queue /\ u \in Uids /\ intents \subseteq queue /\ pc \in InBatches
  BY <1>1, <1>2, Start, QueueTyped DEF BatchInv, InBatches
<1>4. l \in Line
  BY <1>3, QueueTyped DEF Intent, NewLine, Line, Actions
<1>5. /\ faults' \in 0 .. MaxFaults /\ AuditTypeOK' /\ KeepsLines
      /\ ~auErr' => /\ ~auErr /\ Len(audit'.lines) = Len(audit.lines) + 1
                    /\ audit'.lines[Len(audit.lines) + 1] = l
  BY <1>1, <1>4, Start, WriteKeeps
<1>6. ApplyTypeOK' /\ RowsInv' /\ pc' \notin NotYet
  BY <1>1, <1>2, Start DEF ApplyTypeOK, RowsInv, InScope, NotYet, ScannedRows
<1>7. \A v \in queue' : Verified(v)'
  BY <1>2, <1>3, <1>5, Start, QueueKept
<1>8. ASSUME ~auErr', NEW v \in Batch' \ intents'
      PROVE  Intended(v, Len(audit.lines))'
  <2>1. /\ ~auErr /\ Len(audit'.lines) = Len(audit.lines) + 1
        /\ audit'.lines[Len(audit.lines) + 1] = l
    BY <1>5, <1>8
  <2>2. v \in Batch /\ StoredId(folder, v)' = StoredId(folder, v)
    BY <1>2, <1>8 DEF Batch, StoredId
  <2>3. CASE v = u
    BY <1>2, <2>1, <2>2, <2>3, Start DEF Intended
  <2>4. CASE v # u
    <3>1. Intended(v, Len(audit.lines))
      BY <1>1, <1>2, <1>8, <2>1, <2>2, <2>4, Start DEF BatchInv
    <3>2. PICK i \in 1 .. Len(audit.lines) : audit.lines[i] = Intent(folder, v, StoredId(folder, v))
      BY <3>1 DEF Intended
    <3>3. i \in 1 .. Len(audit'.lines) /\ audit'.lines[i] = audit.lines[i]
      BY <1>5, <2>1, <3>2, Start DEF KeepsLines
    <3> QED BY <1>2, <2>2, <3>2, <3>3 DEF Intended
  <2> QED BY <2>3, <2>4
<1>9. FolderInv' /\ BatchInv'
  BY <1>1, <1>2, <1>3, <1>7, <1>8, Start DEF FolderInv, BatchInv, InFolder, InBatches
<1> QED BY <1>2, <1>5, <1>6, <1>9, Start, QuietStep DEF RunEnded

LEMMA MoveCallTyped ==
  ASSUME NEW src \in Boxes, NEW dst \in Boxes, NEW U \in SUBSET Uids, MoveCall(src, dst, U)
  PROVE  /\ mv' \in Calls /\ mv'.src = src /\ mv'.dst = dst /\ mv'.todo = U
         /\ mv'.pc = "chunk"
BY DEF MoveCall, Calls

LEMMA IdleTyped ==
  ASSUME mv' = Idle
  PROVE  mv' \in Calls /\ mv'.pc = "idle"
BY DEF Idle, Calls, Boxes

\* The MOVE goes out with all intents of its batch on disk.
LEMMA SyncIntentsStep ==
  ASSUME IInv, SyncIntents, UNCHANGED undoVars
  PROVE  IInv'
<1>1. /\ ServerSame /\ pc = "intent" /\ intents = {} /\ pc' \in {"moving", "abort"}
      /\ UNCHANGED <<selected, db, scope, trashOk, targets, noSource, todo, folder,
                     flagsSeen, queue, intents, steady>>
      /\ \/ SyncOk /\ MoveCall(folder, Trash, Batch) /\ pc' = "moving"
         \/ SyncFails /\ UNCHANGED mv /\ pc' = "abort"
  BY DEF SyncIntents, Goto
<1>2. /\ faults' \in 0 .. MaxFaults /\ AuditTypeOK' /\ KeepsLines
      /\ SyncOk => ~auErr /\ audit'.synced = Len(audit.lines)
  BY <1>1, Start, SyncKeeps
<1>3. folder \in Boxes /\ Trash \in Boxes /\ Batch \subseteq queue /\ queue \subseteq Uids
  BY Start, BoundsAreSubsets DEF ApplyTypeOK, Boxes, Batch
<1>4. ApplyTypeOK' /\ RowsInv' /\ pc' \notin NotYet
  BY <1>1, Start DEF ApplyTypeOK, RowsInv, InScope, NotYet, ScannedRows
<1>5. CASE SyncFails /\ UNCHANGED mv /\ pc' = "abort"
  <2>1. FolderInv' /\ BatchInv'
    BY <1>5, OutOfFolder DEF InFolder
  <2> QED BY <1>1, <1>2, <1>4, <1>5, <2>1, Start, QuietStep DEF RunEnded
<1>6. CASE SyncOk /\ MoveCall(folder, Trash, Batch) /\ pc' = "moving"
  <2>1. mv' \in Calls /\ mv'.src = folder /\ mv'.todo = Batch /\ Batch' = Batch
    BY <1>1, <1>3, <1>6, MoveCallTyped DEF Batch
  <2>2. ASSUME NEW u \in Batch' PROVE Intended(u, audit.synced)'
    <3>1. Intended(u, Len(audit.lines))
      BY <1>1, <1>2, <1>6, <2>1, <2>2, Start DEF BatchInv
    <3>2. PICK i \in 1 .. Len(audit.lines) : audit.lines[i] = Intent(folder, u, StoredId(folder, u))
      BY <3>1 DEF Intended
    <3>3. i \in 1 .. audit'.synced /\ audit'.lines[i] = audit.lines[i]
      BY <1>2, <1>6, <3>2 DEF KeepsLines
    <3>4. StoredId(folder, u)' = StoredId(folder, u)
      BY <1>1 DEF StoredId
    <3> QED BY <1>1, <3>2, <3>3, <3>4 DEF Intended
  <2>3. \A u \in queue' : Verified(u)'
    BY <1>1, <1>2, <2>1, QueueKept DEF InBatches
  <2>4. FolderInv' /\ BatchInv'
    BY <1>1, <1>6, <2>1, <2>2, <2>3, Start DEF FolderInv, BatchInv, InFolder, InBatches
  <2> QED BY <1>1, <1>2, <1>4, <1>6, <2>1, <2>4, Start, QuietStep DEF RunEnded
<1> QED BY <1>1, <1>5, <1>6

LEMMA ConfirmStep ==
  ASSUME IInv, Confirm, UNCHANGED undoVars
  PROVE  IInv'
<1> DEFINE l == Confirmation(folder, Batch)
<1>1. /\ ServerSame /\ pc = "moving" /\ pc' \in {"rows", "abort"} /\ mv' = Idle
      /\ UNCHANGED <<selected, db, scope, trashOk, targets, noSource, todo, folder,
                     flagsSeen, queue, intents, steady>>
      /\ WriteSynced(l) \/ WriteUnsynced(l)
  BY DEF Confirm, Goto
<1>2. l \in Line
  <2>1. folder \in Boxes /\ Batch \in SUBSET Uids
    BY Start, BoundsAreSubsets DEF ApplyTypeOK, Batch
  <2> QED BY <2>1, NewLineTyped DEF Confirmation, Actions
<1> HIDE DEF l
<1>3. faults' \in 0 .. MaxFaults /\ AuditTypeOK' /\ KeepsLines
  BY <1>1, <1>2, Start, WriteAndSyncKeeps
<1>4. ApplyTypeOK' /\ RowsInv' /\ pc' \notin NotYet
  BY <1>1, Start DEF ApplyTypeOK, RowsInv, InScope, NotYet, ScannedRows
<1>5. \A u \in queue' : Verified(u)'
  BY <1>1, <1>3, IdleTyped, QueueKept DEF InBatches
<1>6. FolderInv' /\ BatchInv'
  BY <1>1, <1>5, Start DEF FolderInv, BatchInv, InFolder, InBatches
<1> QED BY <1>1, <1>3, <1>4, <1>6, Start, IdleTyped, QuietStep DEF RunEnded

LEMMA MoveFailedStep ==
  ASSUME IInv, MoveFailed, UNCHANGED undoVars
  PROVE  IInv'
<1> DEFINE l == NewLine("error", "", folder, {}, NoId)
<1>1. /\ ServerSame /\ pc = "moving" /\ pc' = "abort" /\ mv' = Idle
      /\ UNCHANGED <<selected, db, scope, trashOk, targets, noSource, todo, folder,
                     flagsSeen, queue, intents, steady>>
      /\ Write(l)
  BY DEF MoveFailed, Goto
<1>2. l \in Line
  BY Start, NewLineTyped DEF ApplyTypeOK, Actions
<1> HIDE DEF l
<1>3. faults' \in 0 .. MaxFaults /\ AuditTypeOK' /\ KeepsLines
  BY <1>1, <1>2, Start, WriteKeeps
<1>4. ApplyTypeOK' /\ RowsInv' /\ pc' \notin NotYet
  BY <1>1, Start DEF ApplyTypeOK, RowsInv, InScope, NotYet, ScannedRows
<1>5. FolderInv' /\ BatchInv'
  BY <1>1, OutOfFolder DEF InFolder
<1> QED BY <1>1, <1>3, <1>4, <1>5, Start, IdleTyped, QuietStep DEF RunEnded

LEMMA DropRowsStep ==
  ASSUME IInv, DropRows, UNCHANGED undoVars
  PROVE  IInv'
<1>1. /\ ServerSame /\ pc = "rows" /\ pc' \in {"folder", "intent"}
      /\ UNCHANGED <<selected, mv, faults, auditVars, scope, trashOk, targets, noSource, todo,
                     folder, flagsSeen, steady>>
      /\ db' = [db EXCEPT !.rows = {r \in @ : ~(r.folder = folder /\ r.uid \in Batch)}]
      /\ queue' = queue \ Batch /\ intents' = Lowest(queue', MoveBatch)
  BY DEF DropRows, Goto, Goes
<1>2. faults' \in 0 .. MaxFaults /\ AuditTypeOK' /\ KeepsLines
  BY <1>1, Start, SameLog
<1>3. intents' \subseteq queue' /\ queue' \subseteq queue /\ queue \subseteq Uids
  BY <1>1, Start, BoundsAreSubsets DEF ApplyTypeOK
<1>4. /\ db' \in [rows : SUBSET Row, validity : [Folders -> Nat]]
      /\ db'.rows \subseteq db.rows
  BY <1>1, Start DEF ApplyTypeOK
<1>5. ApplyTypeOK'
  BY <1>1, <1>3, <1>4, Start DEF ApplyTypeOK
<1>6. RowsInv' /\ pc' \notin NotYet
  BY <1>1, <1>4, Start DEF RowsInv, InScope, NotYet, ScannedRows
<1>7. \A u \in queue' : Verified(u)'
  BY <1>1, <1>2, <1>3, Start, QueueKept DEF InBatches
<1>8. Batch' \ intents' = {}
  BY <1>1 DEF Batch
<1>9. FolderInv' /\ BatchInv'
  BY <1>1, <1>3, <1>7, <1>8, Start DEF FolderInv, BatchInv, InFolder, InBatches
<1> QED BY <1>1, <1>2, <1>5, <1>6, <1>9, Start, QuietStep DEF RunEnded

LEMMA ApplyNextStep ==
  ASSUME IInv, ApplyNext
  PROVE  IInv'
<1>1. UNCHANGED undoVars /\ (Prepare \/ ApplyStep)
  BY DEF ApplyNext
<1>2. CASE \E f \in Folders : SkipFolder(f) \/ SelectFolder(f)
  BY <1>1, <1>2, SkipFolderStep, SelectFolderStep
<1>3. CASE Abort("imap", "flags") \/ Abort("imap", "identity") \/ Abort("db", "rows")
  BY <1>1, <1>3, AbortStep
<1> QED BY <1>1, <1>2, <1>3, PrepareStep, OpenRunStep, WriteRefusedStep, UnsubscribeStep,
           StartDeleteStep, EndFoldersStep, FetchFlagsStep, FetchIdentityStep, WriteIntentStep,
           SyncIntentsStep, ConfirmStep, MoveFailedStep, DropRowsStep, FinishStep
        DEF ApplyStep

-----------------------------------------------------------------------------
\* The server and the other client.

\* A queue whose folder keeps its UIDs stays verified.
LEMMA QueueKeptInBox ==
  ASSUME IInv, pc \in InBatches, BoxesOK', KeepsUids(folder),
         UNCHANGED <<targets, folder, scope, queue>>
  PROVE  \A u \in queue' : Verified(u)'
<1> SUFFICES ASSUME NEW u \in queue PROVE Verified(u)'
  OBVIOUS
<1>1. folder \in Boxes /\ Verified(u)
  BY QueueTyped DEF IInv, BatchInv
<1> QED BY <1>1, Start, VerifiedKept

\* What a call puts into Trash is a message of the batch.
LEMMA CallRecords ==
  ASSUME IInv, MoveUIDs, UNCHANGED <<auditVars, applyVars, undoVars>>
  PROVE  WriteAhead' /\ RightMessage'
<1>1. InCall /\ CallKept
  BY Start, MoveUIDsKeeps
<1>2. WriteAhead /\ RightMessage
  BY DEF IInv
<1>3. UNCHANGED <<audit, pc, targets, scope, folder, queue>>
  BY DEF auditVars, applyVars, runVars
<1>4. CASE mv.dst # Trash
  <2>1. trashed' = trashed
    BY <1>1, <1>4 DEF CallKept
  <2> QED BY <1>2, <1>3, <2>1, Start, SameLog, LinesAreSynced, HistoryKept
<1>5. CASE mv.dst = Trash
  <2>1. /\ pc = "moving" /\ mv.src = folder /\ mv.todo \subseteq Batch /\ Batch \subseteq queue
        /\ \A u \in Batch : Intended(u, audit.synced)
    BY <1>1, <1>5, Start, BoundsAreSubsets DEF InCall, BatchInv, Batch
  <2>2. ASSUME NEW e \in mail[mv.src], e.uid \in mv.todo
        PROVE  /\ \E i \in 1 .. audit.synced :
                    audit.lines[i] = Intent(folder, e.uid, IdOf[e.msg])
               /\ \E r \in targets :
                    /\ r.folder = folder /\ r.uid = e.uid /\ IdOf[r.msg] = IdOf[e.msg]
                    /\ InScope(r) /\ ~r.starred /\ ~Kept(r, [msg |-> e.msg])
               /\ folder \notin WellKnown
    <3>1. e.uid \in queue /\ pc \in InBatches /\ Intended(e.uid, audit.synced)
      BY <2>1, <2>2 DEF InBatches
    <3>2. PICK r \in targets :
            /\ r.folder = folder /\ r.uid = e.uid /\ InScope(r) /\ ~r.starred
            /\ StoredId(folder, e.uid) = IdOf[r.msg]
            /\ IdOf[e.msg] = IdOf[r.msg] /\ ~Kept(r, [msg |-> e.msg])
      BY <2>1, <2>2, <3>1, QueueTyped
    <3>3. folder \notin WellKnown
      BY <3>1, QueueTyped
    <3> QED BY <3>1, <3>2, <3>3 DEF Intended
  <2>3. ASSUME NEW t \in trashed', t \notin trashed
        PROVE  \E e \in mail[mv.src] : e.uid \in mv.todo /\ t = Gone(folder, e)
    BY <1>1, <2>1, <2>3 DEF CallKept
  <2>4. \A e : Gone(folder, e).folder = folder /\ Gone(folder, e).uid = e.uid
              /\ Gone(folder, e).msg = e.msg
    BY DEF Gone
  <2>5. WriteAhead'
    <3> SUFFICES ASSUME NEW t \in trashed'
                 PROVE  \E i \in 1 .. audit.synced :
                          audit.lines[i] = Intent(t.folder, t.uid, IdOf[t.msg])
      BY <1>3 DEF WriteAhead
    <3>1. CASE t \in trashed
      BY <1>2, <3>1 DEF WriteAhead
    <3>2. CASE t \notin trashed
      <4>1. PICK e \in mail[mv.src] : e.uid \in mv.todo /\ t = Gone(folder, e)
        BY <2>3, <3>2
      <4>2. t.folder = folder /\ t.uid = e.uid /\ t.msg = e.msg
        BY <2>4, <4>1
      <4> QED BY <2>2, <4>1, <4>2
    <3> QED BY <3>1, <3>2
  <2>6. RightMessage'
    <3> SUFFICES ASSUME NEW t \in trashed'
                 PROVE  \E r \in targets :
                          /\ r.folder = t.folder /\ r.uid = t.uid /\ IdOf[r.msg] = IdOf[t.msg]
                          /\ InScope(r) /\ ~r.starred /\ ~Kept(r, [msg |-> t.msg])
                          /\ t.folder \notin WellKnown
      BY <1>3 DEF RightMessage, InScope, Kept
    <3>1. CASE t \in trashed
      BY <1>2, <3>1 DEF RightMessage
    <3>2. CASE t \notin trashed
      <4>1. PICK e \in mail[mv.src] : e.uid \in mv.todo /\ t = Gone(folder, e)
        BY <2>3, <3>2
      <4>2. t.folder = folder /\ t.uid = e.uid /\ t.msg = e.msg
        BY <2>4, <4>1
      <4> QED BY <2>2, <4>1, <4>2
    <3> QED BY <3>1, <3>2
  <2> QED BY <2>5, <2>6
<1> QED BY <1>4, <1>5

LEMMA MoveStepStep ==
  ASSUME IInv, MoveStep
  PROVE  IInv'
<1>1. MoveUIDs /\ UNCHANGED <<auditVars, applyVars, undoVars>>
  BY DEF MoveStep
<1>2. /\ MailTypeOK' /\ BoxesOK' /\ \A b \in Boxes : KeepsUids(b)
      /\ InCall /\ CallKept /\ selected' = selected
  BY <1>1, Start, MoveUIDsKeeps
<1>3. UNCHANGED <<audit, auErr, db, pc, scope, trashOk, targets, noSource, todo, folder,
                  flagsSeen, queue, intents, steady, upc, blocked, ucheck, never, found, undos>>
  BY <1>1 DEF auditVars, applyVars, runVars, undoVars
<1>4. AuditTypeOK' /\ ApplyTypeOK' /\ UndoTypeOK'
  BY <1>3, Start DEF AuditTypeOK, ApplyTypeOK, UndoTypeOK
<1>5. RowsInv'
  BY <1>3, Start DEF RowsInv, InScope, NotYet, ScannedRows
<1>6. FolderInv'
  BY <1>2, <1>3, Start DEF FolderInv, InFolder
<1>7. pc \in InBatches => \A u \in queue' : Verified(u)'
  <2> SUFFICES ASSUME pc \in InBatches PROVE \A u \in queue' : Verified(u)'
    OBVIOUS
  <2>1. folder \in Boxes
    BY Start DEF ApplyTypeOK
  <2> QED BY <1>2, <1>3, <2>1, QueueKeptInBox
<1>8. BatchInv'
  <2>1. Batch' = Batch
    BY <1>3 DEF Batch
  <2>2. \A u : Intended(u, Len(audit.lines))' = Intended(u, Len(audit.lines))
    BY <1>3 DEF Intended, StoredId
  <2>3. \A u : Intended(u, audit.synced)' = Intended(u, audit.synced)
    BY <1>3 DEF Intended, StoredId
  <2> QED BY <1>2, <1>3, <1>7, <2>1, <2>2, <2>3, Start DEF BatchInv, CallKept
<1>9. CallInv'
  <2>1. pc \in NotYet => mv.dst # Trash
    BY <1>2, Start DEF InCall, CallInv, NotYet
  <2>2. pc \in NotYet => trashed' = {}
    BY <1>2, <2>1, Start DEF CallKept, CallInv
  <2>3. mv'.dst = Trash => pc' = "moving"
    BY <1>2, <1>3, Start DEF InCall, CallKept, CallInv
  <2> QED BY <1>3, <2>2, <2>3, Start DEF CallInv, UndoRunning, RunEnded
<1> QED BY <1>1, <1>2, <1>4, <1>5, <1>6, <1>8, <1>9, CallRecords DEF IInv, TypeOK, BoxesOK

LEMMA OtherClientStep ==
  ASSUME IInv, OtherClient
  PROVE  IInv'
<1>1. /\ UserClient /\ steady' = steady \cap starred'
      /\ UNCHANGED <<audit, auErr, db, pc, scope, trashOk, targets, noSource, todo, folder,
                     flagsSeen, queue, intents, upc, blocked, ucheck, never, found, undos>>
  BY DEF OtherClient, auditVars, runVars, undoVars
<1>2. /\ MailTypeOK' /\ BoxesOK' /\ \A b \in Boxes : b = selected => KeepsUids(b)
      /\ UNCHANGED <<selected, mv, trashed>>
  BY <1>1, Start, UserClientKeeps
<1>3. AuditTypeOK' /\ ApplyTypeOK' /\ UndoTypeOK' /\ KeepsLines
  BY <1>1, Start DEF AuditTypeOK, ApplyTypeOK, UndoTypeOK, KeepsLines
<1>4. WriteAhead' /\ RightMessage'
  BY <1>1, <1>2, <1>3, Start, LinesAreSynced, HistoryKept DEF IInv
<1>5. RowsInv' /\ FolderInv' /\ CallInv'
  BY <1>1, <1>2, Start DEF RowsInv, InScope, NotYet, ScannedRows, FolderInv, InFolder, CallInv,
                          UndoRunning, RunEnded
<1>6. pc \in InBatches => \A u \in queue' : Verified(u)'
  <2> SUFFICES ASSUME pc \in InBatches PROVE \A u \in queue' : Verified(u)'
    OBVIOUS
  <2>1. folder \in Boxes /\ folder = selected
    BY Start DEF ApplyTypeOK, FolderInv, InBatches, InFolder
  <2> QED BY <1>1, <1>2, <2>1, QueueKeptInBox
<1>7. BatchInv'
  <2>1. /\ Batch' = Batch
        /\ \A u : Intended(u, Len(audit.lines))' = Intended(u, Len(audit.lines))
        /\ \A u : Intended(u, audit.synced)' = Intended(u, audit.synced)
    BY <1>1 DEF Batch, Intended, StoredId
  <2> QED BY <1>1, <1>2, <1>6, <2>1, Start DEF BatchInv
<1> QED BY <1>2, <1>3, <1>4, <1>5, <1>7 DEF IInv, TypeOK, BoxesOK

LEMMA CancelStep ==
  ASSUME IInv, Cancel
  PROVE  IInv'
<1>1. /\ cancelled' = TRUE /\ Fault("cancel")
      /\ UNCHANGED <<mail, uidnext, validity, starred, selected, mv, userActs, trashed, restored,
                     audit, auErr, db, pc, scope, trashOk, targets, noSource, todo, folder,
                     flagsSeen, queue, intents, steady, upc, blocked, ucheck, never, found, undos>>
  BY DEF Cancel, serverVars, auditVars, applyVars, runVars, undoVars
<1>2. faults' \in 0 .. MaxFaults /\ BoxesOK' /\ \A b \in Boxes : KeepsUids(b)
  BY <1>1, Start, FaultTyped, SameKeeps
<1>3. MailTypeOK'
  BY <1>1, <1>2, Start DEF MailInv, MailTypeOK
<1>4. AuditTypeOK' /\ ApplyTypeOK' /\ UndoTypeOK' /\ KeepsLines
  BY <1>1, Start DEF AuditTypeOK, ApplyTypeOK, UndoTypeOK, KeepsLines
<1>5. WriteAhead' /\ RightMessage'
  BY <1>1, <1>4, Start, LinesAreSynced, HistoryKept DEF IInv
<1>6. RowsInv' /\ FolderInv' /\ CallInv'
  BY <1>1, Start DEF RowsInv, InScope, NotYet, ScannedRows, FolderInv, InFolder, CallInv,
                     UndoRunning, RunEnded
<1>7. pc \in InBatches => \A u \in queue' : Verified(u)'
  <2> SUFFICES ASSUME pc \in InBatches PROVE \A u \in queue' : Verified(u)'
    OBVIOUS
  <2>1. folder \in Boxes
    BY Start DEF ApplyTypeOK
  <2> QED BY <1>1, <1>2, <2>1, QueueKeptInBox
<1>8. BatchInv'
  <2>1. /\ Batch' = Batch
        /\ \A u : Intended(u, Len(audit.lines))' = Intended(u, Len(audit.lines))
        /\ \A u : Intended(u, audit.synced)' = Intended(u, audit.synced)
    BY <1>1 DEF Batch, Intended, StoredId
  <2> QED BY <1>1, <1>7, <2>1, Start DEF BatchInv
<1> QED BY <1>2, <1>3, <1>4, <1>5, <1>6, <1>8 DEF IInv, TypeOK, BoxesOK

\* After a crash nothing is under way, and what was fsynced is still there.
LEMMA CrashStep ==
  ASSUME IInv, Crash
  PROVE  IInv'
<1>1. /\ Busy /\ Fault("crash") /\ LoseTail /\ auErr' = FALSE
      /\ mv' = Idle /\ selected' = "none" /\ cancelled' = FALSE
      /\ pc' = (IF Running THEN "crashed" ELSE pc)
      /\ upc' = (IF UndoRunning THEN "crashed" ELSE upc)
      /\ todo' = {} /\ queue' = {} /\ intents' = {} /\ ucheck' = {} /\ found' = NothingFound
      /\ UNCHANGED <<mail, uidnext, validity, starred, userActs, trashed, restored, db, scope,
                     trashOk, targets, noSource, folder, flagsSeen, steady, blocked, never, undos>>
  BY DEF Crash, serverVars
<1>2. /\ faults' \in 0 .. MaxFaults /\ BoxesOK' /\ mv' \in Calls /\ mv'.pc = "idle"
  BY <1>1, Start, FaultTyped, SameKeeps, IdleTyped
<1>3. MailTypeOK'
  BY <1>1, <1>2, Start DEF MailInv, MailTypeOK, Calls
<1>4. AuditTypeOK' /\ KeepsSynced
  BY <1>1, Start, LoseTailKeeps
<1>5. RunEnded' /\ ~UndoRunning'
  BY <1>1, Start DEF Busy, Running, RunEnded, CallInv, UndoRunning
<1>6. ApplyTypeOK' /\ UndoTypeOK'
  BY <1>1, Start DEF ApplyTypeOK, UndoTypeOK, NothingFound
<1>7. WriteAhead' /\ RightMessage'
  BY <1>1, <1>4, Start, HistoryKept DEF IInv
<1>8. RowsInv' /\ FolderInv' /\ BatchInv' /\ CallInv'
  BY <1>1, <1>2, <1>5, Start DEF RunEnded, RowsInv, InScope, NotYet, ScannedRows, FolderInv,
                                 BatchInv, InFolder, InBatches, CallInv
<1> QED BY <1>2, <1>3, <1>4, <1>6, <1>7, <1>8 DEF IInv, TypeOK, BoxesOK

-----------------------------------------------------------------------------
\* Undo.

\* A set of line numbers has a smallest one.
LEMMA LeastOfNaturals ==
  ASSUME NEW S \in SUBSET Nat, S # {}
  PROVE  \E i \in S : \A j \in S : i <= j
<1> DEFINE R == OpToRel(<, Nat)
<1>1. IsWellFoundedOn(R, Nat)
  BY NatLessThanWellFounded
<1>2. PICK i \in S : \A j \in S : ~(<<j, i>> \in R)
  <2> HIDE DEF R
  <2> QED BY <1>1, WFMin
<1>3. \A j \in S : ~(j < i)
  BY <1>2 DEF OpToRel
<1> QED BY <1>3

\* What is read from a log with well-formed lines.
LEMMA LogTyped ==
  ASSUME AuditTypeOK, NEW id
  PROVE  /\ id \in Ids => Source(id) \in Boxes
         /\ NeverMoved(id) \in Nat
<1>1. /\ audit.lines \in Seq(Line) /\ Len(audit.lines) \in Nat
      /\ \A i \in Lines : audit.lines[i].folder \in Boxes
  <2>1. audit.lines \in Seq(Line)
    BY DEF AuditTypeOK
  <2>2. ASSUME NEW i \in Lines PROVE audit.lines[i] \in Line
    BY <2>1, <2>2 DEF Lines
  <2>3. \A l \in Line : l.folder \in Boxes
    BY DEF Line
  <2> QED BY <2>1, <2>2, <2>3
<1>2. IntentsOf(id) \subseteq Lines /\ Lines \subseteq Nat
  BY DEF IntentsOf, Lines
<1>3. id \in Ids => Source(id) \in Boxes
  <2> SUFFICES ASSUME IntentsOf(id) # {} PROVE Source(id) \in Boxes
    BY DEF Ids
  <2>1. \E i \in IntentsOf(id) : \A j \in IntentsOf(id) : i <= j
    BY <1>2, LeastOfNaturals
  <2>2. (CHOOSE i \in IntentsOf(id) : \A j \in IntentsOf(id) : i <= j) \in IntentsOf(id)
    BY <2>1
  <2> QED BY <1>1, <1>2, <2>2 DEF Source
<1>4. NeverMoved(id) \in Nat
  <2> DEFINE T == {i \in Unconfirmed(id) : audit.lines[i].uids \subseteq Search(Source(id), id)}
  <2>1. T \in SUBSET Lines
    BY <1>2 DEF Unconfirmed
  <2>2. IsFiniteSet(Lines)
    BY <1>1, FS_Interval DEF Lines
  <2>3. IsFiniteSet(T)
    BY <2>1, <2>2, FS_Subset
  <2>4. Cardinality(T) \in Nat
    BY <2>3, FS_CardinalityType
  <2> QED BY <2>4 DEF NeverMoved
<1> QED BY <1>3, <1>4

\* A step of undo, or its start, that itself puts nothing into Trash.
LEMMA UndoQuiet ==
  ASSUME IInv, RunEnded, UNCHANGED applyVars, UNCHANGED serverVars,
         UNCHANGED <<userActs, trashed, restored>>, cancelled' \in BOOLEAN,
         selected' \in Boxes \cup {"none"}, mv' \in Calls, faults' \in 0 .. MaxFaults,
         AuditTypeOK', KeepsLines, UndoTypeOK',
         mv' = mv \/ mv'.pc = "idle" \/ mv'.dst # Trash
  PROVE  IInv'
<1>1. /\ UNCHANGED <<mail, uidnext, validity, starred, db, pc, scope, trashOk, targets, noSource,
                     todo, folder, flagsSeen, queue, intents, steady>>
      /\ RunEnded' /\ pc' \notin InFolder \cup {"folder"} /\ pc' \notin NotYet
  BY DEF serverVars, applyVars, runVars, RunEnded, InFolder, NotYet
<1>2. BoxesOK'
  BY <1>1, Start, SameKeeps
<1>3. MailTypeOK'
  BY <1>1, Start DEF MailInv, MailTypeOK, Calls
<1>4. ApplyTypeOK' /\ RowsInv'
  BY <1>1, Start DEF ApplyTypeOK, RowsInv, InScope, NotYet, ScannedRows
<1>5. FolderInv' /\ BatchInv'
  BY <1>1, OutOfFolder
<1>6. CallInv'
  BY <1>1, Start DEF CallInv
<1>7. WriteAhead' /\ RightMessage'
  BY <1>1, Start, LinesAreSynced, HistoryKept DEF IInv
<1> QED BY <1>2, <1>3, <1>4, <1>5, <1>6, <1>7 DEF IInv, TypeOK, BoxesOK

LEMMA UndoStartStep ==
  ASSUME IInv, Undo
  PROVE  IInv'
<1>1. /\ RunEnded /\ UNCHANGED applyVars /\ UNCHANGED serverVars
      /\ UNCHANGED <<mv, userActs, trashed, restored, audit>>
      /\ selected' = "none" /\ auErr' = FALSE /\ cancelled' = FALSE
      /\ undos < MaxUndos /\ undos' = undos + 1
      /\ never' = [id \in MessageIDs |-> 0] /\ found' = NothingFound
      /\ Fault("imap") \/ UNCHANGED faults
      /\ \/ upc' = "failed" /\ UNCHANGED <<blocked, ucheck>>
         \/ /\ upc' = "check"
            /\ \E known \in SUBSET MarkedUse : blocked' = NeverTouch \cup known
            /\ ucheck' \subseteq {Source(id) : id \in Ids}
  BY DEF Undo, UndoStart, Reopened
<1>2. faults' \in 0 .. MaxFaults /\ AuditTypeOK' /\ KeepsLines
  <2>1. faults' \in 0 .. MaxFaults
    BY <1>1, Start, FaultTyped
  <2>2. audit' = audit /\ auErr' \in BOOLEAN /\ AuditTypeOK
    BY <1>1, Start
  <2> QED BY <2>1, <2>2 DEF AuditTypeOK, KeepsLines
<1>3. blocked' \subseteq Folders /\ ucheck' \subseteq Boxes /\ upc' \in {"failed", "check"}
  <2>1. CASE upc' = "failed" /\ UNCHANGED <<blocked, ucheck>>
    BY <2>1, Start DEF UndoTypeOK
  <2>2. CASE /\ upc' = "check"
             /\ \E known \in SUBSET MarkedUse : blocked' = NeverTouch \cup known
             /\ ucheck' \subseteq {Source(id) : id \in Ids}
    <3>1. NeverTouch \subseteq Folders /\ MarkedUse \subseteq Folders
      BY PlanAssumption, SessionAssumption
    <3> QED BY <2>2, <3>1, Start, LogTyped
  <2> QED BY <1>1, <2>1, <2>2
<1>4. UndoTypeOK'
  <2>1. undos' \in 0 .. MaxUndos /\ never' \in [MessageIDs -> Nat]
    BY <1>1, Start, UndoAssumption DEF UndoTypeOK
  <2> QED BY <1>1, <1>3, <2>1 DEF UndoTypeOK, NothingFound
<1> QED BY <1>1, <1>2, <1>4, Start, UndoQuiet

\* A line undo writes, and what it finds, are well formed.
LEMMA UndoLineTyped ==
  ASSUME NEW f \in Boxes
  PROVE  UndoLine(f) \in Line /\ NewLine("error", "", f, {}, NoId) \in Line
BY NewLineTyped DEF UndoLine, Actions

LEMMA ToRestoreTyped ==
  ASSUME MailInv, NEW f
  PROVE  ToRestore(f) \in SUBSET Uids
<1>1. \A id : Search(Trash, id) \subseteq Uids
  BY DEF MailInv, MailTypeOK, Search, WithId, Entry, Boxes
<1>2. \A id : Highest(Search(Trash, id), Wanted(id)) \subseteq Uids
  BY <1>1, BoundsAreSubsets
<1> QED BY <1>2 DEF ToRestore

LEMMA CheckSourceStep ==
  ASSUME IInv, NEW f \in Folders, CheckSource(f), UNCHANGED applyVars
  PROVE  IInv'
<1>1. /\ upc = "check" /\ f \in ucheck /\ upc' \in {"check", "failed"}
      /\ UNCHANGED serverVars /\ UNCHANGED <<mv, cancelled, userActs, trashed, restored>>
      /\ UNCHANGED <<blocked, found, undos>>
      /\ selected' \in {selected, f, "none"} /\ ucheck' \subseteq ucheck
      /\ \/ never' = never
         \/ never' = [id \in MessageIDs |->
               IF id \in Ids /\ Source(id) = f THEN NeverMoved(id) ELSE never[id]]
      /\ \/ UNCHANGED auditVars /\ (Fault("imap") \/ UNCHANGED faults)
         \/ Write(UndoLine(f))
  BY DEF CheckSource, UndoReads, Fails
<1>2. RunEnded
  BY <1>1, Start DEF CallInv, UndoRunning
<1>3. UndoLine(f) \in Line
  BY UndoLineTyped DEF Boxes
<1>4. faults' \in 0 .. MaxFaults /\ AuditTypeOK' /\ KeepsLines
  <2>1. CASE UNCHANGED auditVars /\ (Fault("imap") \/ UNCHANGED faults)
    BY <2>1, Start, FaultTyped, SameLog
  <2>2. CASE Write(UndoLine(f))
    BY <2>2, <1>3, Start, WriteKeeps
  <2> QED BY <1>1, <2>1, <2>2
<1>5. never' \in [MessageIDs -> Nat]
  BY <1>1, Start, LogTyped DEF UndoTypeOK
<1>6. UndoTypeOK'
  BY <1>1, <1>5, Start DEF UndoTypeOK
<1>7. selected' \in Boxes \cup {"none"} /\ cancelled' \in BOOLEAN
  BY <1>1, Start DEF Boxes, MailInv, MailTypeOK
<1> QED BY <1>1, <1>2, <1>4, <1>6, <1>7, Start, UndoQuiet

LEMMA LocateStep ==
  ASSUME IInv, Locate, UNCHANGED applyVars
  PROVE  IInv'
<1>1. /\ upc = "check" /\ upc' \in {"restore", "failed"}
      /\ UNCHANGED serverVars /\ UNCHANGED <<mv, cancelled, userActs, trashed, restored>>
      /\ UNCHANGED <<blocked, ucheck, never, undos>>
      /\ selected' \in {selected, Trash}
      /\ found' = found \/ found' = [f \in Folders |-> ToRestore(f)]
      /\ \/ UNCHANGED auditVars /\ (Fault("imap") \/ UNCHANGED faults)
         \/ Write(UndoLine(Trash))
  BY DEF Locate, UndoReads, Fails
<1>2. RunEnded
  BY <1>1, Start DEF CallInv, UndoRunning
<1>3. UndoLine(Trash) \in Line
  BY UndoLineTyped DEF Boxes
<1>4. faults' \in 0 .. MaxFaults /\ AuditTypeOK' /\ KeepsLines
  <2>1. CASE UNCHANGED auditVars /\ (Fault("imap") \/ UNCHANGED faults)
    BY <2>1, Start, FaultTyped, SameLog
  <2>2. CASE Write(UndoLine(Trash))
    BY <2>2, <1>3, Start, WriteKeeps
  <2> QED BY <1>1, <2>1, <2>2
<1>5. found' \in [Folders -> SUBSET Uids]
  BY <1>1, Start, ToRestoreTyped DEF UndoTypeOK
<1>6. UndoTypeOK'
  BY <1>1, <1>5, Start DEF UndoTypeOK
<1>7. selected' \in Boxes \cup {"none"} /\ cancelled' \in BOOLEAN
  BY <1>1, Start DEF Boxes, MailInv, MailTypeOK
<1> QED BY <1>1, <1>2, <1>4, <1>6, <1>7, Start, UndoQuiet

\* A restore never moves into Trash.
LEMMA RestoreFolderStep ==
  ASSUME IInv, NEW f \in Folders, RestoreFolder(f), UNCHANGED applyVars
  PROVE  IInv'
<1>1. /\ upc = "restore" /\ upc' = "moving" /\ MoveCall(Trash, f, found[f])
      /\ UNCHANGED serverVars /\ UNCHANGED <<selected, cancelled, faults, userActs, trashed, restored>>
      /\ UNCHANGED auditVars /\ UNCHANGED <<blocked, ucheck, never, found, undos>>
  BY DEF RestoreFolder
<1>2. RunEnded
  BY <1>1, Start DEF CallInv, UndoRunning
<1>3. mv' \in Calls /\ mv'.dst # Trash
  <2>1. found[f] \in SUBSET Uids /\ f \in Boxes /\ Trash \in Boxes /\ f # Trash
    BY Start, BoxAssumption DEF UndoTypeOK, Boxes
  <2> QED BY <1>1, <2>1 DEF MoveCall, Calls
<1>4. AuditTypeOK' /\ KeepsLines
  BY <1>1, Start, SameLog
<1>5. UndoTypeOK'
  BY <1>1, Start DEF UndoTypeOK
<1>6. cancelled' \in BOOLEAN /\ selected' \in Boxes \cup {"none"} /\ faults' \in 0 .. MaxFaults
  BY <1>1, Start DEF MailInv, MailTypeOK
<1> QED BY <1>1, <1>2, <1>3, <1>4, <1>5, <1>6, UndoQuiet

LEMMA RestoreReturnsStep ==
  ASSUME IInv, Restored \/ RestoreFailed, UNCHANGED applyVars
  PROVE  IInv'
<1>1. /\ upc = "moving" /\ upc' \in {"restore", "failed"} /\ mv' = Idle
      /\ UNCHANGED serverVars /\ UNCHANGED <<selected, cancelled, userActs, trashed, restored>>
      /\ UNCHANGED <<blocked, ucheck, never, undos>>
      /\ found' = found \/ found' = [found EXCEPT ![mv.dst] = {}]
      /\ Write(UndoLine(mv.dst)) \/ Write(NewLine("error", "", mv.dst, {}, NoId))
  BY DEF Restored, RestoreFailed
<1>2. RunEnded
  BY <1>1, Start DEF CallInv, UndoRunning
<1>3. mv.dst \in Boxes
  BY Start DEF Calls
<1>4. faults' \in 0 .. MaxFaults /\ AuditTypeOK' /\ KeepsLines
  BY <1>1, <1>3, UndoLineTyped, Start, WriteKeeps
<1>5. UndoTypeOK'
  BY <1>1, Start DEF UndoTypeOK
<1>6. cancelled' \in BOOLEAN /\ selected' \in Boxes \cup {"none"}
  BY <1>1, Start DEF MailInv, MailTypeOK
<1> QED BY <1>1, <1>2, <1>4, <1>5, <1>6, IdleTyped, UndoQuiet

LEMMA UndoEndsStep ==
  ASSUME IInv, UndoEnds, UNCHANGED applyVars
  PROVE  IInv'
<1>1. /\ upc = "restore" /\ upc' = "ended"
      /\ UNCHANGED serverVars /\ UNCHANGED <<mv, cancelled, userActs, trashed, restored>>
      /\ UNCHANGED <<selected, faults, blocked, ucheck, never, found, undos>> /\ UNCHANGED auditVars
  BY DEF UndoEnds, UndoReads
<1>2. RunEnded
  BY <1>1, Start DEF CallInv, UndoRunning
<1>3. AuditTypeOK' /\ KeepsLines
  BY <1>1, Start, SameLog
<1>4. UndoTypeOK'
  BY <1>1, Start DEF UndoTypeOK
<1>5. cancelled' \in BOOLEAN /\ selected' \in Boxes \cup {"none"} /\ faults' \in 0 .. MaxFaults
  BY <1>1, Start DEF MailInv, MailTypeOK
<1> QED BY <1>1, <1>2, <1>3, <1>4, <1>5, Start, UndoQuiet

-----------------------------------------------------------------------------
\* The theorems.

LEMMA InitHolds == Init => IInv
<1> SUFFICES ASSUME Init PROVE IInv
  OBVIOUS
<1>1. MailTypeOK /\ BoxesOK
  BY MailInitially DEF Init
<1>2. AuditTypeOK
  <2>1. audit = [lines |-> <<>>, synced |-> 0, torn |-> FALSE] /\ auErr = FALSE
    BY DEF Init, AuditInit
  <2>2. ASSUME NEW none, none \in Seq(Line)
        PROVE  [lines |-> none, synced |-> 0, torn |-> FALSE] \in
                 [lines : Seq(Line), synced : Nat, torn : BOOLEAN]
    BY <2>2
  <2>3. <<>> \in Seq(Line) /\ Len(<<>>) \in Nat
    OBVIOUS
  <2>4. audit \in [lines : Seq(Line), synced : Nat, torn : BOOLEAN]
    BY <2>1, <2>2, <2>3, Zenon
  <2>5. audit.synced = 0 /\ audit.lines = <<>>
    BY <2>1
  <2>6. audit.synced <= Len(audit.lines)
    <3>1. 0 <= Len(<<>>)
      OBVIOUS
    <3> QED BY <2>5, <3>1, Zenon
  <2>7. auErr \in BOOLEAN
    BY <2>1
  <2> QED BY <2>4, <2>6, <2>7, Zenon DEF AuditTypeOK
<1>3. ApplyTypeOK
  <2>1. ScannedRows \in SUBSET Row
    BY RowsTyped
  <2> QED BY <2>1 DEF Init, ApplyInit, ApplyTypeOK, NoScope, NoFlags, Boxes
<1>4. UndoTypeOK
  BY UndoAssumption DEF Init, UndoInit, UndoTypeOK, NothingFound
<1>5. pc = "review" /\ targets = {} /\ db.rows = ScannedRows /\ trashed = {} /\ mv = Idle /\ upc = "none"
  BY DEF Init, ApplyInit, MailInit, UndoInit
<1>6. RowsInv /\ FolderInv /\ BatchInv
  BY <1>5 DEF RowsInv, FolderInv, BatchInv, InFolder, InBatches
<1>7. CallInv
  BY <1>5 DEF CallInv, Idle, UndoRunning
<1>8. WriteAhead /\ RightMessage
  BY <1>5 DEF WriteAhead, RightMessage
<1> QED BY <1>1, <1>2, <1>3, <1>4, <1>6, <1>7, <1>8 DEF IInv, TypeOK, BoxesOK

LEMMA StutterStep ==
  ASSUME IInv, UNCHANGED vars
  PROVE  IInv'
<1>1. /\ UNCHANGED <<mail, uidnext, validity, starred, selected, mv, cancelled, faults, userActs,
                     trashed, restored, audit, auErr, db, pc, scope, trashOk, targets, noSource,
                     todo, folder, flagsSeen, queue, intents, steady, upc, blocked, ucheck, never,
                     found, undos>>
  BY DEF vars, mailVars, auditVars, applyVars, runVars, undoVars
<1>2. TypeOK' /\ UidsOK'
  <2>1. MailTypeOK' /\ UidsOK'
    BY <1>1 DEF IInv, TypeOK, MailTypeOK, UidsOK
  <2>2. AuditTypeOK'
    BY <1>1 DEF IInv, TypeOK, AuditTypeOK
  <2>3. ApplyTypeOK' /\ UndoTypeOK'
    BY <1>1 DEF IInv, TypeOK, ApplyTypeOK, UndoTypeOK
  <2> QED BY <2>1, <2>2, <2>3 DEF TypeOK
<1>3. RowsInv' /\ FolderInv' /\ CallInv'
  BY <1>1 DEF IInv, RowsInv, FolderInv, CallInv, InScope, UndoRunning, RunEnded
<1>4. BatchInv'
  BY <1>1 DEF IInv, BatchInv, Batch, Verified, Intended, StoredId, InScope, Kept
<1>5. WriteAhead' /\ RightMessage'
  BY <1>1 DEF IInv, WriteAhead, RightMessage, InScope, Kept
<1> QED BY <1>2, <1>3, <1>4, <1>5 DEF IInv

LEMMA StepHolds == IInv /\ [Next]_vars => IInv'
<1> SUFFICES ASSUME IInv, [Next]_vars PROVE IInv'
  OBVIOUS
<1>1. CASE UndoNext
  <2>1. UndoStep /\ UNCHANGED applyVars
    BY <1>1 DEF UndoNext
  <2> QED BY <2>1, CheckSourceStep, LocateStep, RestoreFolderStep, RestoreReturnsStep,
             UndoEndsStep DEF UndoStep
<1>2. CASE Over \/ UNCHANGED vars
  BY <1>2, StutterStep DEF Over
<1> QED BY <1>1, <1>2, ApplyNextStep, MoveStepStep, UndoStartStep, OtherClientStep, CancelStep,
           CrashStep DEF Next

LEMMA Inductive == Spec => []IInv
BY InitHolds, StepHolds, PTL DEF Spec

\* The types hold in every behaviour, for any plan, mailbox content and bounds:
\* in particular the log stays a sequence of well-formed lines of which undo
\* can make sense, and no more of it counts as fsynced than was written.
THEOREM TypeCorrect == Spec => []TypeOK
<1>1. IInv => TypeOK
  BY DEF IInv
<1> QED BY Inductive, <1>1, PTL

\* Write ahead: whatever crashed, failed, was cancelled or done by another
\* client, every message the program ever put into Trash has its intent on
\* disk (deleteFolder).
THEOREM WriteAheadHolds == Spec => []WriteAhead
<1>1. IInv => WriteAhead
  BY DEF IInv
<1> QED BY Inductive, <1>1, PTL

\* Only messages the plan selects are moved: each one by folder, UID and
\* Message-ID the message of a row the plan covers, not starred in the scan,
\* not kept, and outside the folders mail is never deleted from (ineligible,
\* protectedFolders, DeleteTargets).
THEOREM RightMessageHolds == Spec => []RightMessage
<1>1. IInv => RightMessage
  BY DEF IInv
<1> QED BY Inductive, <1>1, PTL
=============================================================================
