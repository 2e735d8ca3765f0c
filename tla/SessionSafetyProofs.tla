------------------------ MODULE SessionSafetyProofs ------------------------
\* More theorems about Session: rows outlive their record, no message is lost,
\* a confirmed UID is gone, a star is honoured, every target is accounted for,
\* and every operation uses itself up. Each has an inductive invariant of its
\* own, on top of IInv.
EXTENDS SessionProofs

-----------------------------------------------------------------------------
\* What the steps do to the log.

SameLines ==
  /\ Len(audit'.lines) = Len(audit.lines)
  /\ \A i \in 1 .. Len(audit.lines) : audit'.lines[i] = audit.lines[i]
Appended(l) ==
  /\ Len(audit'.lines) = Len(audit.lines) + 1
  /\ \A i \in 1 .. Len(audit.lines) : audit'.lines[i] = audit.lines[i]
  /\ audit'.lines[Len(audit.lines) + 1] = l

\* A step that writes no confirmation.
LogStep ==
  \/ UNCHANGED auditVars \/ SyncOk \/ SyncFails
  \/ \E l : l.status # "done" /\ (Put(l) \/ Write(l))

LEMMA ExtendedIs ==
  ASSUME AuditTypeOK, NEW l
  PROVE  /\ Extended(l).synced = audit.synced
         /\ Len(Extended(l).lines) = Len(audit.lines) + 1
         /\ \A i \in 1 .. Len(audit.lines) : Extended(l).lines[i] = audit.lines[i]
         /\ Extended(l).lines[Len(audit.lines) + 1] = l
<1>1. /\ audit \in [lines : Seq(Line), synced : Nat, torn : BOOLEAN]
      /\ audit.lines \in Seq(Line)
  BY DEF AuditTypeOK
<1>2. audit.lines \in Seq(Line \cup {l})
  <2> HIDE DEF Line
  <2> QED BY <1>1
<1>3. /\ Len(Append(audit.lines, l)) = Len(audit.lines) + 1
      /\ \A i \in 1 .. Len(audit.lines) : Append(audit.lines, l)[i] = audit.lines[i]
      /\ Append(audit.lines, l)[Len(audit.lines) + 1] = l
  <2> HIDE DEF Line
  <2> QED BY <1>2
<1>4. Extended(l).lines = Append(audit.lines, l) /\ Extended(l).synced = audit.synced
  <2> HIDE DEF Line
  <2> QED BY <1>1 DEF Extended
<1> QED BY <1>3, <1>4

LEMMA PutIs ==
  ASSUME AuditTypeOK, NEW l, Put(l)
  PROVE  /\ KeepsLines /\ (SameLines \/ Appended(l))
         /\ ~auErr' => ~auErr /\ Appended(l)
<1>1. /\ audit.synced \in Nat /\ Len(audit.lines) \in Nat /\ audit.synced <= Len(audit.lines)
  BY DEF AuditTypeOK
<1>2. CASE auErr
  BY <1>1, <1>2 DEF Put, KeepsLines, SameLines
<1>3. CASE ~auErr
  <2>1. audit' = Extended(l) /\ auErr' = auErr
    BY <1>3 DEF Put
  <2>2. Appended(l) /\ audit'.synced = audit.synced
    BY <2>1, ExtendedIs DEF Appended
  <2> QED BY <1>1, <1>3, <2>1, <2>2 DEF KeepsLines, Appended
<1> QED BY <1>2, <1>3

LEMMA WriteIs ==
  ASSUME AuditTypeOK, NEW l, Put(l) \/ Write(l)
  PROVE  /\ KeepsLines /\ (SameLines \/ Appended(l))
         /\ ~auErr' => ~auErr /\ Appended(l)
<1>1. CASE Put(l)
  BY <1>1, PutIs
<1>2. CASE PutFails
  <2>1. KeepsLines /\ auErr'
    BY <1>2, PutFailsKeeps
  <2>2. audit'.lines = audit.lines
    BY <1>2 DEF PutFails, AuditTypeOK
  <2> QED BY <2>1, <2>2 DEF SameLines
<1> QED BY <1>1, <1>2 DEF Write

\* Nothing is taken out of the log, and what is new confirms nothing.
LEMMA LogStepIs ==
  ASSUME MailInv, AuditTypeOK, LogStep
  PROVE  /\ KeepsLines /\ (~auErr' => ~auErr)
         /\ \A i \in 1 .. Len(audit'.lines) :
              \/ i \in 1 .. Len(audit.lines) /\ audit'.lines[i] = audit.lines[i]
              \/ audit'.lines[i].status # "done"
<1>1. Len(audit.lines) \in Nat
  BY DEF AuditTypeOK
<1>2. CASE UNCHANGED auditVars
  BY <1>2, SameLog DEF auditVars
<1>3. CASE SyncOk \/ SyncFails
  <2>1. KeepsLines
    BY <1>3, SyncKeeps
  <2>2. Len(audit'.lines) = Len(audit.lines) /\ (~auErr' => ~auErr)
    BY <1>3 DEF SyncOk, SyncFails, Synced, AuditTypeOK
  <2> QED BY <2>1, <2>2 DEF KeepsLines
<1>4. CASE \E l : l.status # "done" /\ (Put(l) \/ Write(l))
  <2>1. PICK l : l.status # "done" /\ (Put(l) \/ Write(l))
    BY <1>4
  <2>2. /\ KeepsLines /\ (SameLines \/ Appended(l))
        /\ ~auErr' => ~auErr
    BY <2>1, WriteIs
  <2>3. CASE SameLines
    BY <2>2, <2>3 DEF SameLines
  <2>4. CASE Appended(l)
    <3>1. ASSUME NEW i \in 1 .. Len(audit'.lines)
          PROVE  i \in 1 .. Len(audit.lines) \/ i = Len(audit.lines) + 1
      BY <1>1, <2>4 DEF Appended
    <3> QED BY <2>1, <2>2, <2>4, <3>1 DEF Appended
  <2> QED BY <2>2, <2>3, <2>4
<1> QED BY <1>2, <1>3, <1>4 DEF LogStep

\* A step of apply leaves the mailboxes alone, and only Confirm confirms.
LEMMA ApplyFrame ==
  ASSUME ApplyNext
  PROVE  ServerSame /\ UNCHANGED undoVars /\ (LogStep \/ Confirm)
<1>1. UNCHANGED undoVars
  BY DEF ApplyNext
<1>2. ASSUME NEW l, l.status # "done", Put(l) \/ Write(l)
      PROVE  LogStep
  BY <1>2 DEF LogStep
<1>3. \A a, f, U, id : NewLine(a, "", f, U, id).status # "done"
  BY DEF NewLine
<1>4. \A f, U, id : Intent(f, U, id).status # "done"
  BY DEF Intent, NewLine
<1>5. ASSUME NEW f \in Folders, SkipFolder(f) PROVE ServerSame /\ LogStep
  <2>1. SkipLine(f, UidsOf(RowsIn(f))).status # "done"
    BY <1>3 DEF SkipLine
  <2>2. /\ ServerSame
        /\ Write(SkipLine(f, UidsOf(RowsIn(f)))) \/ Put(SkipLine(f, UidsOf(RowsIn(f))))
    BY <1>5 DEF SkipFolder
  <2> QED BY <1>2, <2>1, <2>2
<1>6. ASSUME NEW f \in Folders, SelectFolder(f) PROVE ServerSame /\ LogStep
  BY <1>6 DEF SelectFolder, LogStep
<1>7. CASE WriteRefused \/ UnsubscribePhase \/ StartDelete \/ MoveFailed
  <2>1. ServerSame
    BY <1>7 DEF WriteRefused, UnsubscribePhase, StartDelete, MoveFailed
  <2>2. \/ UNCHANGED auditVars
        \/ \E a, f : Put(NewLine(a, "", f, {}, NoId)) \/ Write(NewLine(a, "", f, {}, NoId))
    BY <1>7 DEF WriteRefused, UnsubscribePhase, StartDelete, MoveFailed
  <2> QED BY <1>1, <1>2, <1>3, <2>1, <2>2 DEF LogStep
<1>8. CASE FetchIdentity
  <2>1. PICK l : l.status # "done" /\ (UNCHANGED <<auditVars, faults>> \/ Write(l))
    <3> DEFINE good == {r \in RowsIn(folder) : Eligible(r)}
    <3>1. SkipLine(folder, UidsOf(RowsIn(folder) \ good)).status # "done"
      BY <1>3 DEF SkipLine
    <3>2. \/ UNCHANGED <<auditVars, faults>>
          \/ Write(SkipLine(folder, UidsOf(RowsIn(folder) \ good)))
      BY <1>8 DEF FetchIdentity
    <3> QED BY <3>1, <3>2
  <2> QED BY <1>1, <1>2, <1>8, <2>1 DEF FetchIdentity, LogStep
<1>9. CASE WriteIntent
  <2>1. PICK u \in intents : Write(Intent(folder, u, StoredId(folder, u)))
    BY <1>9 DEF WriteIntent
  <2> QED BY <1>1, <1>2, <1>4, <1>9, <2>1 DEF WriteIntent
<1>10. CASE SyncIntents
  BY <1>1, <1>10 DEF SyncIntents, LogStep
<1>11. CASE \/ Prepare \/ OpenRun \/ EndFolders \/ FetchFlags \/ DropRows \/ Finish
            \/ Abort("imap", "flags") \/ Abort("imap", "identity") \/ Abort("db", "rows")
  BY <1>1, <1>11 DEF Prepare, OpenRun, EndFolders, FetchFlags, DropRows, Finish, Abort, LogStep
<1>12. CASE Confirm
  BY <1>1, <1>12 DEF Confirm
<1> QED BY <1>1, <1>5, <1>6, <1>7, <1>8, <1>9, <1>10, <1>11, <1>12 DEF ApplyNext, ApplyStep

LEMMA ConfirmIs ==
  ASSUME IInv, Confirm
  PROVE  /\ KeepsLines /\ (~auErr' => ~auErr)
         /\ \A i \in 1 .. Len(audit'.lines) :
              \/ i \in 1 .. Len(audit.lines) /\ audit'.lines[i] = audit.lines[i]
              \/ audit'.lines[i] = Confirmation(folder, Batch)
         /\ pc' = "rows" =>
              \E i \in 1 .. audit'.synced : audit'.lines[i] = Confirmation(folder, Batch)
<1> DEFINE l == Confirmation(folder, Batch)
<1>1. /\ pc' \in {"rows", "abort"} /\ (pc' = "rows" => WriteSynced(l))
      /\ WriteSynced(l) \/ WriteUnsynced(l)
  BY DEF Confirm, Goto
<1>2. AuditTypeOK /\ MailInv /\ Len(audit.lines) \in Nat
  BY Start
<1>3. l \in Line
  <2>1. folder \in Boxes /\ Batch \in SUBSET Uids
    BY Start, BoundsAreSubsets DEF ApplyTypeOK, Batch
  <2> QED BY <2>1, NewLineTyped DEF Confirmation, Actions
<1> HIDE DEF l
<1>4. KeepsLines
  BY <1>1, <1>2, <1>3, WriteAndSyncKeeps
<1>5. CASE audit' = Extended(l) \/ audit' = Synced(Extended(l))
  <2>1. /\ audit'.lines = Extended(l).lines
        /\ audit' = Synced(Extended(l)) => audit'.synced = Len(Extended(l).lines)
    BY <1>2, <1>3, <1>5, ExtendedTyped DEF Synced
  <2>2. Appended(l)
    BY <1>2, <2>1, ExtendedIs DEF Appended
  <2>3. \A i \in 1 .. Len(audit'.lines) : i \in 1 .. Len(audit.lines) \/ i = Len(audit.lines) + 1
    BY <1>2, <2>2 DEF Appended
  <2>4. auErr' \/ ~auErr
    BY <1>1 DEF WriteSynced, WriteUnsynced, PutFails
  <2>5. pc' = "rows" => audit'.synced = Len(audit.lines) + 1
    BY <1>1, <2>1, <2>2 DEF WriteSynced, Appended
  <2> QED BY <1>2, <1>4, <2>2, <2>3, <2>4, <2>5 DEF Appended, l
<1>6. CASE PutFails
  <2>1. auErr' /\ ~auErr /\ audit'.lines = audit.lines
    BY <1>2, <1>6 DEF PutFails, AuditTypeOK
  <2>2. pc' # "rows"
    BY <1>1, <2>1 DEF WriteSynced
  <2> QED BY <1>4, <2>1, <2>2
<1> QED BY <1>1, <1>5, <1>6 DEF WriteSynced, WriteUnsynced

\* A step of undo, or its start, leaves apply and the mailboxes alone.
UndoFrame ==
  /\ UNCHANGED applyVars /\ UNCHANGED serverVars /\ UNCHANGED <<trashed, restored>>
  /\ LogStep \/ audit' = audit

LEMMA UndoNextFrame ==
  ASSUME UndoNext
  PROVE  UndoFrame /\ LogStep /\ UndoRunning /\ undos' = undos
<1>1. UndoStep /\ UNCHANGED applyVars
  BY DEF UndoNext
<1>2. \A a, f : NewLine(a, "", f, {}, NoId).status # "done"
  BY DEF NewLine
<1>3. ASSUME \E f : Write(UndoLine(f)) \/ Write(NewLine("error", "", f, {}, NoId))
      PROVE  LogStep
  BY <1>2, <1>3 DEF LogStep, UndoLine
<1>4. CASE \E f \in Folders : CheckSource(f)
  <2>1. PICK f \in Folders : CheckSource(f)
    BY <1>4
  <2>2. \/ UNCHANGED auditVars
        \/ Write(UndoLine(f))
    BY <2>1 DEF CheckSource
  <2>3. LogStep
    BY <1>3, <2>2 DEF LogStep
  <2> QED BY <1>1, <2>1, <2>3 DEF CheckSource, UndoReads, UndoFrame, UndoRunning
<1>5. CASE Locate
  <2>1. UNCHANGED auditVars \/ Write(UndoLine(Trash))
    BY <1>5 DEF Locate
  <2>2. LogStep
    BY <1>3, <2>1 DEF LogStep
  <2> QED BY <1>1, <1>5, <2>2 DEF Locate, UndoReads, UndoFrame, UndoRunning
<1>6. CASE \E f \in Folders : RestoreFolder(f)
  BY <1>1, <1>6 DEF RestoreFolder, UndoFrame, LogStep, UndoRunning, auditVars
<1>7. CASE Restored \/ RestoreFailed
  <2>1. LogStep
    BY <1>3, <1>7 DEF Restored, RestoreFailed
  <2> QED BY <1>1, <1>7, <2>1 DEF Restored, RestoreFailed, UndoFrame, UndoRunning
<1>8. CASE UndoEnds
  BY <1>1, <1>8 DEF UndoEnds, UndoReads, UndoFrame, LogStep, UndoRunning
<1> QED BY <1>1, <1>4, <1>5, <1>6, <1>7, <1>8 DEF UndoStep

LEMMA UndoStartFrame ==
  ASSUME Undo
  PROVE  /\ UndoFrame /\ audit' = audit /\ RunEnded /\ ~UndoRunning
         /\ mv' = mv /\ undos' = undos + 1 /\ found' = NothingFound
         /\ upc' \in {"check", "failed"}
BY DEF Undo, UndoStart, UndoFrame, Reopened, LogStep

\* What the other client does to the mailboxes.
LEMMA ClientIs ==
  ASSUME UserClient
  PROVE  /\ \/ UNCHANGED <<mail, uidnext>>
            \/ \E src, dst \in Boxes : \E e \in mail[src] :
                 MoveEntries(src, dst, {e}) /\ UNCHANGED starred
            \/ /\ "rebuild" \in UserActs /\ UNCHANGED <<uidnext, starred>>
               /\ \E b \in Folders \ {selected} :
                    mail' = [mail EXCEPT ![b] =
                               {[e EXCEPT !.uid = uidnext[b] - @] : e \in mail[b]}]
         /\ UNCHANGED <<selected, mv, trashed, restored>>
BY DEF UserClient, UserStars, UserUnstars, UserMoves, UserRebuilds, UserAct

\* A mailbox keeps what it has, but for what is taken out.
LEMMA MovedIs ==
  ASSUME MailInv, NEW src \in Boxes, NEW dst \in Boxes, NEW es, es \subseteq mail[src],
         MoveEntries(src, dst, es) \/ CopyEntries(src, dst, es)
  PROVE  /\ \A b \in Boxes : uidnext[b] \in Nat /\ uidnext'[b] \in Nat /\ uidnext[b] <= uidnext'[b]
         /\ \A b \in Boxes : \A e \in mail'[b] : e \in mail[b] \/ ~(e.uid <= uidnext[b])
         /\ \A b \in Boxes : \A e \in mail[b] : e \in mail'[b] \/ (b = src /\ e \in es)
         /\ \A e \in es : \E d \in mail'[dst] : d.msg = e.msg /\ ~(d.uid <= uidnext[dst])
<1> DEFINE fresh == Entering(dst, es)
<1>1. mail \in [Boxes -> SUBSET Entry] /\ uidnext \in [Boxes -> Nat]
  BY DEF MailInv, MailTypeOK
<1>2. /\ fresh \subseteq Entry
      /\ \A e \in fresh : e.uid > uidnext[dst] /\ e.uid < uidnext[dst] + uidnext[src]
  BY EnteringIsFresh
<1>3. ASSUME NEW e \in es PROVE \E d \in fresh : d.msg = e.msg
  <2>1. [uid |-> uidnext[dst] + e.uid, msg |-> e.msg, deleted |-> FALSE] \in fresh
    BY DEF Entering
  <2>2. [uid |-> uidnext[dst] + e.uid, msg |-> e.msg, deleted |-> FALSE].msg = e.msg
    OBVIOUS
  <2> QED BY <2>1, <2>2, Zenon
<1> HIDE DEF fresh
<1>4. /\ \/ mail' = [mail EXCEPT ![src] = @ \ es, ![dst] = @ \cup fresh]
         \/ mail' = [mail EXCEPT ![dst] = @ \cup fresh]
      /\ uidnext' = [uidnext EXCEPT ![dst] = @ + uidnext[src]]
  BY DEF MoveEntries, CopyEntries, fresh
<1>5. \A b \in Boxes : uidnext[b] \in Nat /\ uidnext'[b] \in Nat /\ uidnext[b] <= uidnext'[b]
  BY <1>1, <1>4
<1>6. fresh \subseteq mail'[dst]
  BY <1>1, <1>4
<1>7. \A e \in fresh : ~(e.uid <= uidnext[dst])
  BY <1>1, <1>2 DEF Entry, Uids
<1>8. \A b \in Boxes : \A e \in mail'[b] : e \in mail[b] \/ (b = dst /\ e \in fresh)
  BY <1>1, <1>4
<1>9. \A b \in Boxes : \A e \in mail[b] : e \in mail'[b] \/ (b = src /\ e \in es)
  BY <1>1, <1>4
<1>10. \A b \in Boxes : \A e \in mail'[b] : e \in mail[b] \/ ~(e.uid <= uidnext[b])
  BY <1>7, <1>8
<1>11. \A e \in es : \E d \in mail'[dst] : d.msg = e.msg /\ ~(d.uid <= uidnext[dst])
  BY <1>3, <1>6, <1>7
<1> QED BY <1>5, <1>9, <1>10, <1>11

\* A rebuilt mailbox holds the same messages.
LEMMA RebuiltIs ==
  ASSUME MailInv, NEW box \in Boxes,
         mail' = [mail EXCEPT ![box] = {[e EXCEPT !.uid = uidnext[box] - @] : e \in mail[box]}]
  PROVE  /\ \A b \in Boxes : b # box => mail'[b] = mail[b]
         /\ \A e \in mail[box] : \E d \in mail'[box] : d.msg = e.msg
<1> DEFINE other(e) == [e EXCEPT !.uid = uidnext[box] - @]
<1>1. mail \in [Boxes -> SUBSET Entry]
  BY DEF MailInv, MailTypeOK
<1>2. \A e \in mail[box] : other(e).msg = e.msg
  BY <1>1 DEF Entry
<1>3. mail' = [mail EXCEPT ![box] = {other(e) : e \in mail[box]}]
  OBVIOUS
<1> HIDE DEF other
<1> QED BY <1>1, <1>2, <1>3

\* The mailbox of a call that is out keeps its UIDs, and so does each one as
\* long as no mailbox is rebuilt.
LEMMA ClientKeeps ==
  ASSUME IInv, OtherClient
  PROVE  /\ \A b \in Boxes : uidnext[b] \in Nat /\ uidnext'[b] \in Nat /\ uidnext[b] <= uidnext'[b]
         /\ \A b \in Boxes : b = selected \/ b = Trash \/ "rebuild" \notin UserActs =>
              \A e \in mail'[b] : e \in mail[b] \/ ~(e.uid <= uidnext[b])
<1>1. MailInv /\ UserClient
  BY Start DEF OtherClient
<1>2. \A b \in Boxes : uidnext[b] \in Nat
  BY <1>1 DEF MailInv, MailTypeOK
<1>3. CASE UNCHANGED <<mail, uidnext>>
  BY <1>2, <1>3
<1>4. CASE \E src, dst \in Boxes : \E e \in mail[src] : MoveEntries(src, dst, {e})
  <2>1. PICK src \in Boxes, dst \in Boxes : \E e \in mail[src] : MoveEntries(src, dst, {e})
    BY <1>4
  <2>2. PICK e \in mail[src] : MoveEntries(src, dst, {e})
    BY <2>1
  <2>3. {e} \subseteq mail[src]
    OBVIOUS
  <2> QED BY <1>1, <2>2, <2>3, MovedIs
<1>5. CASE /\ "rebuild" \in UserActs /\ uidnext' = uidnext
           /\ \E b \in Folders \ {selected} :
                mail' = [mail EXCEPT ![b] = {[e EXCEPT !.uid = uidnext[b] - @] : e \in mail[b]}]
  <2>1. PICK x \in Folders \ {selected} :
          mail' = [mail EXCEPT ![x] = {[e EXCEPT !.uid = uidnext[x] - @] : e \in mail[x]}]
    BY <1>5
  <2>2. x \in Boxes /\ x # Trash /\ x # selected
    BY BoxAssumption DEF Boxes
  <2>3. \A b \in Boxes : b # x => mail'[b] = mail[b]
    BY <1>1, <2>1, <2>2, RebuiltIs
  <2> QED BY <1>2, <1>5, <2>2, <2>3
<1> QED BY <1>1, <1>3, <1>4, <1>5, ClientIs

-----------------------------------------------------------------------------
\* Every step.

LEMMA StepIsOne ==
  ASSUME [Next]_vars
  PROVE  \/ ApplyNext \/ UndoNext \/ MoveStep \/ Undo \/ OtherClient \/ Cancel \/ Crash
         \/ UNCHANGED vars
BY DEF Next, Over

\* What was fsynced stays.
LEMMA SyncedStays ==
  ASSUME IInv, [Next]_vars
  PROVE  KeepsSynced
<1>1. AuditTypeOK /\ MailInv
  BY Start
<1>2. CASE ApplyNext
  BY <1>1, <1>2, ApplyFrame, LogStepIs, ConfirmIs, LinesAreSynced
<1>3. CASE UndoNext
  BY <1>1, <1>3, UndoNextFrame, LogStepIs, LinesAreSynced
<1>4. CASE Crash
  BY <1>1, <1>4, LoseTailKeeps DEF Crash
<1>5. CASE audit' = audit
  BY <1>1, <1>5 DEF KeepsSynced, AuditTypeOK
<1>6. CASE MoveStep \/ Undo \/ OtherClient \/ Cancel \/ UNCHANGED vars
  BY <1>5, <1>6, UndoStartFrame DEF MoveStep, OtherClient, Cancel, vars, auditVars
<1> QED BY <1>2, <1>3, <1>4, <1>6, StepIsOne

\* Outside apply's own steps and a crash, apply's variables stay.
LEMMA ApplyRests ==
  ASSUME UndoNext \/ MoveStep \/ Undo \/ OtherClient \/ Cancel \/ UNCHANGED vars
  PROVE  UNCHANGED <<db, pc, scope, trashOk, targets, noSource, todo, folder, flagsSeen, queue,
                     intents>>
BY DEF UndoNext, MoveStep, Undo, OtherClient, Cancel, vars, applyVars, runVars

-----------------------------------------------------------------------------
\* Rows outlive their record.

\* Once a record is on disk it stays there.
LEMMA RecordStays ==
  ASSUME AuditTypeOK, AuditTypeOK', KeepsSynced, NEW i \in 1 .. audit.synced
  PROVE  i \in 1 .. audit'.synced /\ audit'.lines[i] = audit.lines[i]
BY DEF AuditTypeOK, KeepsSynced

LEMMA RecordStep == IInv /\ RecordInv /\ [Next]_vars => RecordInv'
<1> SUFFICES ASSUME IInv, RecordInv, [Next]_vars PROVE RecordInv'
  OBVIOUS
<1>1. AuditTypeOK /\ AuditTypeOK' /\ KeepsSynced
  BY SyncedStays, StepHolds, Start DEF IInv, TypeOK
<1>2. ASSUME NEW r \in ScannedRows \ db.rows
      PROVE  \E i \in 1 .. audit'.synced :
               IsConfirmation(i)' /\ audit'.lines[i].folder = r.folder
               /\ r.uid \in audit'.lines[i].uids
  <2>1. PICK i \in 1 .. audit.synced :
          IsConfirmation(i) /\ audit.lines[i].folder = r.folder /\ r.uid \in audit.lines[i].uids
    BY DEF RecordInv, RowsOutliveRecord
  <2> QED BY <1>1, <2>1, RecordStays DEF IsConfirmation
<1>3. CASE DropRows
  <2>1. /\ pc = "rows" /\ pc' # "rows"
        /\ db' = [db EXCEPT !.rows = {r \in @ : ~(r.folder = folder /\ r.uid \in Batch)}]
        /\ audit' = audit
    BY <1>3 DEF DropRows, Goto, auditVars
  <2>2. PICK i \in 1 .. audit.synced : audit.lines[i] = Confirmation(folder, Batch)
    BY <2>1 DEF RecordInv
  <2>3. /\ IsConfirmation(i)' /\ audit'.lines[i].folder = folder /\ audit'.lines[i].uids = Batch
        /\ i \in 1 .. audit'.synced
    BY <2>1, <2>2 DEF IsConfirmation, Confirmation, NewLine
  <2>4. db'.rows = {r \in db.rows : ~(r.folder = folder /\ r.uid \in Batch)}
    BY <2>1, Start DEF ApplyTypeOK
  <2>5. RowsOutliveRecord'
    <3> SUFFICES ASSUME NEW r \in ScannedRows \ db'.rows
                 PROVE  \E j \in 1 .. audit'.synced :
                          IsConfirmation(j)' /\ audit'.lines[j].folder = r.folder
                          /\ r.uid \in audit'.lines[j].uids
      BY DEF RowsOutliveRecord, ScannedRows
    <3>1. CASE r \in db.rows
      BY <2>3, <2>4, <3>1
    <3> QED BY <1>2, <3>1
  <2> QED BY <2>1, <2>5 DEF RecordInv
<1>4. CASE db' = db
  <2>1. RowsOutliveRecord'
    BY <1>2, <1>4 DEF RowsOutliveRecord, ScannedRows
  <2>2. CASE Confirm
    <3>1. folder' = folder /\ Batch' = Batch
      BY <2>2 DEF Confirm, Batch
    <3> QED BY <2>1, <2>2, <3>1, ConfirmIs DEF RecordInv, Confirmation
  <2>3. CASE pc' = "rows" => pc = "rows" /\ folder' = folder /\ queue' = queue
    <3> SUFFICES ASSUME pc' = "rows"
                 PROVE  \E i \in 1 .. audit'.synced : audit'.lines[i] = Confirmation(folder, Batch)'
      BY <2>1 DEF RecordInv
    <3>1. PICK i \in 1 .. audit.synced : audit.lines[i] = Confirmation(folder, Batch)
      BY <2>3 DEF RecordInv
    <3>2. Confirmation(folder, Batch)' = Confirmation(folder, Batch)
      BY <2>3 DEF Confirmation, Batch
    <3> QED BY <1>1, <3>1, <3>2, RecordStays
  <2>4. CASE Crash
    <3>1. pc' # "rows"
      <4>1. RunEnded'
        BY <2>4, Start DEF Crash, Busy, Running, CallInv, UndoRunning, RunEnded
      <4> QED BY <4>1 DEF RunEnded
    <3> QED BY <2>3, <3>1
  <2>5. CASE ApplyNext /\ ~Confirm /\ ~DropRows
    <3>1. ASSUME NEW f \in Folders, SkipFolder(f) \/ SelectFolder(f) PROVE pc' # "rows"
      BY <3>1 DEF SkipFolder, SelectFolder, Goto
    <3>2. pc' # "rows"
      BY <2>5, <3>1
         DEF ApplyNext, ApplyStep, Prepare, OpenRun, WriteRefused, UnsubscribePhase, StartDelete,
             EndFolders, FetchFlags, FetchIdentity, Abort, WriteIntent, SyncIntents, MoveFailed,
             Finish, Goto
    <3> QED BY <2>3, <3>2
  <2>6. CASE UndoNext \/ MoveStep \/ Undo \/ OtherClient \/ Cancel \/ UNCHANGED vars
    BY <2>3, <2>6, ApplyRests
  <2> QED BY <1>3, <2>2, <2>4, <2>5, <2>6, StepIsOne DEF DropRows
<1>5. ASSUME ~DropRows PROVE db' = db
  <2>1. ASSUME NEW f \in Folders, SkipFolder(f) \/ SelectFolder(f) PROVE db' = db
    BY <2>1 DEF SkipFolder, SelectFolder
  <2>2. CASE ApplyNext
    BY <1>5, <2>1, <2>2
       DEF ApplyNext, ApplyStep, Prepare, OpenRun, WriteRefused, UnsubscribePhase, StartDelete,
           EndFolders, FetchFlags, FetchIdentity, Abort, WriteIntent, SyncIntents, Confirm,
           MoveFailed, Finish
  <2>3. CASE Crash
    BY <2>3 DEF Crash
  <2> QED BY <2>2, <2>3, StepIsOne, ApplyRests
<1> QED BY <1>3, <1>4, <1>5

LEMMA RecordInductive == Spec => [](IInv /\ RecordInv)
<1>1. Init => RecordInv
  BY DEF Init, ApplyInit, RecordInv, RowsOutliveRecord
<1> QED BY <1>1, InitHolds, StepHolds, RecordStep, PTL DEF Spec

\* A scanned message leaves the local database only when its confirmation is on
\* disk, whatever crashes, is lost with the page cache or is done by another
\* client (deleteFolder: Sync before DeleteMessageRows).
THEOREM RowsOutliveRecordHolds == Spec => []RowsOutliveRecord
<1>1. RecordInv => RowsOutliveRecord
  BY DEF RecordInv
<1> QED BY RecordInductive, <1>1, PTL

-----------------------------------------------------------------------------
\* The call that is out.

\* The calls apply makes.
LEMMA ApplyCalls ==
  ASSUME ApplyNext
  PROVE  \/ mv' = mv /\ pc # "moving"
         \/ mv' = Idle
         \/ /\ pc = "intent" /\ pc' = "moving" /\ folder' = folder /\ queue' = queue
            /\ MoveCall(folder, Trash, Batch)
<1>1. ASSUME NEW f \in Folders, SkipFolder(f) \/ SelectFolder(f)
      PROVE  mv' = mv /\ pc # "moving"
  BY <1>1 DEF SkipFolder, SelectFolder
<1>2. CASE Confirm \/ MoveFailed
  BY <1>2 DEF Confirm, MoveFailed
<1>3. CASE SyncIntents
  BY <1>3 DEF SyncIntents, Goto
<1> QED BY <1>1, <1>2, <1>3
        DEF ApplyNext, ApplyStep, Prepare, OpenRun, WriteRefused, UnsubscribePhase, StartDelete,
            EndFolders, FetchFlags, FetchIdentity, Abort, WriteIntent, DropRows, Finish

\* Every batch is below the next UID of its folder.
LEMMA BatchBelow ==
  ASSUME IInv, pc \in InBatches, NEW u \in Batch
  PROVE  u \in queue /\ u < uidnext[folder] /\ folder \in Folders /\ selected = folder
<1>1. u \in queue
  BY BoundsAreSubsets DEF Batch
<1> QED BY <1>1, Start DEF BatchInv, Verified, FolderInv, InFolder, InBatches

\* A call works in the folder that is selected, or out of Trash.
LEMMA CallSelected ==
  ASSUME IInv, OwnerInv, CallOut
  PROVE  mv.src \in Boxes /\ (mv.src = selected \/ mv.src = Trash)
BY Start DEF OwnerInv, FolderInv, InFolder, Calls

LEMMA SearchBelow ==
  ASSUME MailInv, NEW f, NEW u \in ToRestore(f)
  PROVE  u < uidnext[Trash]
<1>1. \A id : Search(Trash, id) \subseteq UidsIn(Trash)
  BY DEF Search, WithId, UidsIn
<1>2. \A id : Highest(Search(Trash, id), Wanted(id)) \subseteq UidsIn(Trash)
  BY <1>1, BoundsAreSubsets
<1>3. u \in UidsIn(Trash)
  BY <1>2 DEF ToRestore
<1> QED BY <1>3 DEF UidsIn, MailInv, UidsOK, Boxes

\* No UID is given out twice: the next one only grows.
LEMMA NextGrows ==
  ASSUME IInv, [Next]_vars
  PROVE  \A b \in Boxes : uidnext[b] \in Nat /\ uidnext'[b] \in Nat /\ uidnext[b] <= uidnext'[b]
<1>1. MailInv /\ \A b \in Boxes : uidnext[b] \in Nat
  BY Start DEF MailInv, MailTypeOK
<1>2. CASE MoveStep
  <2>1. BoxesOK' /\ \A b \in Boxes : KeepsUids(b)
    BY <1>1, <1>2, MoveUIDsKeeps DEF MoveStep
  <2> QED BY <1>1, <2>1 DEF BoxesOK, KeepsUids
<1>3. CASE OtherClient
  BY <1>3, ClientKeeps
<1>4. uidnext' = uidnext \/ MoveStep \/ OtherClient
  BY StepIsOne, ApplyFrame, UndoNextFrame, UndoStartFrame
     DEF ServerSame, serverVars, UndoFrame, Cancel, Crash, vars, mailVars
<1> QED BY <1>1, <1>2, <1>3, <1>4

LEMMA OwnerStep == IInv /\ OwnerInv /\ [Next]_vars => OwnerInv'
<1> SUFFICES ASSUME IInv, OwnerInv, [Next]_vars PROVE OwnerInv'
  OBVIOUS
<1>1. \A b \in Boxes : uidnext[b] \in Nat /\ uidnext'[b] \in Nat /\ uidnext[b] <= uidnext'[b]
  BY NextGrows
<1>2. Trash \in Boxes /\ folder \in Boxes /\ mv.src \in Boxes
      /\ mv.todo \subseteq Uids /\ mv.chunk \subseteq Uids /\ found \in [Folders -> SUBSET Uids]
  BY Start DEF Boxes, ApplyTypeOK, Calls, UndoTypeOK
<1>3. \A b \in Boxes : \A u \in Uids : u < uidnext[b] => u < uidnext'[b]
  BY <1>1 DEF Uids
<1>4. CASE ApplyNext
  <2>1. found' = found /\ upc' = upc
    BY <1>4, ApplyFrame DEF undoVars
  <2>2. \A f \in Folders : \A u \in found'[f] : u < uidnext'[Trash]
    BY <1>2, <1>3, <2>1 DEF OwnerInv
  <2>3. CASE mv' = mv /\ pc # "moving"
    BY <1>2, <1>3, <2>1, <2>2, <2>3 DEF OwnerInv, CallOut
  <2>4. CASE mv' = Idle
    BY <2>2, <2>4, IdleTyped DEF OwnerInv, CallOut
  <2>5. CASE /\ pc = "intent" /\ pc' = "moving" /\ folder' = folder /\ queue' = queue
             /\ MoveCall(folder, Trash, Batch)
    <3>1. mv'.src = folder /\ mv'.dst = Trash /\ mv'.todo = Batch /\ mv'.chunk = {}
      BY <2>5 DEF MoveCall
    <3>2. \A u \in Batch : u < uidnext[folder] /\ u \in Uids
      BY <2>5, BatchBelow, Start DEF InBatches, ApplyTypeOK
    <3> QED BY <1>2, <1>3, <2>2, <2>5, <3>1, <3>2 DEF OwnerInv, CallOut
  <2> QED BY <1>4, <2>3, <2>4, <2>5, ApplyCalls
<1>5. CASE UndoNext
  <2>1. UNCHANGED <<pc, folder>> /\ uidnext' = uidnext /\ UndoStep
    BY <1>5, UndoNextFrame DEF UndoFrame, applyVars, runVars, serverVars, UndoNext
  <2>2. UndoRunning /\ pc # "moving"
    BY <1>5, UndoNextFrame, Start DEF CallInv, RunEnded
  <2>3. CASE \E f \in Folders : RestoreFolder(f)
    <3>1. PICK f \in Folders : RestoreFolder(f)
      BY <2>3
    <3>2. /\ mv'.src = Trash /\ mv'.todo = found[f] /\ mv'.chunk = {}
          /\ upc' = "moving" /\ found' = found
      BY <3>1 DEF RestoreFolder, MoveCall
    <3> QED BY <2>1, <3>2 DEF OwnerInv
  <2>4. CASE Restored \/ RestoreFailed
    <3>1. mv' = Idle /\ (found' = found \/ found' = [found EXCEPT ![mv.dst] = {}])
      BY <2>4 DEF Restored, RestoreFailed
    <3>2. \A f \in Folders : found'[f] \subseteq found[f]
      BY <1>2, <3>1
    <3> QED BY <2>1, <3>1, <3>2, IdleTyped DEF OwnerInv, CallOut
  <2>5. CASE Locate \/ UndoEnds \/ \E f \in Folders : CheckSource(f)
    <3>1. /\ upc # "moving" /\ mv' = mv
          /\ found' = found \/ found' = [f \in Folders |-> ToRestore(f)]
      BY <2>5 DEF Locate, UndoEnds, CheckSource, UndoReads
    <3>2. ~CallOut /\ ~CallOut'
      BY <2>2, <3>1 DEF OwnerInv, CallOut
    <3>3. \A f \in Folders : \A u \in found'[f] : u < uidnext[Trash]
      BY <3>1, Start, SearchBelow DEF OwnerInv
    <3> QED BY <2>1, <3>2, <3>3 DEF OwnerInv
  <2> QED BY <2>1, <2>3, <2>4, <2>5 DEF UndoStep
<1>6. CASE Undo
  <2>1. ~CallOut /\ mv' = mv /\ found' = NothingFound
    BY <1>6, UndoStartFrame DEF OwnerInv, CallOut, RunEnded, UndoRunning
  <2> QED BY <2>1 DEF OwnerInv, CallOut, NothingFound
<1>7. CASE Crash
  <2>1. mv' = Idle /\ found' = NothingFound
    BY <1>7 DEF Crash
  <2> QED BY <2>1, IdleTyped DEF OwnerInv, CallOut, NothingFound
<1>8. CASE MoveStep
  <2>1. /\ CallKept /\ InCall /\ UNCHANGED <<pc, folder, upc, found>>
    BY <1>8, Start, MoveUIDsKeeps DEF MoveStep, applyVars, runVars, undoVars
  <2>2. /\ mv'.src = mv.src /\ mv'.dst = mv.dst
        /\ mv'.todo \cup mv'.chunk \subseteq mv.todo \cup mv.chunk
    BY <2>1 DEF CallKept
  <2>3. CallOut
    BY <2>1 DEF InCall, CallOut
  <2> QED BY <1>2, <1>3, <2>1, <2>2, <2>3 DEF OwnerInv
<1>9. CASE OtherClient \/ Cancel \/ UNCHANGED vars
  <2>1. UNCHANGED <<mv, pc, folder, upc, found>>
    BY <1>9, ClientIs DEF OtherClient, Cancel, vars, mailVars, applyVars, runVars, undoVars
  <2> QED BY <1>2, <1>3, <2>1 DEF OwnerInv, CallOut
<1> QED BY <1>4, <1>5, <1>6, <1>7, <1>8, <1>9, StepIsOne

LEMMA OwnerInitially == Init => OwnerInv
BY IdleTyped DEF Init, MailInit, UndoInit, OwnerInv, CallOut, NothingFound, Idle

-----------------------------------------------------------------------------
\* No message is lost.

\* What OwnerInv says of a call: the UIDs it names have been given out.
LEMMA NamedBelow ==
  ASSUME IInv, OwnerInv, CallOut
  PROVE  /\ mv.src \in Boxes /\ mv.dst \in Boxes /\ Chunk \subseteq mv.todo
         /\ \A u \in mv.todo \cup mv.chunk : u \in Uids /\ u <= uidnext[mv.src]
<1>1. mv.src \in Boxes /\ mv.dst \in Boxes /\ mv.todo \subseteq Uids /\ mv.chunk \subseteq Uids
  BY Start DEF Calls
<1>2. uidnext[mv.src] \in Nat
  BY <1>1, Start DEF MailInv, MailTypeOK
<1> QED BY <1>1, <1>2, BoundsAreSubsets DEF OwnerInv, Chunk, Uids

\* A message that leaves a mailbox is in another one, or still there.
LEMMA MovedIsSomewhere ==
  ASSUME MailInv, NothingLost, NEW src \in Boxes, NEW dst \in Boxes, NEW es, es \subseteq mail[src],
         MoveEntries(src, dst, es) \/ CopyEntries(src, dst, es)
  PROVE  NothingLost'
<1> SUFFICES ASSUME NEW c \in Copies
             PROVE  \E b \in Boxes : \E e \in mail'[b] : e.msg = c
  BY DEF NothingLost
<1>1. PICK b \in Boxes : \E e \in mail[b] : e.msg = c
  BY DEF NothingLost
<1>2. PICK e \in mail[b] : e.msg = c
  BY <1>1
<1>3. e \in mail'[b] \/ (b = src /\ e \in es)
  BY MovedIs
<1>4. CASE e \in es
  BY <1>2, <1>4, MovedIs
<1> QED BY <1>2, <1>3, <1>4

LEMMA LossMoves ==
  ASSUME IInv, LossInv, MoveStep
  PROVE  NothingLost' /\ (mv'.pc \in {"store", "expunge"} =>
                            \A e \in At(mv.src, mv.chunk)' : Elsewhere(e)')
<1>1. /\ MailInv /\ NothingLost /\ OwnerInv /\ CallKept /\ InCall /\ MoveUIDs /\ mv \in Calls
      /\ mail \in [Boxes -> SUBSET Entry]
  BY Start, MoveUIDsKeeps DEF LossInv, MoveStep, MailInv, MailTypeOK
<1>2. /\ mv.src \in Boxes /\ mv.dst \in Boxes /\ Chunk \subseteq mv.todo
      /\ \A u \in mv.todo \cup mv.chunk : u \in Uids /\ u <= uidnext[mv.src]
      /\ mv'.src = mv.src
  BY <1>1, NamedBelow DEF InCall, CallOut, CallKept
<1>3. ChunkDone(Chunk) \/ ChunkDone(mv.chunk) \/ MoveError => mv'.pc \notin {"store", "expunge"}
  BY <1>1 DEF ChunkDone, MoveError, Calls
<1>4. CASE RefuseMove
  BY <1>1, <1>3, <1>4 DEF RefuseMove, serverVars, NothingLost
<1>5. CASE UidMove
  <2>1. PICK es \in SUBSET At(mv.src, Chunk) :
          MoveEntries(mv.src, mv.dst, es) /\ (ChunkDone(Chunk) \/ MoveError)
    BY <1>5 DEF UidMove
  <2>2. es \subseteq mail[mv.src]
    BY AtIsSubset
  <2> QED BY <1>1, <1>2, <1>3, <2>1, <2>2, MovedIsSomewhere
<1>6. CASE UidCopy
  <2>1. PICK es \in SUBSET At(mv.src, Chunk) :
          /\ CopyEntries(mv.src, mv.dst, es)
          /\ \/ es = At(mv.src, Chunk) /\ mv' = [mv EXCEPT !.pc = "store", !.chunk = Chunk]
             \/ MoveError
    BY <1>6 DEF UidCopy
  <2>2. es \subseteq mail[mv.src]
    BY AtIsSubset
  <2>3. NothingLost'
    BY <1>1, <1>2, <2>1, <2>2, MovedIsSomewhere
  <2>4. CASE MoveError
    BY <1>3, <2>3, <2>4
  <2>5. CASE es = At(mv.src, Chunk) /\ mv' = [mv EXCEPT !.pc = "store", !.chunk = Chunk]
    <3>1. mv'.chunk = Chunk
      BY <1>1, <2>5 DEF Calls
    <3> SUFFICES ASSUME NEW e \in At(mv.src, mv.chunk)' PROVE Elsewhere(e)'
      BY <2>3
    <3>2. e \in mail'[mv.src] /\ e.uid \in Chunk
      BY <1>2, <3>1 DEF At
    <3>3. e \in es
      BY <1>1, <1>2, <2>1, <2>2, <2>5, <3>2, MovedIs DEF At
    <3>4. PICK d \in mail'[mv.dst] : d.msg = e.msg /\ ~(d.uid <= uidnext[mv.dst])
      BY <1>1, <1>2, <2>1, <2>2, <3>3, MovedIs
    <3>5. ~(mv.dst = mv.src /\ d.uid \in Chunk)
      BY <1>2, <3>4
    <3> QED BY <1>2, <3>1, <3>4, <3>5 DEF Elsewhere
  <2> QED BY <2>1, <2>4, <2>5
<1>7. CASE UidStore
  <2>1. PICK es \in SUBSET At(mv.src, mv.chunk) :
          MarkDeleted(mv.src, es) /\ (mv' = [mv EXCEPT !.pc = "expunge"] \/ MoveError)
    BY <1>7 DEF UidStore
  <2> DEFINE mark(e) == [e EXCEPT !.deleted = TRUE]
             image(b, e) == IF b = mv.src /\ e \in es THEN mark(e) ELSE e
  <2>2. \A e \in Entry : mark(e).uid = e.uid /\ mark(e).msg = e.msg
    BY DEF Entry
  <2>3. mail' = [mail EXCEPT ![mv.src] = (@ \ es) \cup {mark(e) : e \in es}]
    BY <2>1 DEF MarkDeleted
  <2> HIDE DEF mark
  <2>4. ASSUME NEW b \in Boxes, NEW e \in mail[b]
        PROVE  /\ image(b, e) \in mail'[b] /\ image(b, e).uid = e.uid
               /\ image(b, e).msg = e.msg
    <3>1. e \in Entry
      BY <1>1
    <3> QED BY <1>1, <1>2, <2>2, <2>3, <3>1
  <2>5. ASSUME NEW e \in mail'[mv.src]
        PROVE  \E d \in mail[mv.src] : d.uid = e.uid /\ d.msg = e.msg
    <3>1. e \in mail[mv.src] \/ \E d \in es : e = mark(d)
      BY <1>1, <1>2, <2>3
    <3>2. \A d \in es : d \in mail[mv.src] /\ d \in Entry
      BY <1>1, <1>2, AtIsSubset
    <3> QED BY <2>2, <3>1, <3>2
  <2> HIDE DEF image
  <2>6. NothingLost'
    <3> SUFFICES ASSUME NEW c \in Copies
                 PROVE  \E b \in Boxes : \E e \in mail'[b] : e.msg = c
      BY DEF NothingLost
    <3>1. PICK b \in Boxes : \E e \in mail[b] : e.msg = c
      BY <1>1 DEF NothingLost
    <3> QED BY <2>4, <3>1
  <2>7. mv'.chunk = mv.chunk
    BY <1>1, <2>1 DEF Calls, MoveError
  <2>8. ASSUME NEW e \in At(mv.src, mv.chunk)' PROVE Elsewhere(e)'
    <3>1. e \in mail'[mv.src] /\ e.uid \in mv.chunk
      BY <1>2, <2>7, <2>8 DEF At
    <3>2. PICK o \in mail[mv.src] : o.uid = e.uid /\ o.msg = e.msg
      BY <2>5, <3>1
    <3>3. mv.pc = "store" /\ o \in At(mv.src, mv.chunk)
      BY <1>7, <3>1, <3>2 DEF UidStore, At
    <3>4. Elsewhere(o)
      BY <3>3 DEF LossInv
    <3>5. PICK b \in Boxes : \E d \in mail[b] : d.msg = o.msg /\ ~(b = mv.src /\ d.uid \in mv.chunk)
      BY <3>4 DEF Elsewhere
    <3>6. PICK d \in mail[b] : d.msg = o.msg /\ ~(b = mv.src /\ d.uid \in mv.chunk)
      BY <3>5
    <3>7. image(b, d) \in mail'[b] /\ image(b, d).msg = e.msg /\ image(b, d).uid = d.uid
      BY <2>4, <3>2, <3>6
    <3> QED BY <1>2, <2>7, <3>6, <3>7 DEF Elsewhere
  <2> QED BY <2>6, <2>8
<1>8. CASE UidExpunge
  <2>1. PICK es \in SUBSET At(mv.src, mv.chunk) :
          mail' = [mail EXCEPT ![mv.src] = @ \ es] /\ (ChunkDone(mv.chunk) \/ MoveError)
    <3>1. {e \in At(mv.src, mv.chunk) : e.deleted} \subseteq At(mv.src, mv.chunk)
      OBVIOUS
    <3> QED BY <1>8, <3>1 DEF UidExpunge
  <2>2. \A b \in Boxes : \A e \in mail[b] : e \in mail'[b] \/ (b = mv.src /\ e \in es)
    BY <1>1, <2>1
  <2>3. NothingLost'
    <3> SUFFICES ASSUME NEW c \in Copies
                 PROVE  \E b \in Boxes : \E e \in mail'[b] : e.msg = c
      BY DEF NothingLost
    <3>1. PICK b \in Boxes : \E e \in mail[b] : e.msg = c
      BY <1>1 DEF NothingLost
    <3>2. PICK e \in mail[b] : e.msg = c
      BY <3>1
    <3>3. CASE e \in es /\ b = mv.src
      <4>1. Elsewhere(e)
        BY <1>8, <3>3 DEF LossInv, UidExpunge
      <4>2. PICK x \in Boxes : \E d \in mail[x] : d.msg = e.msg /\ ~(x = mv.src /\ d.uid \in mv.chunk)
        BY <4>1 DEF Elsewhere
      <4>3. PICK d \in mail[x] : d.msg = e.msg /\ ~(x = mv.src /\ d.uid \in mv.chunk)
        BY <4>2
      <4>4. d \in mail'[x]
        BY <2>2, <4>3 DEF At
      <4> QED BY <3>2, <4>3, <4>4
    <3> QED BY <2>2, <3>2, <3>3
  <2> QED BY <1>3, <2>1, <2>3
<1> QED BY <1>1, <1>4, <1>5, <1>6, <1>7, <1>8 DEF MoveUIDs

LEMMA LossClient ==
  ASSUME IInv, LossInv, OtherClient
  PROVE  NothingLost' /\ (mv'.pc \in {"store", "expunge"} =>
                            \A e \in At(mv.src, mv.chunk)' : Elsewhere(e)')
<1>1. /\ MailInv /\ NothingLost /\ OwnerInv /\ UserClient /\ mv' = mv
      /\ mail \in [Boxes -> SUBSET Entry]
  BY Start, ClientIs DEF LossInv, OtherClient, MailInv, MailTypeOK
<1>2. CASE UNCHANGED <<mail, uidnext>>
  BY <1>1, <1>2 DEF LossInv, NothingLost, Elsewhere, At
<1>3. ASSUME mv.pc \in {"store", "expunge"}, NEW e \in At(mv.src, mv.chunk)'
      PROVE  Elsewhere(e) /\ mv.src \in Boxes /\ (mv.src = selected \/ mv.src = Trash)
  <2>1. mv.src \in Boxes /\ (mv.src = selected \/ mv.src = Trash) /\ CallOut
    BY <1>1, <1>3, CallSelected DEF CallOut
  <2>2. e \in mail'[mv.src] /\ e.uid \in mv.chunk
    BY <1>1 DEF At
  <2>3. e \in At(mv.src, mv.chunk)
    BY <1>1, <2>1, <2>2, ClientKeeps, NamedBelow DEF At
  <2> QED BY <1>3, <2>1, <2>3 DEF LossInv
<1>4. CASE \E src, dst \in Boxes : \E e \in mail[src] : MoveEntries(src, dst, {e})
  <2>1. PICK src \in Boxes, dst \in Boxes : \E x \in mail[src] : MoveEntries(src, dst, {x})
    BY <1>4
  <2>2. PICK x \in mail[src] : MoveEntries(src, dst, {x})
    BY <2>1
  <2>3. {x} \subseteq mail[src]
    OBVIOUS
  <2>4. NothingLost'
    BY <1>1, <2>2, <2>3, MovedIsSomewhere
  <2>5. ASSUME mv.pc \in {"store", "expunge"}, NEW e \in At(mv.src, mv.chunk)'
        PROVE  Elsewhere(e)'
    <3>1. /\ Elsewhere(e) /\ mv.src \in Boxes
          /\ \A u \in mv.chunk : u <= uidnext[mv.src]
      BY <1>1, <1>3, <2>5, NamedBelow DEF CallOut
    <3>2. PICK b \in Boxes : \E d \in mail[b] : d.msg = e.msg /\ ~(b = mv.src /\ d.uid \in mv.chunk)
      BY <3>1 DEF Elsewhere
    <3>3. PICK d \in mail[b] : d.msg = e.msg /\ ~(b = mv.src /\ d.uid \in mv.chunk)
      BY <3>2
    <3>4. CASE d \in mail'[b]
      BY <1>1, <3>3, <3>4 DEF Elsewhere
    <3>5. CASE d \in {x}
      <4>1. PICK y \in mail'[dst] : y.msg = d.msg /\ ~(y.uid <= uidnext[dst])
        BY <1>1, <2>2, <2>3, <3>5, MovedIs
      <4>2. ~(dst = mv.src /\ y.uid \in mv.chunk)
        BY <3>1, <4>1
      <4> QED BY <1>1, <3>3, <4>1, <4>2 DEF Elsewhere
    <3> QED BY <1>1, <2>2, <2>3, <3>3, <3>4, <3>5, MovedIs
  <2> QED BY <1>1, <2>4, <2>5
<1>5. CASE \E b \in Folders \ {selected} :
             mail' = [mail EXCEPT ![b] = {[e EXCEPT !.uid = uidnext[b] - @] : e \in mail[b]}]
  <2>1. PICK x \in Folders \ {selected} :
          mail' = [mail EXCEPT ![x] = {[e EXCEPT !.uid = uidnext[x] - @] : e \in mail[x]}]
    BY <1>5
  <2>2. x \in Boxes /\ x # selected /\ x # Trash
    BY BoxAssumption DEF Boxes
  <2>3. /\ \A b \in Boxes : b # x => mail'[b] = mail[b]
        /\ \A e \in mail[x] : \E d \in mail'[x] : d.msg = e.msg
    BY <1>1, <2>1, <2>2, RebuiltIs
  <2>4. NothingLost'
    <3> SUFFICES ASSUME NEW c \in Copies
                 PROVE  \E b \in Boxes : \E e \in mail'[b] : e.msg = c
      BY DEF NothingLost
    <3>1. PICK b \in Boxes : \E e \in mail[b] : e.msg = c
      BY <1>1 DEF NothingLost
    <3> QED BY <2>3, <3>1
  <2>5. ASSUME mv.pc \in {"store", "expunge"}, NEW e \in At(mv.src, mv.chunk)'
        PROVE  Elsewhere(e)'
    <3>1. Elsewhere(e) /\ mv.src # x
      BY <1>3, <2>2, <2>5
    <3>2. PICK b \in Boxes : \E d \in mail[b] : d.msg = e.msg /\ ~(b = mv.src /\ d.uid \in mv.chunk)
      BY <3>1 DEF Elsewhere
    <3>3. CASE b = x
      BY <1>1, <2>2, <2>3, <3>1, <3>2, <3>3 DEF Elsewhere
    <3>4. CASE b # x
      BY <1>1, <2>3, <3>2, <3>4 DEF Elsewhere
    <3> QED BY <3>3, <3>4
  <2> QED BY <1>1, <2>4, <2>5
<1> QED BY <1>1, <1>2, <1>4, <1>5, ClientIs

LEMMA LossStep == IInv /\ LossInv /\ [Next]_vars => LossInv'
<1> SUFFICES ASSUME IInv, LossInv, [Next]_vars PROVE LossInv'
  OBVIOUS
<1>1. OwnerInv'
  BY OwnerStep DEF LossInv
<1>2. CASE MoveStep \/ OtherClient
  BY <1>1, <1>2, LossMoves, LossClient DEF LossInv
<1>3. ASSUME mail' = mail, mv' = mv \/ mv'.pc \notin {"store", "expunge"} PROVE LossInv'
  BY <1>1, <1>3 DEF LossInv, NothingLost, Elsewhere, At
<1>4. CASE ApplyNext
  <2>1. mail' = mail
    BY <1>4, ApplyFrame DEF ServerSame, serverVars
  <2>2. mv' = mv \/ mv'.pc \in {"idle", "chunk"}
    BY <1>4, ApplyCalls, IdleTyped DEF MoveCall
  <2> QED BY <1>3, <2>1, <2>2
<1>5. CASE UndoNext
  <2>1. mail' = mail
    BY <1>5, UndoNextFrame DEF UndoFrame, serverVars
  <2>2. mv' = mv \/ mv'.pc \in {"idle", "chunk"}
    <3>1. ASSUME NEW f \in Folders, CheckSource(f) \/ RestoreFolder(f)
          PROVE  mv' = mv \/ mv'.pc = "chunk"
      BY <3>1 DEF CheckSource, RestoreFolder, UndoReads, MoveCall
    <3>2. CASE Locate \/ UndoEnds
      BY <3>2 DEF Locate, UndoEnds, UndoReads
    <3>3. CASE Restored \/ RestoreFailed
      BY <3>3, IdleTyped DEF Restored, RestoreFailed
    <3> QED BY <1>5, <3>1, <3>2, <3>3 DEF UndoNext, UndoStep
  <2> QED BY <1>3, <2>1, <2>2
<1>6. CASE Undo
  BY <1>3, <1>6, UndoStartFrame DEF UndoFrame, serverVars
<1>7. CASE Cancel \/ UNCHANGED vars
  BY <1>3, <1>7 DEF Cancel, vars, mailVars, serverVars
<1>8. CASE Crash
  BY <1>3, <1>8, IdleTyped DEF Crash, serverVars
<1> QED BY <1>2, <1>4, <1>5, <1>6, <1>7, <1>8, StepIsOne

LEMMA LossInductive == Spec => [](IInv /\ LossInv)
<1>1. ASSUME Init PROVE LossInv
  <2>1. NothingLost
    <3> SUFFICES ASSUME NEW c \in Copies
                 PROVE  \E b \in Boxes : \E e \in mail[b] : e.msg = c
      BY DEF NothingLost
    <3> DEFINE first == [uid |-> FirstUid[c], msg |-> c, deleted |-> FALSE]
    <3>1. Home[c] \in Boxes
      BY CopyAssumption
    <3>2. first \in mail[Home[c]]
      BY <1>1, <3>1 DEF Init, MailInit
    <3>3. first.msg = c
      OBVIOUS
    <3> QED BY <3>1, <3>2, <3>3, Zenon
  <2>2. mv.pc = "idle"
    BY <1>1 DEF Init, MailInit, Idle
  <2> QED BY <1>1, <2>1, <2>2, OwnerInitially DEF LossInv
<1> QED BY <1>1, InitHolds, StepHolds, LossStep, PTL DEF Spec

\* No message is ever in no mailbox at all: whichever command of MOVE or of the
\* COPY fallback fails or is cut off by a crash, and whatever another client
\* moves or rebuilds meanwhile (MoveUIDs).
THEOREM NothingLostHolds == Spec => []NothingLost
<1>1. LossInv => NothingLost
  BY DEF LossInv
<1> QED BY LossInductive, <1>1, PTL

-----------------------------------------------------------------------------
\* A confirmed UID is gone, as long as no mailbox is rebuilt.

\* A UID that is gone stays gone.
LEMMA VanishedStays ==
  ASSUME NEW f \in Boxes, NEW u \in Uids, Vanished(f, u), KeepsUids(f),
         uidnext[f] \in Nat, uidnext'[f] \in Nat
  PROVE  Vanished(f, u)'
<1>1. u < uidnext[f] /\ u < uidnext'[f] /\ \A e \in mail[f] : e.uid # u
  BY DEF Vanished, KeepsUids, Uids
<1>2. \A e \in mail'[f] : e.uid # u
  BY <1>1 DEF KeepsUids
<1> QED BY <1>1, <1>2 DEF Vanished

LEMMA NotRebuilt ==
  ASSUME IInv, [Next]_vars, "rebuild" \notin UserActs
  PROVE  \A b \in Boxes : KeepsUids(b)
<1>1. MailInv /\ \A b \in Boxes : uidnext[b] \in Nat
  BY Start DEF MailInv, MailTypeOK
<1>2. CASE MoveStep
  BY <1>1, <1>2, MoveUIDsKeeps DEF MoveStep
<1>3. CASE OtherClient
  <2>1. ASSUME NEW b \in Boxes PROVE KeepsUids(b)
    <3>1. /\ uidnext[b] <= uidnext'[b] /\ uidnext[b] \in Nat
          /\ \A e \in mail'[b] : e \in mail[b] \/ ~(e.uid <= uidnext[b])
      BY <1>3, ClientKeeps
    <3>2. \A e \in mail'[b] : e.uid \in Nat
      BY StepHolds DEF IInv, TypeOK, MailTypeOK, Entry, Uids
    <3> QED BY <3>1, <3>2 DEF KeepsUids
  <2> QED BY <2>1
<1>4. CASE UNCHANGED <<mail, uidnext>>
  BY <1>1, <1>4, SameKeeps
<1>5. UNCHANGED <<mail, uidnext>> \/ MoveStep \/ OtherClient
  BY StepIsOne, ApplyFrame, UndoNextFrame, UndoStartFrame
     DEF ServerSame, serverVars, UndoFrame, Cancel, Crash, vars, mailVars
<1> QED BY <1>2, <1>3, <1>4, <1>5

LEMMA ConfirmedIs ==
  ASSUME NEW f, NEW u
  PROVE  u \in Confirmed(f) <=>
           \E i \in Lines : IsConfirmation(i) /\ audit.lines[i].folder = f /\ u \in audit.lines[i].uids
BY DEF Confirmed

\* What is confirmed was confirmed before, or is confirmed now, of the batch
\* whose call has returned.
LEMMA ConfirmedNew ==
  ASSUME IInv, [Next]_vars, NEW f, NEW u, u \in Confirmed(f)'
  PROVE  u \in Confirmed(f) \/ (Confirm /\ f = folder /\ u \in Batch)
<1>1. PICK i \in 1 .. Len(audit'.lines) :
        /\ audit'.lines[i].status = "done" /\ audit'.lines[i].action = "move"
        /\ audit'.lines[i].folder = f /\ u \in audit'.lines[i].uids
  BY DEF Confirmed, Lines, IsConfirmation
<1>2. MailInv /\ AuditTypeOK
  BY Start
<1>3. CASE i \in 1 .. Len(audit.lines) /\ audit'.lines[i] = audit.lines[i]
  BY <1>1, <1>3, ConfirmedIs DEF IsConfirmation, Lines
<1>4. CASE LogStep
  BY <1>1, <1>2, <1>3, <1>4, LogStepIs
<1>5. CASE Confirm
  <2>1. CASE audit'.lines[i] = Confirmation(folder, Batch)
    BY <1>1, <1>5, <2>1 DEF Confirmation, NewLine
  <2> QED BY <1>3, <1>5, <2>1, ConfirmIs
<1>6. CASE audit' = audit
  BY <1>1, <1>3, <1>6
<1>7. CASE Crash
  <2>1. PICK n \in audit.synced .. Len(audit.lines), cut \in BOOLEAN :
          audit' = [audit EXCEPT !.lines = SubSeq(@, 1, n), !.torn = @ \/ cut]
    BY <1>7 DEF Crash, LoseTail
  <2>2. audit.lines \in Seq(Line) /\ Len(audit.lines) \in Nat /\ n \in Nat /\ n <= Len(audit.lines)
    BY <1>2, Start DEF AuditTypeOK
  <2>3. audit'.lines = SubSeq(audit.lines, 1, n)
    BY <1>2, <2>1 DEF AuditTypeOK
  <2> HIDE DEF Line
  <2>4. i \in 1 .. n /\ audit'.lines[i] = audit.lines[i] /\ i \in 1 .. Len(audit.lines)
    BY <2>2, <2>3
  <2> QED BY <1>3, <2>4
<1>8. CASE MoveStep \/ Undo \/ OtherClient \/ Cancel \/ UNCHANGED vars
  BY <1>6, <1>8, UndoStartFrame DEF MoveStep, OtherClient, Cancel, vars, auditVars
<1> QED BY <1>4, <1>5, <1>7, <1>8, StepIsOne, ApplyFrame, UndoNextFrame

\* The part of GoneInv about the batch that is being moved.
CallGone ==
  pc = "moving" =>
    /\ mv.pc # "err" => \A u \in Batch \ mv.todo : Vanished(folder, u)
    /\ mv.pc = "ok" => mv.todo = {}
    /\ mv.pc = "expunge" => \A e \in At(mv.src, mv.chunk) : e.deleted

LEMMA GoneMoves ==
  ASSUME IInv, GoneInv, MoveStep, pc = "moving", \A b \in Boxes : KeepsUids(b)
  PROVE  CallGone'
<1>1. /\ MailInv /\ OwnerInv /\ CallKept /\ InCall /\ CallOut /\ MoveUIDs /\ mv \in Calls
      /\ mail \in [Boxes -> SUBSET Entry]
      /\ UNCHANGED <<pc, folder, queue>>
  BY Start, MoveUIDsKeeps
     DEF GoneInv, MoveStep, MailInv, MailTypeOK, InCall, CallOut, applyVars, runVars
<1>2. /\ mv.src \in Boxes /\ mv.dst \in Boxes /\ Chunk \subseteq mv.todo
      /\ \A u \in mv.todo \cup mv.chunk : u \in Uids /\ u <= uidnext[mv.src]
      /\ mv.src = folder /\ mv'.src = mv.src /\ folder \in Boxes
      /\ uidnext[folder] \in Nat /\ uidnext'[folder] \in Nat
      /\ uidnext[folder] <= uidnext'[folder]
  <2>1. [Next]_vars
    BY DEF Next
  <2>2. mv.src = folder
    BY <1>1, Start DEF OwnerInv, CallInv, UndoRunning, RunEnded
  <2> QED BY <1>1, <2>1, <2>2, NamedBelow, NextGrows DEF CallKept
<1>3. Batch' = Batch /\ \A u \in Batch : u \in Uids /\ u < uidnext[folder] /\ u < uidnext'[folder]
  <2>1. Batch' = Batch
    BY <1>1 DEF Batch
  <2>2. \A u \in Batch : u \in Uids /\ u < uidnext[folder]
    BY BatchBelow, Start DEF InBatches, ApplyTypeOK
  <2> QED BY <1>2, <2>1, <2>2 DEF Uids
<1>4. ASSUME NEW u \in Batch, u \notin mv.todo, mv.pc # "err" PROVE Vanished(folder, u)'
  <2>1. Vanished(folder, u) /\ u \in Uids
    BY <1>3, <1>4 DEF GoneInv
  <2>2. \A b \in Boxes : Vanished(b, u) /\ b = folder => Vanished(b, u)'
    BY <1>2, <2>1, VanishedStays
  <2> QED BY <1>1, <1>2, <2>1, <2>2 DEF Vanished
<1>5. mv.pc # "err"
  BY <1>1 DEF InCall
\* A call that goes on, or returns nil, has seen the UIDs it is done with go.
<1>6. ASSUME NEW c \in SUBSET Uids, ChunkDone(c),
             \A u \in Batch \cap c : \A e \in mail'[folder] : e.uid # u
      PROVE  CallGone'
  <2>1. mv'.todo = mv.todo \ c /\ mv'.pc = (IF mv'.todo = {} THEN "ok" ELSE "chunk")
    BY <1>1, <1>6 DEF ChunkDone, Calls
  <2>2. ASSUME NEW u \in Batch', u \notin mv'.todo PROVE Vanished(folder, u)'
    <3>1. CASE u \in mv.todo
      <4>1. u \in Batch \cap c /\ u < uidnext'[folder]
        BY <1>3, <2>1, <2>2, <3>1
      <4>2. \A e \in mail'[folder] : e.uid # u
        BY <1>6, <4>1
      <4> QED BY <1>1, <4>1, <4>2 DEF Vanished
    <3>2. CASE u \notin mv.todo
      BY <1>3, <1>4, <1>5, <2>2, <3>2
    <3> QED BY <3>1, <3>2
  <2> QED BY <1>1, <2>1, <2>2 DEF CallGone
<1>7. CASE MoveError
  BY <1>1, <1>7 DEF MoveError, Calls, CallGone
<1>8. CASE UidMove /\ ~MoveError
  <2>1. MoveEntries(mv.src, mv.dst, At(mv.src, Chunk)) /\ ChunkDone(Chunk)
    BY <1>8 DEF UidMove
  <2>2. At(mv.src, Chunk) \subseteq mail[mv.src]
    BY AtIsSubset
  <2>3. mv.dst = Trash /\ mv.dst # mv.src
    BY <1>1, <1>2, Start, BoxAssumption DEF OwnerInv, CallInv, UndoRunning, RunEnded, FolderInv, InFolder
  <2>4. mail'[mv.src] = mail[mv.src] \ At(mv.src, Chunk)
    BY <1>1, <1>2, <2>1, <2>3 DEF MoveEntries
  <2>5. ASSUME NEW u \in Batch \cap Chunk, NEW e \in mail'[folder] PROVE e.uid # u
    BY <1>2, <2>4, <2>5 DEF At
  <2>6. Chunk \in SUBSET Uids
    BY <1>2
  <2> QED BY <1>6, <2>1, <2>5, <2>6
<1>9. CASE UidCopy /\ ~MoveError
  <2>1. mv' = [mv EXCEPT !.pc = "store", !.chunk = Chunk]
    BY <1>9 DEF UidCopy
  <2>2. mv'.pc = "store" /\ mv'.todo = mv.todo
    BY <1>1, <2>1 DEF Calls
  <2> QED BY <1>1, <1>3, <1>4, <1>5, <2>2 DEF CallGone
<1>10. CASE UidStore /\ ~MoveError
  <2>1. /\ MarkDeleted(mv.src, At(mv.src, mv.chunk))
        /\ mv' = [mv EXCEPT !.pc = "expunge"]
    BY <1>10 DEF UidStore
  <2>2. mv'.pc = "expunge" /\ mv'.todo = mv.todo /\ mv'.chunk = mv.chunk
    BY <1>1, <2>1 DEF Calls
  <2>3. ASSUME NEW e \in At(mv.src, mv.chunk)' PROVE e.deleted
    <3>1. e \in mail'[mv.src] /\ e.uid \in mv.chunk
      BY <1>2, <2>2, <2>3 DEF At
    <3>2. mail'[mv.src] = (mail[mv.src] \ At(mv.src, mv.chunk)) \cup
                            {[x EXCEPT !.deleted = TRUE] : x \in At(mv.src, mv.chunk)}
      BY <1>1, <1>2, <2>1 DEF MarkDeleted
    <3>3. PICK x \in At(mv.src, mv.chunk) : e = [x EXCEPT !.deleted = TRUE]
      BY <3>1, <3>2 DEF At
    <3>4. x \in Entry
      BY <1>1, <1>2, AtIsSubset
    <3> QED BY <3>3, <3>4 DEF Entry
  <2> QED BY <1>1, <1>3, <1>4, <1>5, <2>2, <2>3 DEF CallGone
<1>11. CASE UidExpunge /\ ~MoveError
  <2>1. /\ mail' = [mail EXCEPT ![mv.src] = @ \ {e \in At(mv.src, mv.chunk) : e.deleted}]
        /\ ChunkDone(mv.chunk) /\ mv.pc = "expunge"
    BY <1>11 DEF UidExpunge
  <2>2. \A e \in At(mv.src, mv.chunk) : e.deleted
    BY <2>1 DEF GoneInv
  <2>3. mail'[mv.src] = mail[mv.src] \ At(mv.src, mv.chunk)
    BY <1>1, <1>2, <2>1, <2>2
  <2>4. ASSUME NEW u \in Batch \cap mv.chunk, NEW e \in mail'[folder] PROVE e.uid # u
    BY <1>2, <2>3, <2>4 DEF At
  <2>5. mv.chunk \in SUBSET Uids
    BY <1>2
  <2> QED BY <1>6, <2>1, <2>4, <2>5
<1> QED BY <1>1, <1>7, <1>8, <1>9, <1>10, <1>11 DEF MoveUIDs, RefuseMove

LEMMA GoneStep ==
  ASSUME "rebuild" \notin UserActs
  PROVE  IInv /\ GoneInv /\ [Next]_vars => GoneInv'
<1> SUFFICES ASSUME IInv, GoneInv, [Next]_vars PROVE GoneInv'
  OBVIOUS
<1>1. /\ OwnerInv' /\ \A b \in Boxes : KeepsUids(b)
      /\ \A b \in Boxes : uidnext[b] \in Nat /\ uidnext'[b] \in Nat
  BY OwnerStep, NotRebuilt, NextGrows DEF GoneInv
<1>2. \A f \in Folders : \A u \in Confirmed(f) : u \in Uids
  <2>1. audit.lines \in Seq(Line)
    BY Start DEF AuditTypeOK
  <2>2. ASSUME NEW i \in Lines PROVE audit.lines[i] \in Line
    BY <2>1, <2>2 DEF Lines
  <2>3. \A l \in Line : l.uids \subseteq Uids
    BY DEF Line
  <2> QED BY <2>2, <2>3, ConfirmedIs
<1>3. ASSUME NEW f \in Folders, NEW u \in Confirmed(f)' PROVE Vanished(f, u)'
  <2>1. f \in Boxes
    BY DEF Boxes
  <2>2. CASE u \in Confirmed(f)
    BY <1>1, <1>2, <2>1, <2>2, VanishedStays DEF GoneInv
  <2>3. CASE Confirm /\ f = folder /\ u \in Batch
    <3>1. pc = "moving" /\ mv.pc = "ok" /\ u \in Uids
      BY <2>3, BatchBelow, Start DEF Confirm, InBatches, ApplyTypeOK
    <3>2. Vanished(folder, u)
      BY <2>3, <3>1 DEF GoneInv
    <3> QED BY <1>1, <2>1, <2>3, <3>1, <3>2, VanishedStays
  <2> QED BY <2>2, <2>3, ConfirmedNew
<1>4. SUFFICES CallGone'
  BY <1>1, <1>3 DEF GoneInv, CallGone
<1>5. CASE MoveStep
  <2>1. pc' = pc
    BY <1>5, ApplyRests
  <2> QED BY <1>1, <1>5, <2>1, GoneMoves DEF CallGone
<1>6. CASE ApplyNext
  <2>1. CASE /\ pc = "intent" /\ pc' = "moving" /\ folder' = folder /\ queue' = queue
             /\ MoveCall(folder, Trash, Batch)
    <3>1. mv'.pc = "chunk" /\ mv'.todo = Batch /\ Batch' = Batch
      BY <2>1 DEF MoveCall, Batch
    <3> QED BY <3>1 DEF CallGone
  <2>2. CASE pc' # "moving"
    BY <2>2 DEF CallGone
  <2>3. ASSUME ~SyncIntents PROVE pc' # "moving"
    <3>1. ASSUME NEW f \in Folders, SkipFolder(f) \/ SelectFolder(f) PROVE pc' # "moving"
      BY <3>1 DEF SkipFolder, SelectFolder, Goto
    <3> QED BY <1>6, <2>3, <3>1
            DEF ApplyNext, ApplyStep, Prepare, OpenRun, WriteRefused, UnsubscribePhase, StartDelete,
                EndFolders, FetchFlags, FetchIdentity, Abort, WriteIntent, Confirm, MoveFailed,
                DropRows, Finish, Goto
  <2>4. CASE SyncIntents
    BY <2>1, <2>2, <2>4 DEF SyncIntents, Goto
  <2> QED BY <2>2, <2>3, <2>4
<1>7. CASE UndoNext \/ Undo
  <2>1. pc' # "moving"
    BY <1>7, UndoNextFrame, UndoStartFrame, ApplyRests, Start DEF CallInv, RunEnded
  <2> QED BY <2>1 DEF CallGone
<1>8. CASE Crash
  <2>1. pc' # "moving"
    BY <1>8, Start DEF Crash, Busy, Running, CallInv, UndoRunning, RunEnded
  <2> QED BY <2>1 DEF CallGone
<1>9. CASE OtherClient \/ Cancel \/ UNCHANGED vars
  <2>1. UNCHANGED <<mv, pc, folder, queue>>
    BY <1>9, ClientIs DEF OtherClient, Cancel, vars, mailVars, applyVars, runVars
  <2>2. Batch' = Batch
    BY <2>1 DEF Batch
  <2> SUFFICES ASSUME pc = "moving" PROVE CallGone'
    BY <2>1 DEF CallGone
  <2>3. folder \in Boxes /\ \A u \in Batch : u \in Uids
    BY BatchBelow, Start DEF InBatches, ApplyTypeOK
  <2>4. ASSUME mv.pc # "err", NEW u \in Batch \ mv.todo PROVE Vanished(folder, u)'
    <3>1. Vanished(folder, u)
      BY <2>4 DEF GoneInv
    <3>2. Vanished(folder, u) /\ u \in Uids /\ folder \in Boxes
      BY <2>3, <3>1
    <3>3. \A b \in Boxes : Vanished(b, u) => Vanished(b, u)'
      BY <1>1, <3>2, VanishedStays
    <3> QED BY <2>1, <3>2, <3>3 DEF Vanished
  <2>5. ASSUME mv.pc = "expunge", NEW e \in At(mv.src, mv.chunk)' PROVE e.deleted
    <3>1. CallOut /\ OwnerInv
      BY <2>5 DEF CallOut, GoneInv
    <3>2. mv.src \in Boxes /\ e \in mail'[mv.src] /\ e.uid \in mv.chunk
      BY <2>1, <2>5, <3>1, NamedBelow DEF At
    <3>3. CASE OtherClient
      <4>1. e \in mail[mv.src]
        BY <3>1, <3>2, <3>3, ClientKeeps, NamedBelow
      <4> QED BY <2>5, <3>2, <4>1 DEF GoneInv, At
    <3>4. CASE mail' = mail
      BY <2>1, <2>5, <3>4 DEF GoneInv, At
    <3> QED BY <1>9, <3>3, <3>4 DEF Cancel, vars, mailVars, serverVars
  <2> QED BY <2>1, <2>2, <2>4, <2>5 DEF CallGone, GoneInv
<1> QED BY <1>5, <1>6, <1>7, <1>8, <1>9, StepIsOne

\* A UID the log confirms as moved is in its folder no more, so undo need not
\* look there again; the one who can bring it back is a server that rebuilds
\* the mailbox (undo's unconfirmed intents, deleteFolder's confirmation).
THEOREM ConfirmedMeansGoneHolds ==
  ASSUME "rebuild" \notin UserActs
  PROVE  Spec => []ConfirmedMeansGone
<1>1. Init => GoneInv
  <2> SUFFICES ASSUME Init PROVE GoneInv
    OBVIOUS
  <2>1. pc = "review" /\ Len(audit.lines) = 0
    BY DEF Init, ApplyInit, AuditInit
  <2>2. \A f : Confirmed(f) = {}
    BY <2>1, ConfirmedIs DEF Lines
  <2> QED BY <2>1, <2>2, OwnerInitially DEF GoneInv
<1>2. GoneInv => ConfirmedMeansGone
  BY DEF GoneInv, ConfirmedMeansGone, UidsIn, Vanished
<1>3. IInv /\ GoneInv /\ [Next]_vars => GoneInv'
  BY GoneStep
<1> QED BY <1>1, <1>2, <1>3, InitHolds, StepHolds, PTL DEF Spec

-----------------------------------------------------------------------------
\* A star set before the run, and still there when the flags are read, is
\* honoured.

LEMMA UnstarredStays ==
  ASSUME NEW u, \A e \in mail'[folder] : e.uid = u => \E d \in mail[folder] : d.uid = u /\ d.msg = e.msg,
         folder' = folder, steady' \subseteq steady, Unstarred(u)
  PROVE  Unstarred(u)'
BY DEF Unstarred

\* Whatever is selected keeps its UIDs in every step.
LEMMA SelectedKeeps ==
  ASSUME IInv, [Next]_vars, NEW b \in Boxes, b = selected
  PROVE  KeepsUids(b) /\ uidnext[b] \in Nat /\ uidnext'[b] \in Nat
<1>1. uidnext[b] \in Nat /\ uidnext'[b] \in Nat
  BY NextGrows
<1>2. UNCHANGED <<mail, uidnext>> \/ MoveStep \/ OtherClient
  BY StepIsOne, ApplyFrame, UndoNextFrame, UndoStartFrame
     DEF ServerSame, serverVars, UndoFrame, Cancel, Crash, vars, mailVars
<1> QED BY <1>1, <1>2, Start, SameKeeps, MoveUIDsKeeps, UserClientKeeps DEF MoveStep, OtherClient

\* The clauses of SteadyInv about the folder at hand, in a step that stays in it.
Clean ==
  /\ pc = "identity" => \A u \in flagsSeen.present \ flagsSeen.starred :
                          u < uidnext[folder] /\ Unstarred(u)
  /\ pc \in InBatches => \A u \in queue : Unstarred(u)

LEMMA CleanStays ==
  ASSUME IInv, SteadyInv, [Next]_vars, steady' \subseteq steady,
         UNCHANGED <<folder, flagsSeen>>, queue' \subseteq queue,
         pc' = "identity" => pc = "identity", pc' \in InBatches => pc \in InBatches
  PROVE  Clean'
<1>1. pc' \in InBatches \cup {"identity"} => folder \in Boxes /\ folder = selected
  BY Start DEF FolderInv, InFolder, InBatches, Boxes
<1>2. ASSUME pc' \in InBatches \cup {"identity"}
      PROVE  /\ KeepsUids(folder) /\ uidnext[folder] \in Nat /\ uidnext'[folder] \in Nat
             /\ uidnext[folder] <= uidnext'[folder]
  <2>1. \A b \in Boxes : b = selected =>
          KeepsUids(b) /\ uidnext[b] \in Nat /\ uidnext'[b] \in Nat
    BY SelectedKeeps
  <2> QED BY <1>1, <1>2, <2>1 DEF KeepsUids
<1>3. ASSUME pc' \in InBatches \cup {"identity"}, NEW u \in Uids, u < uidnext[folder], Unstarred(u)
      PROVE  u < uidnext'[folder] /\ Unstarred(u)'
  <2>1. \A e \in mail'[folder] : e.uid = u => \E d \in mail[folder] : d.uid = u /\ d.msg = e.msg
    BY <1>2, <1>3 DEF KeepsUids
  <2>2. u < uidnext'[folder]
    BY <1>2, <1>3 DEF Uids
  <2> QED BY <1>3, <2>1, <2>2, UnstarredStays
<1>4. flagsSeen.present \subseteq Uids /\ queue \subseteq Uids
  BY Start DEF ApplyTypeOK
<1>5. ASSUME pc' \in InBatches, NEW u \in queue PROVE u < uidnext[folder] /\ Unstarred(u)
  BY <1>5, Start DEF BatchInv, Verified, SteadyInv
<1>6. ASSUME pc' = "identity", NEW u \in flagsSeen.present \ flagsSeen.starred
      PROVE  u < uidnext[folder] /\ Unstarred(u)
  BY <1>6 DEF SteadyInv
<1> QED BY <1>3, <1>4, <1>5, <1>6 DEF Clean

\* What apply's own steps do to steady, and where they go.
LEMMA ApplySteady ==
  ASSUME ApplyNext
  PROVE  \/ /\ pc = "prepared" /\ pc' \in {"refused", "failed"} /\ steady' = starred
         \/ steady' = steady
<1>1. ASSUME NEW f \in Folders, SkipFolder(f) \/ SelectFolder(f) PROVE steady' = steady
  BY <1>1 DEF SkipFolder, SelectFolder
<1>2. CASE OpenRun
  BY <1>2 DEF OpenRun, Goto
<1> QED BY <1>1, <1>2
        DEF ApplyNext, ApplyStep, Prepare, WriteRefused, UnsubscribePhase, StartDelete,
            EndFolders, FetchFlags, FetchIdentity, Abort, WriteIntent, SyncIntents, Confirm,
            MoveFailed, DropRows, Finish

LEMMA FlagsClear ==
  ASSUME IInv, SteadyInv, FetchFlags
  PROVE  Clean'
<1> DEFINE es == At(folder, UidsOf(RowsIn(folder)))
<1>1. /\ pc = "flags" /\ pc' = "identity"
      /\ flagsSeen' = [present |-> {e.uid : e \in es},
                       starred |-> {e.uid : e \in {x \in es : x.msg \in starred}}]
      /\ UNCHANGED <<mail, uidnext, folder, steady>>
  BY DEF FetchFlags, Goto, ServerSame, serverVars
<1>2. folder \in Boxes /\ steady \subseteq starred
  BY Start DEF ApplyTypeOK, SteadyInv
<1>3. ASSUME NEW u \in flagsSeen'.present \ flagsSeen'.starred
      PROVE  u < uidnext[folder] /\ Unstarred(u)
  <2>1. PICK d \in es : u = d.uid
    BY <1>1, <1>3
  <2>2. d \in mail[folder] /\ u \in UidsOf(RowsIn(folder))
    BY <2>1 DEF At
  <2>3. u < uidnext[folder]
    BY <1>2, <2>1, <2>2, Start DEF MailInv, UidsOK
  <2>4. ASSUME NEW e \in mail[folder], e.uid = u PROVE e.msg \notin steady
    <3>1. e \in es
      BY <2>2, <2>4 DEF At
    <3>2. e.msg \notin starred
      BY <1>1, <1>3, <2>4, <3>1
    <3> QED BY <1>2, <3>2
  <2> QED BY <2>3, <2>4 DEF Unstarred
<1> QED BY <1>1, <1>3 DEF Clean, Unstarred, InBatches

LEMMA IdentityClear ==
  ASSUME IInv, SteadyInv, FetchIdentity
  PROVE  Clean'
<1> DEFINE good == {r \in RowsIn(folder) : Eligible(r)}
<1>1. /\ pc = "identity" /\ pc' \in {"folder", "abort", "intent"}
      /\ queue' = UidsOf(good)
      /\ UNCHANGED <<mail, uidnext, folder, steady>>
  BY DEF FetchIdentity, Goto, ServerSame, serverVars
<1>2. ASSUME NEW u \in queue' PROVE Unstarred(u)
  <2>1. PICK r \in good : u = r.uid
    BY <1>1, <1>2 DEF UidsOf
  <2>2. u \in flagsSeen.present \ flagsSeen.starred
    BY <2>1 DEF Eligible, FlagsClean
  <2> QED BY <1>1, <2>2 DEF SteadyInv
<1> QED BY <1>1, <1>2 DEF Clean, Unstarred

LEMMA SteadyStep == IInv /\ SteadyInv /\ [Next]_vars => SteadyInv'
<1> SUFFICES ASSUME IInv, SteadyInv, [Next]_vars PROVE SteadyInv'
  OBVIOUS
<1>1. NoSteadyStar /\ steady \subseteq starred
  BY DEF SteadyInv
<1>2. CASE ApplyNext
  <2>1. UNCHANGED <<trashed, starred, mail, uidnext>>
    BY <1>2, ApplyFrame DEF ServerSame, serverVars
  <2>2. CASE pc = "prepared" /\ pc' \in {"refused", "failed"} /\ steady' = starred
    <3>1. trashed' = {}
      BY <2>1, <2>2, Start DEF CallInv, NotYet
    <3> QED BY <2>1, <2>2, <3>1 DEF SteadyInv, NoSteadyStar, InBatches
  <2>3. CASE steady' = steady
    <3>1. NoSteadyStar' /\ steady' \subseteq starred'
      BY <1>1, <2>1, <2>3 DEF NoSteadyStar
    <3>2. Clean'
      <4>1. CASE FetchFlags \/ FetchIdentity
        BY <4>1, FlagsClear, IdentityClear
      <4>2. ASSUME NEW f \in Folders, SkipFolder(f) \/ SelectFolder(f)
            PROVE  Clean'
        BY <4>2 DEF SkipFolder, SelectFolder, Goto, Clean, InBatches
      <4>3. CASE WriteIntent \/ SyncIntents \/ Confirm \/ DropRows
        <5>1. /\ UNCHANGED <<folder, flagsSeen>> /\ pc \in InBatches /\ pc' # "identity"
              /\ queue' \subseteq queue
          BY <4>3 DEF WriteIntent, SyncIntents, Confirm, DropRows, Goto, InBatches
        <5> QED BY <2>3, <5>1, CleanStays
      <4>4. CASE \/ Prepare \/ OpenRun \/ WriteRefused \/ UnsubscribePhase \/ StartDelete
                 \/ EndFolders \/ MoveFailed \/ Finish
                 \/ Abort("imap", "flags") \/ Abort("imap", "identity") \/ Abort("db", "rows")
        <5>1. pc' \notin InBatches \cup {"identity"}
          BY <4>4 DEF Prepare, OpenRun, WriteRefused, UnsubscribePhase, StartDelete, EndFolders,
                      MoveFailed, Finish, Abort, Goto, InBatches
        <5> QED BY <5>1 DEF Clean
      <4> QED BY <1>2, <4>1, <4>2, <4>3, <4>4 DEF ApplyNext, ApplyStep
    <3> QED BY <3>1, <3>2 DEF SteadyInv, Clean
  <2> QED BY <1>2, <2>2, <2>3, ApplySteady
<1>3. CASE MoveStep
  <2>1. /\ UNCHANGED <<pc, steady, folder, flagsSeen, queue>>
        /\ CallKept /\ InCall /\ starred' = starred
    BY <1>3, Start, MoveUIDsKeeps DEF MoveStep, applyVars, runVars
  <2>2. Clean'
    BY <2>1, CleanStays
  <2>3. ASSUME NEW t \in trashed', t \notin trashed PROVE t.msg \notin steady
    <3>1. mv.dst = Trash /\ \E e \in mail[mv.src] : e.uid \in mv.todo /\ t = Gone(mv.src, e)
      BY <2>1, <2>3 DEF CallKept
    <3>2. PICK e \in mail[mv.src] : e.uid \in mv.todo /\ t = Gone(mv.src, e)
      BY <3>1
    <3>3. pc = "moving" /\ mv.src = folder /\ mv.todo \subseteq Batch /\ Batch \subseteq queue
      BY <2>1, <3>1, Start, BoundsAreSubsets DEF InCall, BatchInv, Batch
    <3>4. Unstarred(e.uid)
      BY <3>2, <3>3 DEF SteadyInv, InBatches
    <3>5. t.msg = e.msg
      BY <3>2 DEF Gone
    <3> QED BY <3>2, <3>3, <3>4, <3>5 DEF Unstarred
  <2> QED BY <1>1, <2>1, <2>2, <2>3 DEF SteadyInv, NoSteadyStar, Clean
<1>4. CASE OtherClient
  <2>1. /\ UNCHANGED <<pc, folder, flagsSeen, queue, trashed>> /\ steady' = steady \cap starred'
    BY <1>4, ClientIs, ApplyRests DEF OtherClient
  <2>2. Clean'
    BY <2>1, CleanStays
  <2> QED BY <1>1, <2>1, <2>2 DEF SteadyInv, NoSteadyStar, Clean
<1>5. CASE UndoNext \/ Undo \/ Cancel \/ UNCHANGED vars
  <2>1. UNCHANGED <<pc, steady, folder, flagsSeen, queue, trashed, starred>>
    BY <1>5, UndoNextFrame, UndoStartFrame
       DEF UndoFrame, Cancel, vars, mailVars, applyVars, runVars, serverVars
  <2>2. Clean'
    BY <2>1, CleanStays
  <2> QED BY <1>1, <2>1, <2>2 DEF SteadyInv, NoSteadyStar, Clean
<1>6. CASE Crash
  <2>1. UNCHANGED <<steady, trashed, starred>> /\ pc' \notin InBatches \cup {"identity"}
    BY <1>6, Start DEF Crash, serverVars, Busy, Running, CallInv, UndoRunning, RunEnded, InBatches
  <2> QED BY <1>1, <2>1 DEF SteadyInv, NoSteadyStar
<1> QED BY <1>2, <1>3, <1>4, <1>5, <1>6, StepIsOne

\* A message that was starred when the run was started, and still is when the
\* folder's flags are read, is never moved: also when its mailbox changes
\* between the two FETCHes, or is rebuilt while another one is selected
\* (FetchFlags, ineligible).
THEOREM NoSteadyStarHolds == Spec => []NoSteadyStar
<1>1. Init => SteadyInv
  BY DEF Init, MailInit, ApplyInit, SteadyInv, NoSteadyStar, InBatches
<1>2. SteadyInv => NoSteadyStar
  BY DEF SteadyInv
<1> QED BY <1>1, <1>2, InitHolds, StepHolds, SteadyStep, PTL DEF Spec

-----------------------------------------------------------------------------
\* Every target is accounted for.

\* What is accounted for stays so as long as the log keeps its lines.
LEMMA AccountedStays ==
  ASSUME AuditTypeOK, AuditTypeOK', KeepsLines, NEW r, Accounted(r)
  PROVE  Accounted(r)'
<1>1. \A i \in Lines : i \in Lines' /\ audit'.lines[i] = audit.lines[i]
  BY DEF AuditTypeOK, KeepsLines, Lines
<1>2. CASE r.uid \in Confirmed(r.folder)
  <2>1. PICK i \in Lines : /\ IsConfirmation(i) /\ audit.lines[i].folder = r.folder
                           /\ r.uid \in audit.lines[i].uids
    BY <1>2 DEF Confirmed
  <2>2. r.uid \in Confirmed(r.folder)'
    BY <1>1, <2>1 DEF Confirmed, IsConfirmation
  <2> QED BY <2>2 DEF Accounted
<1>3. CASE \E i \in Lines : /\ audit.lines[i].action = "skip" /\ audit.lines[i].folder = r.folder
                            /\ r.uid \in audit.lines[i].uids
  BY <1>1, <1>3 DEF Accounted
<1> QED BY <1>2, <1>3 DEF Accounted

\* A skip line accounts for its UIDs.
LEMMA SkipAccounts ==
  ASSUME AuditTypeOK, AuditTypeOK', NEW f, NEW U, Appended(SkipLine(f, U)),
         NEW r, r.folder = f, r.uid \in U
  PROVE  Accounted(r)'
<1>1. Len(audit.lines) + 1 \in Lines'
  BY DEF AuditTypeOK, Appended, Lines
<1>2. audit'.lines[Len(audit.lines) + 1] = SkipLine(f, U)
  BY DEF Appended
<1>3. /\ SkipLine(f, U).action = "skip" /\ SkipLine(f, U).folder = f /\ SkipLine(f, U).uids = U
  BY DEF SkipLine, NewLine
<1> QED BY <1>1, <1>2, <1>3 DEF Accounted

Asked == trashOk /\ ~auErr /\ undos = 0
InDelete == pc \in InFolder \cup {"folder", "finish", "done"}

LEMMA AccountSkips ==
  ASSUME IInv, AccountInv, AuditTypeOK', NEW f \in Folders, SkipFolder(f), Asked, Asked',
         KeepsLines, NEW r \in targets'
  PROVE  Pending(r)'
<1>1. /\ pc = "folder" /\ todo' = todo \ {f} /\ f \in todo /\ pc' = "folder" /\ targets' = targets
      /\ Put(SkipLine(f, UidsOf(RowsIn(f)))) \/ Write(SkipLine(f, UidsOf(RowsIn(f))))
  BY DEF SkipFolder
<1>2. AuditTypeOK /\ Appended(SkipLine(f, UidsOf(RowsIn(f))))
  BY <1>1, Start, WriteIs DEF Asked
<1>3. CASE r.folder = f
  <2>1. r.uid \in UidsOf(RowsIn(f))
    BY <1>1, <1>3 DEF UidsOf, RowsIn
  <2>2. Accounted(r)'
    BY <1>2, <1>3, <2>1, SkipAccounts
  <2> QED BY <2>2 DEF Pending
<1>4. CASE r.folder # f
  <2>1. Pending(r)
    BY <1>1 DEF AccountInv, Asked
  <2>2. CASE Accounted(r)
    <3>1. Accounted(r)'
      BY <1>2, <2>2, AccountedStays
    <3> QED BY <3>1 DEF Pending
  <2>3. CASE r.folder \in todo
    BY <1>1, <1>4, <2>3 DEF Pending
  <2> QED BY <1>1, <2>1, <2>2, <2>3 DEF Pending, AtHand, InFolder
<1> QED BY <1>3, <1>4

LEMMA AccountIdentity ==
  ASSUME IInv, AccountInv, AuditTypeOK', FetchIdentity, Asked, Asked', KeepsLines,
         pc' # "abort", NEW r \in targets'
  PROVE  Pending(r)'
<1> DEFINE good == {x \in RowsIn(folder) : Eligible(x)}
           l == SkipLine(folder, UidsOf(RowsIn(folder) \ good))
<1>1. /\ pc = "identity" /\ pc' = (IF good = {} THEN "folder" ELSE "intent")
      /\ UNCHANGED <<targets, folder, todo>>
      /\ queue' = UidsOf(good)
      /\ good = RowsIn(folder) \/ Write(l)
  BY DEF FetchIdentity, Goto
<1>2. AuditTypeOK /\ Pending(r)
  BY <1>1, Start DEF AccountInv, Asked, InFolder
<1>3. CASE Accounted(r)
  <2>1. Accounted(r)'
    BY <1>2, <1>3, AccountedStays
  <2> QED BY <2>1 DEF Pending
<1>4. CASE r.folder \in todo
  BY <1>1, <1>4 DEF Pending, InFolder
<1>5. CASE r.folder = folder
  <2>1. r \in RowsIn(folder)
    BY <1>1, <1>5 DEF RowsIn
  <2>2. CASE r \in good
    <3>1. r.uid \in queue' /\ pc' = "intent"
      BY <1>1, <2>2 DEF UidsOf
    <3> QED BY <1>1, <1>5, <3>1 DEF Pending, AtHand, InFolder
  <2>3. CASE r \notin good
    <3>1. Write(l) /\ r.uid \in UidsOf(RowsIn(folder) \ good)
      BY <1>1, <2>1, <2>3 DEF UidsOf
    <3> HIDE DEF good
    <3>2. Appended(l)
      BY <1>2, <3>1, WriteIs DEF Asked
    <3>3. Accounted(r)'
      BY <1>2, <1>5, <3>1, <3>2, SkipAccounts
    <3> QED BY <3>3 DEF Pending
  <2> QED BY <2>2, <2>3
<1> QED BY <1>1, <1>2, <1>3, <1>4, <1>5 DEF Pending, AtHand

LEMMA AccountDrops ==
  ASSUME IInv, RecordInv, AccountInv, AuditTypeOK', DropRows, Asked, KeepsLines,
         NEW r \in targets'
  PROVE  Pending(r)'
<1>1. /\ pc = "rows" /\ pc' = (IF queue' = {} THEN "folder" ELSE "intent")
      /\ UNCHANGED <<targets, folder, todo, audit>>
      /\ queue' = queue \ Batch
  BY DEF DropRows, Goto, auditVars
<1>2. AuditTypeOK /\ Pending(r)
  BY <1>1, Start DEF AccountInv, Asked, InFolder
<1>3. ASSUME Accounted(r) PROVE Pending(r)'
  <2>1. Accounted(r)'
    BY <1>2, <1>3, AccountedStays
  <2> QED BY <2>1 DEF Pending
<1>4. CASE r.folder \in todo
  BY <1>1, <1>4 DEF Pending, InFolder
<1>5. CASE r.folder = folder /\ r.uid \in queue
  <2>1. CASE r.uid \in Batch
    <3>1. PICK i \in 1 .. audit.synced : audit.lines[i] = Confirmation(folder, Batch)
      BY <1>1 DEF RecordInv
    <3>2. i \in Lines /\ IsConfirmation(i) /\ audit.lines[i].folder = r.folder
          /\ r.uid \in audit.lines[i].uids
      BY <1>2, <1>5, <2>1, <3>1 DEF Lines, AuditTypeOK, IsConfirmation, Confirmation, NewLine
    <3>3. Accounted(r)
      BY <3>2, ConfirmedIs DEF Accounted
    <3> QED BY <1>3, <3>3
  <2>2. CASE r.uid \notin Batch
    BY <1>1, <1>5, <2>2 DEF Pending, AtHand, InFolder
  <2> QED BY <2>1, <2>2
<1> QED BY <1>1, <1>2, <1>3, <1>4, <1>5 DEF Pending, AtHand

\* The steps of apply that leave every target where it is, or take it along.
LEMMA AccountCarries ==
  ASSUME IInv, AccountInv, AuditTypeOK', KeepsLines, Asked, InDelete, NEW r \in targets,
         \/ /\ UNCHANGED <<folder, todo, queue>>
            /\ pc' = pc \/ (pc = "flags" /\ pc' = "identity")
               \/ (pc \in InBatches /\ pc' \in InBatches)
         \/ pc = "folder" /\ pc' = "finish" /\ todo = {}
         \/ pc = "finish" /\ pc' = "done"
         \/ \E f \in todo : pc = "folder" /\ pc' = "flags" /\ folder' = f /\ todo' = todo \ {f}
  PROVE  Pending(r)'
<1>1. Pending(r) /\ AuditTypeOK
  BY Start DEF AccountInv, Asked, InDelete
<1>2. CASE Accounted(r)
  <2>1. Accounted(r)'
    BY <1>1, <1>2, AccountedStays
  <2> QED BY <2>1 DEF Pending
<1> QED BY <1>1, <1>2 DEF Pending, AtHand, InFolder, InBatches

LEMMA AccountApply ==
  ASSUME IInv, RecordInv, AccountInv, ApplyNext, AuditTypeOK', Asked', InDelete',
         NEW r \in targets'
  PROVE  Pending(r)'
<1>1. /\ KeepsLines /\ ~auErr /\ undos = 0
  BY Start, ApplyFrame, LogStepIs, ConfirmIs DEF Asked, undoVars
<1>2. CASE Prepare \/ OpenRun \/ WriteRefused \/ MoveFailed
           \/ Abort("imap", "flags") \/ Abort("imap", "identity") \/ Abort("db", "rows")
  BY <1>2 DEF Prepare, OpenRun, WriteRefused, MoveFailed, Abort, Goto, InDelete, InFolder
<1>3. CASE UnsubscribePhase
  <2>1. pc = "unsubscribe" /\ targets' = targets
    BY <1>3 DEF UnsubscribePhase
  <2>2. targets' = {}
    BY <2>1, Start DEF RowsInv, NotYet
  <2> QED BY <2>2
<1>4. CASE StartDelete
  <2>1. trashOk' /\ trashOk /\ pc' # "abort"
    BY <1>4 DEF StartDelete, Asked, InDelete, InFolder
  <2>2. todo' = {x.folder : x \in targets'} /\ pc' = "folder"
    BY <1>4, <2>1, Zenon DEF StartDelete, Goto
  <2>3. r.folder \in todo'
    BY <2>2
  <2> QED BY <2>2, <2>3 DEF Pending
<1>5. ASSUME NEW f \in Folders, SkipFolder(f) PROVE Pending(r)'
  <2>1. trashOk' = trashOk
    BY <1>5 DEF SkipFolder
  <2> QED BY <1>1, <1>5, <2>1, AccountSkips DEF Asked
<1>6. CASE FetchIdentity
  <2>1. trashOk' = trashOk /\ pc' # "abort"
    BY <1>6 DEF FetchIdentity, InDelete, InFolder
  <2> QED BY <1>1, <1>6, <2>1, AccountIdentity DEF Asked
<1>7. CASE DropRows
  <2>1. trashOk' = trashOk
    BY <1>7 DEF DropRows
  <2> QED BY <1>1, <1>7, <2>1, AccountDrops DEF Asked
<1>8. ASSUME NEW f \in Folders, SelectFolder(f) PROVE Pending(r)'
  <2>1. /\ UNCHANGED <<trashOk, targets>> /\ f \in todo
        /\ pc = "folder" /\ pc' = "flags" /\ folder' = f /\ todo' = todo \ {f}
    BY <1>8 DEF SelectFolder, Goto
  <2>2. Asked /\ InDelete
    BY <1>1, <2>1 DEF Asked, InDelete
  <2> QED BY <1>1, <2>1, <2>2, AccountCarries
<1>9. CASE FetchFlags \/ WriteIntent \/ SyncIntents \/ Confirm
  <2>1. /\ UNCHANGED <<trashOk, targets, folder, todo, queue>>
        /\ pc' = "abort" \/ pc' = pc \/ (pc = "flags" /\ pc' = "identity")
           \/ (pc \in InBatches /\ pc' \in InBatches)
    BY <1>9 DEF FetchFlags, WriteIntent, SyncIntents, Confirm, Goto, InBatches
  <2>2. pc' # "abort"
    BY DEF InDelete, InFolder
  <2>3. Asked /\ InDelete
    BY <1>1, <1>9, <2>1 DEF Asked, InDelete, FetchFlags, WriteIntent, SyncIntents, Confirm, InFolder
  <2> QED BY <1>1, <2>1, <2>2, <2>3, AccountCarries
<1>10. CASE EndFolders \/ Finish
  <2>1. /\ UNCHANGED <<trashOk, targets>>
        /\ \/ pc' \in {"abort", "stopped"}
           \/ pc = "folder" /\ pc' = "finish" /\ todo = {}
           \/ pc = "finish" /\ pc' = "done"
    BY <1>10 DEF EndFolders, Finish, Goto
  <2>2. pc' \notin {"abort", "stopped"}
    BY DEF InDelete, InFolder
  <2>3. Asked /\ InDelete
    BY <1>1, <2>1, <2>2 DEF Asked, InDelete
  <2> QED BY <1>1, <2>1, <2>2, <2>3, AccountCarries
<1> QED BY <1>2, <1>3, <1>4, <1>5, <1>6, <1>7, <1>8, <1>9, <1>10 DEF ApplyNext, ApplyStep

LEMMA AccountStep == IInv /\ RecordInv /\ AccountInv /\ [Next]_vars => AccountInv'
<1> SUFFICES ASSUME IInv, RecordInv, AccountInv, [Next]_vars PROVE AccountInv'
  OBVIOUS
<1>1. AuditTypeOK /\ AuditTypeOK'
  BY StepHolds, Start DEF IInv, TypeOK
<1>2. undos' = 0 => undos = 0 /\ upc' = "none" /\ ~Undo /\ ~UndoNext
  <2>1. undos \in Nat /\ (undos = 0 => upc = "none")
    BY Start, UndoAssumption DEF UndoTypeOK, AccountInv
  <2>2. CASE Undo
    BY <2>1, <2>2, UndoStartFrame
  <2>3. CASE UndoNext
    BY <2>1, <2>3, UndoNextFrame DEF UndoRunning
  <2>4. CASE Crash
    <3>1. undos' = undos /\ (upc = "none" => upc' = "none")
      BY <2>4 DEF Crash, UndoRunning
    <3>2. ASSUME undos' = 0 PROVE ~Undo /\ ~UndoNext
      BY <2>1, <3>1, <3>2, UndoStartFrame, UndoNextFrame DEF UndoRunning
    <3> QED BY <2>1, <3>1, <3>2
  <2>5. CASE ApplyNext \/ MoveStep \/ OtherClient \/ Cancel \/ UNCHANGED vars
    <3>1. UNCHANGED <<undos, upc>>
      BY <2>5, ApplyFrame DEF undoVars, MoveStep, OtherClient, Cancel, vars
    <3>2. ASSUME undos' = 0 PROVE ~Undo /\ ~UndoNext
      BY <2>1, <3>1, <3>2, UndoStartFrame, UndoNextFrame DEF UndoRunning
    <3> QED BY <2>1, <3>1, <3>2
  <2> QED BY <2>2, <2>3, <2>4, <2>5, StepIsOne
<1>3. SUFFICES ASSUME Asked', InDelete', NEW r \in targets' PROVE Pending(r)'
  BY <1>2 DEF AccountInv, Asked, InDelete
<1>4. CASE ApplyNext
  BY <1>1, <1>3, <1>4, AccountApply
<1>5. CASE Crash
  <2>1. ~UndoRunning /\ RunEnded'
    BY <1>2, <1>3, <1>5, Start DEF Asked, AccountInv, UndoRunning, Crash, Busy, Running, RunEnded
  <2>2. pc' = "crashed"
    BY <1>5, <2>1 DEF Crash, Busy
  <2> QED BY <1>3, <2>2 DEF InDelete, InFolder
<1>6. CASE MoveStep \/ OtherClient \/ Cancel \/ UNCHANGED vars
  <2>1. UNCHANGED <<pc, trashOk, targets, todo, folder, queue>> /\ UNCHANGED <<audit, auErr, undos>>
    BY <1>6, ApplyRests DEF MoveStep, OtherClient, Cancel, vars, auditVars, undoVars
  <2>2. Asked /\ InDelete /\ KeepsLines
    BY <1>1, <1>3, <2>1, SameLog DEF Asked, InDelete, auditVars
  <2> QED BY <1>1, <1>3, <2>1, <2>2, AccountCarries
<1>7. ~Undo /\ ~UndoNext
  BY <1>2, <1>3 DEF Asked
<1> QED BY <1>4, <1>5, <1>6, <1>7, StepIsOne

\* A run that ends without an error and with its log intact has, for every
\* message it was to delete, a confirmation or a skip on record, whatever the
\* batches, the folders and the other client did (Execute, deleteFolder).
THEOREM AllAccountedHolds == Spec => []AllAccounted
<1>1. Init => RecordInv /\ AccountInv
  BY DEF Init, ApplyInit, UndoInit, RecordInv, RowsOutliveRecord, AccountInv, InFolder
<1>2. IInv /\ AccountInv => AllAccounted
  BY DEF AccountInv, AllAccounted, Pending, AtHand, InFolder
<1> QED BY <1>1, <1>2, InitHolds, StepHolds, RecordStep, AccountStep, PTL DEF Spec

-----------------------------------------------------------------------------
\* Every operation comes to an end: what it still has to do shrinks.

\* A batch of something is something.
LEMMA LowestSome ==
  ASSUME NEW U \in SUBSET Nat, U # {}, NEW n \in Nat \ {0}
  PROVE  Lowest(U, n) # {}
<1>1. PICK u \in U : \A v \in U : u <= v
  BY LeastOfNaturals
<1>2. {v \in U : v < u} = {}
  <2>1. \A v \in U : v \in Nat /\ ~(v < u)
    BY <1>1
  <2> QED BY <2>1
<1>3. Cardinality({v \in U : v < u}) = 0
  BY <1>2, FS_EmptySet
<1> QED BY <1>1, <1>3 DEF Lowest

\* The command of a call that comes next: what it does to the call.
CallEnds == mv' = [mv EXCEPT !.pc = "err"]
CallCopies == mv.pc = "chunk" /\ mv' = [mv EXCEPT !.pc = "store", !.chunk = Chunk]
CallStores == mv.pc = "store" /\ mv' = [mv EXCEPT !.pc = "expunge"]
CallGoesOn ==
  \/ mv.pc = "chunk" /\ ChunkDone(Chunk)
  \/ mv.pc = "expunge" /\ ChunkDone(mv.chunk)
LEMMA CallMoves ==
  ASSUME MoveUIDs
  PROVE  CallOut /\ (CallEnds \/ CallCopies \/ CallStores \/ CallGoesOn)
BY DEF MoveUIDs, RefuseMove, UidMove, UidCopy, UidStore, UidExpunge, MoveError, CallOut,
       CallEnds, CallCopies, CallStores, CallGoesOn

\* Each command of it leaves less to do for every UID, and nothing for one of
\* them that there was before.
LEMMA CallLowers ==
  ASSUME mv \in Calls, CallBusy, MoveUIDs
  PROVE  /\ CallBusy' /\ mv'.dst = mv.dst /\ mv'.todo \subseteq mv.todo
         /\ \A u : CallLeft(u)' \subseteq CallLeft(u)
         /\ \E u \in mv.todo : CallLeft(u)' # CallLeft(u)
<1>1. CallOut /\ mv.todo \subseteq Nat /\ mv.todo \subseteq Uids
  BY CallMoves DEF Calls, Uids
<1>2. mv.pc = "chunk" => Chunk # {} /\ Chunk \subseteq mv.todo
  BY <1>1, LowestSome, BoundsAreSubsets, BoundAssumption DEF Chunk, CallBusy
<1>3. /\ mv.pc = "chunk" => mv.chunk = {}
      /\ mv.pc \in {"store", "expunge"} => mv.chunk # {} /\ mv.chunk \subseteq mv.todo
      /\ mv.pc = "chunk" => mv.todo # {}
      /\ mv.pc \in {"chunk", "store", "expunge"}
  BY <1>1 DEF CallBusy, CallOut
<1>4. CASE CallEnds
  <2>1. mv'.pc = "err" /\ mv'.todo = mv.todo /\ mv'.dst = mv.dst
    BY <1>4 DEF CallEnds, Calls
  <2>2. \A u : CallLeft(u)' = {}
    BY <2>1 DEF CallLeft, CallOut
  <2>3. \A u \in mv.todo : CallLeft(u) # {}
    BY <1>1 DEF CallLeft, MoveWork
  <2>4. mv.todo # {}
    BY <1>3
  <2> QED BY <2>1, <2>2, <2>3, <2>4 DEF CallBusy
<1>5. CASE CallCopies
  <2>1. /\ mv'.pc = "store" /\ mv'.todo = mv.todo /\ mv'.chunk = Chunk /\ mv'.dst = mv.dst
        /\ Chunk # {} /\ Chunk \subseteq mv.todo /\ mv.chunk = {} /\ mv.pc = "chunk"
    BY <1>2, <1>3, <1>5 DEF CallCopies, Calls
  <2>2. \A u : CallLeft(u)' \subseteq CallLeft(u)
    BY <1>1, <2>1 DEF CallLeft, CallOut, MoveWork
  <2>3. \A u \in Chunk : "copy" \in CallLeft(u) /\ "copy" \notin CallLeft(u)'
    BY <1>1, <2>1 DEF CallLeft, CallOut, MoveWork
  <2> QED BY <2>1, <2>2, <2>3 DEF CallBusy
<1>6. CASE CallStores
  <2>1. /\ mv'.pc = "expunge" /\ mv'.todo = mv.todo /\ mv'.chunk = mv.chunk /\ mv'.dst = mv.dst
        /\ mv.chunk # {} /\ mv.chunk \subseteq mv.todo /\ mv.pc = "store"
    BY <1>3, <1>6 DEF CallStores, Calls
  <2>2. \A u : CallLeft(u)' \subseteq CallLeft(u)
    BY <1>1, <2>1 DEF CallLeft, CallOut, MoveWork
  <2>3. \A u \in mv.chunk : "store" \in CallLeft(u) /\ "store" \notin CallLeft(u)'
    BY <1>1, <2>1 DEF CallLeft, CallOut, MoveWork
  <2> QED BY <2>1, <2>2, <2>3 DEF CallBusy
<1>7. CASE CallGoesOn
  <2>1. PICK c : /\ (c = Chunk /\ mv.pc = "chunk") \/ (c = mv.chunk /\ mv.pc = "expunge")
                 /\ ChunkDone(c)
    <3>1. CASE mv.pc = "chunk" /\ ChunkDone(Chunk)
      BY <3>1
    <3>2. CASE mv.pc = "expunge" /\ ChunkDone(mv.chunk)
      BY <3>2
    <3> QED BY <1>7, <3>1, <3>2 DEF CallGoesOn
  <2>2. c # {} /\ c \subseteq mv.todo
    BY <1>2, <1>3, <2>1
  <2>3. /\ mv'.todo = mv.todo \ c /\ mv'.chunk = {} /\ mv'.dst = mv.dst
        /\ mv'.pc = IF mv.todo \ c = {} THEN "ok" ELSE "chunk"
    BY <2>1 DEF ChunkDone, Calls
  <2>4. \A u : CallLeft(u)' \subseteq CallLeft(u)
    BY <1>1, <2>1, <2>3, <1>3 DEF CallLeft, CallOut, MoveWork
  <2>5. \A u \in c : "expunge" \in CallLeft(u) /\ "expunge" \notin CallLeft(u)'
    BY <1>1, <1>3, <2>1, <2>2, <2>3 DEF CallLeft, CallOut, MoveWork
  <2> QED BY <2>2, <2>3, <2>4, <2>5 DEF CallBusy
<1> QED BY <1>4, <1>5, <1>6, <1>7, CallMoves

-----------------------------------------------------------------------------
\* What a run's steps do to what it still has to do.

RunSame == UNCHANGED <<todo, folder, queue, intents>>
Turns(from, to) == pc \in from /\ pc' \in to /\ mv' = mv /\ RunSame

NewBatch(U) == queue' = U /\ U # {} /\ intents' = Lowest(U, MoveBatch) /\ pc' = "intent"

\* The folders come.
ToFolders ==
  /\ pc = "targets" /\ pc' \in {"folder", "finish", "abort"} /\ mv' = mv
  /\ UNCHANGED <<folder, queue, intents>>
\* One of them is passed over, or taken up.
PassesOver ==
  /\ pc = "folder" /\ pc' = "folder" /\ mv' = mv /\ UNCHANGED <<folder, queue, intents>>
  /\ \E f \in todo \cap Folders : todo' = todo \ {f}
TakesUp ==
  /\ pc = "folder" /\ pc' = "flags" /\ mv' = mv /\ UNCHANGED <<queue, intents>>
  /\ \E f \in todo \cap Folders : todo' = todo \ {f} /\ folder' = f
\* Its batches: what is eligible, recorded, moved, confirmed and dropped.
Queues ==
  /\ pc = "identity" /\ mv' = mv /\ UNCHANGED <<todo, folder>>
  /\ pc' \in {"folder", "abort"} \/ NewBatch(queue')
RecordsOne ==
  /\ pc = "intent" /\ pc' = "intent" /\ mv' = mv /\ UNCHANGED <<todo, folder, queue>>
  /\ \E u \in intents : intents' = intents \ {u}
Calls4Batch ==
  /\ pc = "intent" /\ intents = {} /\ RunSame
  /\ \/ pc' = "moving" /\ MoveCall(folder, Trash, Batch)
     \/ pc' = "abort" /\ mv' = mv
Returns ==
  /\ pc = "moving" /\ RunSame /\ mv' = Idle
  /\ pc' = "rows" \/ pc' = "abort"
Drops ==
  /\ pc = "rows" /\ mv' = mv /\ UNCHANGED <<todo, folder>>
  /\ queue' = queue \ Batch
  /\ pc' = "folder" \/ NewBatch(queue \ Batch)

RunTurn ==
  \/ Turns({"refused"}, {"unsubscribe", "failed"})
  \/ Turns({"unsubscribe"}, {"targets", "finish"})
  \/ ToFolders
  \/ Turns({"folder"}, {"finish", "abort"})
  \/ PassesOver \/ TakesUp
  \/ Turns({"flags"}, {"identity"})
  \/ Turns({"flags", "identity", "rows"}, {"abort"})
  \/ Queues \/ RecordsOne \/ Calls4Batch \/ Returns \/ Drops
  \/ Turns({"finish", "abort"}, {"done", "stopped"})

LEMMA RunTurns ==
  ASSUME ApplyNext, Running
  PROVE  RunTurn
<1>1. pc \notin {"review", "prepared"}
  BY DEF Running
<1>2. CASE WriteRefused \/ UnsubscribePhase
  BY <1>2 DEF WriteRefused, UnsubscribePhase, RunTurn, Turns, RunSame, Goto
<1>3. CASE StartDelete
  BY <1>3 DEF StartDelete, RunTurn, ToFolders, Goto
<1>4. CASE EndFolders \/ Finish \/ FetchFlags
  BY <1>4 DEF EndFolders, Finish, FetchFlags, RunTurn, Turns, RunSame, Goto
<1>5. CASE \E f \in Folders : SkipFolder(f)
  BY <1>5 DEF SkipFolder, RunTurn, PassesOver
<1>6. CASE \E f \in Folders : SelectFolder(f)
  BY <1>6 DEF SelectFolder, RunTurn, TakesUp, Goto
<1>7. CASE Abort("imap", "flags") \/ Abort("imap", "identity") \/ Abort("db", "rows")
  BY <1>7 DEF Abort, RunTurn, Turns, RunSame, Goto
<1>8. CASE FetchIdentity
  <2> DEFINE good == {r \in RowsIn(folder) : Eligible(r)}
  <2>1. /\ pc = "identity" /\ mv' = mv /\ UNCHANGED <<todo, folder>>
        /\ queue' = UidsOf(good) /\ intents' = Lowest(queue', MoveBatch)
        /\ pc' = IF good = {} THEN "folder" ELSE IF auErr' THEN "abort" ELSE "intent"
    BY <1>8 DEF FetchIdentity, Goto
  <2>2. good # {} => queue' # {}
    BY <2>1 DEF UidsOf
  <2> QED BY <2>1, <2>2 DEF RunTurn, Queues, NewBatch
<1>9. CASE WriteIntent
  BY <1>9 DEF WriteIntent, RunTurn, RecordsOne
<1>10. CASE SyncIntents
  BY <1>10 DEF SyncIntents, RunTurn, Calls4Batch, RunSame, Goto
<1>11. CASE Confirm \/ MoveFailed
  BY <1>11 DEF Confirm, MoveFailed, RunTurn, Returns, RunSame, Goto
<1>12. CASE DropRows
  BY <1>12 DEF DropRows, RunTurn, Drops, NewBatch, Goto
<1> QED BY <1>1, <1>2, <1>3, <1>4, <1>5, <1>6, <1>7, <1>8, <1>9, <1>10, <1>11, <1>12
        DEF ApplyNext, ApplyStep, Prepare, OpenRun

LEMMA BatchSome ==
  ASSUME IInv, RunBusy, pc \in InBatches
  PROVE  Batch # {} /\ Batch \subseteq queue
<1>1. queue \subseteq Nat /\ queue # {}
  BY Start DEF ApplyTypeOK, RunBusy, Uids
<1> QED BY <1>1, LowestSome, BoundsAreSubsets, PlanAssumption DEF Batch

LEMMA TurnBusy ==
  ASSUME IInv, RunBusy, CallBusy, RunTurn
  PROVE  RunBusy' /\ CallBusy'
<1>1. \A U : NewBatch(U) => /\ pc' = "intent" /\ queue' = U /\ U # {} /\ intents' = Batch'
  BY DEF NewBatch, Batch
<1>3. CASE ToFolders
  BY <1>3 DEF ToFolders, RunBusy, CallBusy, InFolder, InBatches
<1>4. CASE PassesOver \/ TakesUp
  BY <1>4 DEF PassesOver, TakesUp, RunBusy, CallBusy, InFolder, InBatches
<1>5. CASE Queues
  BY <1>1, <1>5 DEF Queues, RunBusy, CallBusy, InFolder, InBatches
<1>6. CASE RecordsOne
  BY <1>6 DEF RecordsOne, RunBusy, CallBusy, InFolder, InBatches, Batch
<1>7. CASE Calls4Batch
  <2>1. Batch # {} /\ queue # {} /\ folder \notin todo
    BY <1>7, BatchSome DEF Calls4Batch, RunBusy, InBatches, InFolder
  <2>2. CASE pc' = "moving" /\ MoveCall(folder, Trash, Batch)
    <3>1. mv'.pc = "chunk" /\ mv'.todo = Batch /\ mv'.chunk = {}
      BY <2>2 DEF MoveCall
    <3> QED BY <1>7, <2>1, <2>2, <3>1 DEF Calls4Batch, RunSame, RunBusy, CallBusy
  <2>3. CASE pc' = "abort" /\ mv' = mv
    BY <2>3 DEF RunBusy, CallBusy, InFolder, InBatches
  <2> QED BY <1>7, <2>2, <2>3 DEF Calls4Batch
<1>8. CASE Returns
  <2>1. mv'.pc = "idle"
    BY <1>8 DEF Returns, Idle
  <2> QED BY <1>8, <2>1 DEF Returns, RunSame, RunBusy, CallBusy, InFolder, InBatches
<1>9. CASE Drops
  BY <1>1, <1>9 DEF Drops, RunBusy, CallBusy, InFolder, InBatches
<1>10. CASE \/ Turns({"refused"}, {"unsubscribe", "failed"})
            \/ Turns({"unsubscribe"}, {"targets", "finish"})
            \/ Turns({"folder"}, {"finish", "abort"})
            \/ Turns({"flags"}, {"identity"})
            \/ Turns({"flags", "identity", "rows"}, {"abort"})
            \/ Turns({"finish", "abort"}, {"done", "stopped"})
  BY <1>10 DEF Turns, RunSame, RunBusy, CallBusy, Batch, InFolder, InBatches
<1> QED BY <1>3, <1>4, <1>5, <1>6, <1>7, <1>8, <1>9, <1>10 DEF RunTurn

\* Membership in the sets of steps.
LEMMA PairIs ==
  ASSUME NEW p, NEW S
  PROVE  /\ \A q, s : <<q, s>> \in {p} \X S <=> q = p /\ s \in S
         /\ \A x \in {p} \X S : \E s \in S : x = <<p, s>>
OBVIOUS

PhaseTokens(P) == {<<Trash, 0>>} \X P
FolderTokens(F) == UNION {{<<f, 0>>} \X F[f] : f \in Folders}
UidTokens(U) == UNION {{<<r.folder, r.uid>>} \X U[r] : r \in ScannedRows}
Tokens(P, F, U) == PhaseTokens(P) \cup FolderTokens(F) \cup UidTokens(U)
LEMMA TokensAre ==
  ASSUME NEW P, NEW F, NEW U
  PROVE  /\ \A b, u, s : <<<<b, u>>, s>> \in Tokens(P, F, U) <=>
              \/ b = Trash /\ u = 0 /\ s \in P
              \/ b \in Folders /\ u = 0 /\ s \in F[b]
              \/ \E r \in ScannedRows : b = r.folder /\ u = r.uid /\ s \in U[r]
         /\ \A x \in Tokens(P, F, U) : \E b, u, s : x = <<<<b, u>>, s>>
<1> DEFINE A == PhaseTokens(P)
           B == FolderTokens(F)
           C == UidTokens(U)
<1>1. Tokens(P, F, U) = A \cup B \cup C
  BY Zenon DEF Tokens
<1>2. /\ \A q, s : <<q, s>> \in A <=> q = <<Trash, 0>> /\ s \in P
      /\ \A x \in A : \E q, s : x = <<q, s>> /\ q = <<Trash, 0>>
  BY PairIs DEF PhaseTokens
<1>3. /\ \A q, s : <<q, s>> \in B <=> \E f \in Folders : q = <<f, 0>> /\ s \in F[f]
      /\ \A x \in B : \E q, s : x = <<q, s>> /\ \E f : q = <<f, 0>>
  <2>1. \A x : x \in B <=> \E f \in Folders : x \in {<<f, 0>>} \X F[f]
    BY DEF FolderTokens
  <2> HIDE DEF B
  <2> QED BY <2>1, PairIs
<1>4. /\ \A q, s : <<q, s>> \in C <=> \E r \in ScannedRows : q = <<r.folder, r.uid>> /\ s \in U[r]
      /\ \A x \in C : \E q, s : x = <<q, s>> /\ \E r : q = <<r.folder, r.uid>>
  <2>1. \A x : x \in C <=> \E r \in ScannedRows : x \in {<<r.folder, r.uid>>} \X U[r]
    BY DEF UidTokens
  <2> HIDE DEF C
  <2> QED BY <2>1, PairIs
<1> HIDE DEF A, B, C
<1>5. ASSUME NEW b, NEW u, NEW s
      PROVE  <<<<b, u>>, s>> \in Tokens(P, F, U) <=>
              \/ b = Trash /\ u = 0 /\ s \in P
              \/ b \in Folders /\ u = 0 /\ s \in F[b]
              \/ \E r \in ScannedRows : b = r.folder /\ u = r.uid /\ s \in U[r]
  <2>1. /\ <<b, u>> = <<Trash, 0>> <=> b = Trash /\ u = 0
        /\ \A f : <<b, u>> = <<f, 0>> <=> b = f /\ u = 0
        /\ \A r : <<b, u>> = <<r.folder, r.uid>> <=> b = r.folder /\ u = r.uid
    OBVIOUS
  <2> DEFINE q == <<b, u>>
  <2>2. /\ q = <<Trash, 0>> <=> b = Trash /\ u = 0
        /\ \A f : q = <<f, 0>> <=> b = f /\ u = 0
        /\ \A r : q = <<r.folder, r.uid>> <=> b = r.folder /\ u = r.uid
    BY <2>1
  <2> HIDE DEF q
  <2>3. <<q, s>> \in A \cup B \cup C <=>
              \/ b = Trash /\ u = 0 /\ s \in P
              \/ b \in Folders /\ u = 0 /\ s \in F[b]
              \/ \E r \in ScannedRows : b = r.folder /\ u = r.uid /\ s \in U[r]
    BY <1>2, <1>3, <1>4, <2>2
  <2> QED BY <1>1, <2>3 DEF q
<1>6. \A x \in Tokens(P, F, U) : \E b, u, s : x = <<<<b, u>>, s>>
  BY <1>1, <1>2, <1>3, <1>4
<1> QED BY <1>5, <1>6

\* The parts of what a run still has to do, side by side.
LEMMA Fewer ==
  ASSUME PhasesLeft' \subseteq PhasesLeft,
         \A f \in Folders : FolderLeft(f)' \subseteq FolderLeft(f),
         \A r \in ScannedRows : UidLeft(r.folder, r.uid)' \subseteq UidLeft(r.folder, r.uid),
         \/ PhasesLeft' # PhasesLeft
         \/ \E f \in Folders : FolderLeft(f)' # FolderLeft(f)
         \/ \E r \in ScannedRows : UidLeft(r.folder, r.uid)' # UidLeft(r.folder, r.uid)
  PROVE  RunLeft' \subseteq RunLeft /\ RunLeft' # RunLeft
<1> DEFINE F == [f \in Folders |-> FolderLeft(f)]
           U == [r \in ScannedRows |-> UidLeft(r.folder, r.uid)]
<1>1. /\ RunLeft = Tokens(PhasesLeft, F, U) /\ RunLeft' = Tokens(PhasesLeft', F', U')
      /\ \A f \in Folders : F[f] = FolderLeft(f) /\ F'[f] = FolderLeft(f)'
      /\ \A r \in ScannedRows : /\ U[r] = UidLeft(r.folder, r.uid)
                                /\ U'[r] = UidLeft(r.folder, r.uid)'
  <2>1. /\ \A f \in Folders : F[f] = FolderLeft(f) /\ F'[f] = FolderLeft(f)'
        /\ \A r \in ScannedRows : /\ U[r] = UidLeft(r.folder, r.uid)
                                  /\ U'[r] = UidLeft(r.folder, r.uid)'
    OBVIOUS
  <2> HIDE DEF F, U
  <2>2. FolderTokens(F) = FoldersLeft /\ FolderTokens(F') = FoldersLeft'
    BY <2>1 DEF FolderTokens, FoldersLeft
  <2>3. UidTokens(U) = UidsLeft /\ UidTokens(U') = UidsLeft'
    BY <2>1 DEF UidTokens, UidsLeft
  <2>4. RunLeft = Tokens(PhasesLeft, F, U) /\ RunLeft' = Tokens(PhasesLeft', F', U')
    BY <2>2, <2>3 DEF RunLeft, Tokens, PhaseTokens
  <2> QED BY <2>1, <2>4
<1> HIDE DEF F, U
<1>2. /\ \A b, u, s : <<<<b, u>>, s>> \in RunLeft <=>
           \/ b = Trash /\ u = 0 /\ s \in PhasesLeft
           \/ b \in Folders /\ u = 0 /\ s \in FolderLeft(b)
           \/ \E r \in ScannedRows : b = r.folder /\ u = r.uid /\ s \in UidLeft(r.folder, r.uid)
  BY <1>1, TokensAre
<1>3. /\ \A b, u, s : <<<<b, u>>, s>> \in RunLeft' <=>
           \/ b = Trash /\ u = 0 /\ s \in PhasesLeft'
           \/ b \in Folders /\ u = 0 /\ s \in FolderLeft(b)'
           \/ \E r \in ScannedRows : b = r.folder /\ u = r.uid /\ s \in UidLeft(r.folder, r.uid)'
      /\ \A x \in RunLeft' : \E b, u, s : x = <<<<b, u>>, s>>
  BY <1>1, TokensAre
<1>4. RunLeft' \subseteq RunLeft
  BY <1>2, <1>3
<1>5. \A r \in ScannedRows : r.folder \in Folders /\ r.uid # 0
  BY RowsTyped DEF Row, Uids
<1>6. CASE PhasesLeft' # PhasesLeft
  <2>1. PICK s \in PhasesLeft : s \notin PhasesLeft'
    BY <1>6
  <2>2. <<<<Trash, 0>>, s>> \in RunLeft
    BY <1>2, <2>1
  <2>3. <<<<Trash, 0>>, s>> \notin RunLeft'
    BY <1>3, <1>5, <2>1, BoxAssumption
  <2> QED BY <1>4, <2>2, <2>3
<1>7. CASE \E f \in Folders : FolderLeft(f)' # FolderLeft(f)
  <2>1. PICK f \in Folders : FolderLeft(f)' # FolderLeft(f)
    BY <1>7
  <2>2. PICK s \in FolderLeft(f) : s \notin FolderLeft(f)'
    BY <2>1
  <2>3. <<<<f, 0>>, s>> \in RunLeft
    BY <1>2, <2>2
  <2>4. <<<<f, 0>>, s>> \notin RunLeft'
    BY <1>3, <1>5, <2>2, BoxAssumption
  <2> QED BY <1>4, <2>3, <2>4
<1>8. CASE \E r \in ScannedRows : UidLeft(r.folder, r.uid)' # UidLeft(r.folder, r.uid)
  <2>1. PICK r \in ScannedRows : UidLeft(r.folder, r.uid)' # UidLeft(r.folder, r.uid)
    BY <1>8
  <2>2. PICK s \in UidLeft(r.folder, r.uid) : s \notin UidLeft(r.folder, r.uid)'
    BY <2>1
  <2>3. <<<<r.folder, r.uid>>, s>> \in RunLeft
    BY <1>2, <2>2
  <2>4. <<<<r.folder, r.uid>>, s>> \notin RunLeft'
    <3>1. ASSUME NEW q \in ScannedRows, q.folder = r.folder, q.uid = r.uid
          PROVE  UidLeft(q.folder, q.uid)' = UidLeft(r.folder, r.uid)'
      BY <3>1
    <3> QED BY <1>3, <1>5, <2>2, <3>1
  <2> QED BY <1>4, <2>3, <2>4
<1> QED BY <1>4, <1>6, <1>7, <1>8

\* A UID of a batch is a scanned row's.
LEMMA BatchRow ==
  ASSUME IInv, pc \in InBatches, NEW u \in Batch
  PROVE  u \in queue /\ \E r \in ScannedRows : r.folder = folder /\ r.uid = u
<1>1. u \in queue
  BY BoundsAreSubsets DEF Batch
<1> QED BY <1>1, Start DEF BatchInv, RowsInv, Verified

\* Nothing is left of the folders when a run ends.
LEMMA EndLowers ==
  ASSUME pc' \in {"finish", "abort", "done", "stopped", "failed", "crashed"},
         PhasesLeft' \subseteq PhasesLeft, PhasesLeft' # PhasesLeft
  PROVE  RunLeft' \subseteq RunLeft /\ RunLeft' # RunLeft
<1>1. \A f : FolderLeft(f)' = {}
  BY DEF FolderLeft, FolderAhead, InFolder
<1>2. \A f, u : UidLeft(f, u)' = {}
  BY DEF UidLeft, UidAhead, FolderAhead, InFolder, InBatches
<1> QED BY <1>1, <1>2, Fewer

LEMMA RunLowers ==
  ASSUME IInv, RunBusy, RunTurn
  PROVE  RunLeft' \subseteq RunLeft /\ RunLeft' # RunLeft
<1>1. CASE \/ Turns({"refused"}, {"failed"})
           \/ Turns({"unsubscribe"}, {"finish"})
           \/ Turns({"folder"}, {"finish", "abort"})
           \/ Turns({"flags", "identity", "rows"}, {"abort"})
           \/ Turns({"finish", "abort"}, {"done", "stopped"})
  <2>1. pc' \in {"finish", "abort", "done", "stopped", "failed"}
    BY <1>1 DEF Turns
  <2>2. PhasesLeft' \subseteq PhasesLeft /\ PhasesLeft' # PhasesLeft
    BY <1>1 DEF Turns, PhasesLeft, InFolder
  <2> QED BY <2>1, <2>2, EndLowers
<1>2. CASE Turns({"refused"}, {"unsubscribe"}) \/ Turns({"unsubscribe"}, {"targets"})
  <2>1. PhasesLeft' \subseteq PhasesLeft /\ PhasesLeft' # PhasesLeft
    BY <1>2 DEF Turns, PhasesLeft, InFolder
  <2>2. \A f : FolderLeft(f)' = FolderLeft(f)
    BY <1>2 DEF Turns, FolderLeft, FolderAhead
  <2>3. \A f, u : UidLeft(f, u)' = UidLeft(f, u)
    BY <1>2 DEF Turns, UidLeft, UidAhead, FolderAhead
  <2> QED BY <2>1, <2>2, <2>3, Fewer
<1>3. CASE ToFolders
  <2>1. PhasesLeft' \subseteq PhasesLeft /\ PhasesLeft' # PhasesLeft
    BY <1>3 DEF ToFolders, PhasesLeft, InFolder
  <2>2. \A f : FolderLeft(f)' \subseteq FolderLeft(f)
    BY <1>3 DEF ToFolders, FolderLeft, FolderAhead, InFolder
  <2>3. \A f, u : UidLeft(f, u)' \subseteq UidLeft(f, u)
    BY <1>3 DEF ToFolders, UidLeft, UidAhead, FolderAhead, InFolder, InBatches
  <2> QED BY <2>1, <2>2, <2>3, Fewer
<1>4. CASE PassesOver
  <2>1. PICK g \in todo \cap Folders : todo' = todo \ {g}
    BY <1>4 DEF PassesOver
  <2>2. PhasesLeft' = PhasesLeft
    BY <1>4 DEF PassesOver, PhasesLeft
  <2>3. /\ \A f : FolderLeft(f)' \subseteq FolderLeft(f)
        /\ FolderLeft(g)' # FolderLeft(g)
    BY <1>4, <2>1 DEF PassesOver, FolderLeft, FolderAhead, InFolder
  <2>4. \A f, u : UidLeft(f, u)' \subseteq UidLeft(f, u)
    BY <1>4, <2>1 DEF PassesOver, UidLeft, UidAhead, FolderAhead, InFolder, InBatches
  <2> QED BY <2>2, <2>3, <2>4, Fewer
<1>5. CASE TakesUp
  <2>1. PICK g \in todo \cap Folders : todo' = todo \ {g} /\ folder' = g
    BY <1>5 DEF TakesUp
  <2>2. PhasesLeft' = PhasesLeft
    BY <1>5 DEF TakesUp, PhasesLeft, InFolder
  <2>3. /\ \A f : FolderLeft(f)' \subseteq FolderLeft(f)
        /\ FolderLeft(g)' # FolderLeft(g)
    BY <1>5, <2>1 DEF TakesUp, FolderLeft, FolderAhead, InFolder
  <2>4. \A f, u : UidLeft(f, u)' \subseteq UidLeft(f, u)
    BY <1>5, <2>1 DEF TakesUp, UidLeft, UidAhead, FolderAhead, InFolder, InBatches
  <2> QED BY <2>2, <2>3, <2>4, Fewer
<1>6. ASSUME pc \in InFolder
      PROVE  folder \in Folders /\ folder \notin todo
  BY <1>6, Start DEF FolderInv, RunBusy
<1>7. CASE Turns({"flags"}, {"identity"})
  <2>1. PhasesLeft' = PhasesLeft
    BY <1>7 DEF Turns, PhasesLeft, InFolder
  <2>2. folder \in Folders /\ folder \notin todo
    BY <1>6, <1>7 DEF Turns, InFolder
  <2>3. /\ \A f : FolderLeft(f)' \subseteq FolderLeft(f)
        /\ FolderLeft(folder)' # FolderLeft(folder)
    BY <1>7, <2>2 DEF Turns, RunSame, FolderLeft, FolderAhead, InFolder
  <2>4. pc = "flags" /\ pc' = "identity" /\ folder' = folder /\ todo' = todo
    BY <1>7 DEF Turns, RunSame
  <2>5. \A f, u : UidAhead(f, u)' <=> UidAhead(f, u)
    BY <2>4 DEF UidAhead, FolderAhead, InFolder, InBatches
  <2>6. \A f, u : UidLeft(f, u)' = UidLeft(f, u)
    BY <2>4, <2>5 DEF UidLeft, InBatches
  <2> QED BY <2>1, <2>2, <2>3, <2>4, <2>6, Fewer
<1>8. CASE Queues
  <2>1. folder \in Folders /\ folder \notin todo
    BY <1>6, <1>8 DEF Queues, InFolder
  <2>2. pc' \in {"folder", "abort", "intent"}
    BY <1>8 DEF Queues, NewBatch
  <2>3. PhasesLeft' \subseteq PhasesLeft
    BY <1>8, <2>2 DEF Queues, PhasesLeft, InFolder
  <2>4. /\ \A f : FolderLeft(f)' \subseteq FolderLeft(f)
        /\ FolderLeft(folder)' # FolderLeft(folder)
    BY <1>8, <2>1, <2>2 DEF Queues, FolderLeft, FolderAhead, InFolder
  <2>5. \A f, u : UidLeft(f, u)' \subseteq UidLeft(f, u)
    <3>1. \A u : BatchLeft(u)' \subseteq UidWork \/ pc' # "intent"
      BY DEF BatchLeft, UidWork
    <3>2. /\ pc = "identity" /\ folder' = folder /\ todo' = todo
          /\ pc' \in {"folder", "abort", "intent"}
      BY <1>8, <2>2 DEF Queues
    <3>3. \A f, u : UidAhead(f, u)' => UidAhead(f, u)
      BY <3>2 DEF UidAhead, FolderAhead, InFolder, InBatches
    <3>4. ASSUME NEW f, NEW u PROVE UidLeft(f, u)' \subseteq UidLeft(f, u)
      <4>1. CASE UidAhead(f, u)'
        BY <3>3, <4>1 DEF UidLeft
      <4>2. CASE ~UidAhead(f, u)' /\ pc' = "intent" /\ f = folder
        <5>1. UidLeft(f, u) = UidWork
          BY <3>2, <4>2 DEF UidLeft, UidAhead
        <5>2. UidLeft(f, u)' = BatchLeft(u)' \/ UidLeft(f, u)' = {}
          BY <4>2 DEF UidLeft
        <5> QED BY <3>1, <4>2, <5>1, <5>2
      <4>3. CASE ~UidAhead(f, u)' /\ (pc' # "intent" \/ f # folder)
        BY <3>2, <4>3 DEF UidLeft, InBatches
      <4> QED BY <4>1, <4>2, <4>3
    <3> QED BY <3>4
  <2>6. folder' = folder
    BY <1>8 DEF Queues
  <2> QED BY <2>1, <2>3, <2>4, <2>5, <2>6, Fewer
<1>9. CASE RecordsOne
  <2>1. PICK v \in intents : intents' = intents \ {v}
    BY <1>9 DEF RecordsOne
  <2>2. /\ pc = "intent" /\ pc' = "intent" /\ v \in Batch /\ Batch' = Batch
        /\ folder' = folder /\ queue' = queue /\ todo' = todo
    BY <1>9, <2>1 DEF RecordsOne, RunBusy, Batch
  <2>3. PICK r \in ScannedRows : r.folder = folder /\ r.uid = v
    BY <2>2, BatchRow DEF InBatches
  <2>4. folder \notin todo
    BY <1>6, <2>2 DEF InFolder
  <2>5. PhasesLeft' = PhasesLeft
    BY <2>2 DEF PhasesLeft
  <2>6. \A f : FolderLeft(f)' = FolderLeft(f)
    BY <2>2 DEF FolderLeft, FolderAhead
  <2>7. \A u : BatchLeft(u)' \subseteq BatchLeft(u)
    BY <2>1, <2>2 DEF BatchLeft, UidWork
  <2>8. BatchLeft(v)' # BatchLeft(v)
    BY <2>1, <2>2 DEF BatchLeft, UidWork
  <2>9. \A f, u : UidLeft(f, u)' \subseteq UidLeft(f, u)
    BY <2>2, <2>7 DEF UidLeft, UidAhead, FolderAhead
  <2>10. UidLeft(folder, v)' # UidLeft(folder, v)
    BY <2>2, <2>4, <2>8 DEF UidLeft, UidAhead, FolderAhead, InBatches
  <2>11. UidLeft(r.folder, r.uid)' # UidLeft(r.folder, r.uid)
    BY <2>2, <2>3, <2>10
  <2> QED BY <2>3, <2>5, <2>6, <2>9, <2>11, Fewer
<1>10. CASE Calls4Batch /\ pc' = "moving"
  <2>1. /\ pc = "intent" /\ intents = {} /\ Batch' = Batch
        /\ folder' = folder /\ queue' = queue /\ todo' = todo
        /\ mv'.todo = Batch /\ mv'.chunk = {}
    BY <1>10 DEF Calls4Batch, RunSame, MoveCall, Batch
  <2>2. folder \notin todo /\ Batch # {}
    BY <1>6, <2>1, BatchSome DEF InFolder, InBatches
  <2>3. PICK v \in Batch : \E r \in ScannedRows : r.folder = folder /\ r.uid = v
    BY <2>1, <2>2, BatchRow DEF InBatches
  <2>4. PICK r \in ScannedRows : r.folder = folder /\ r.uid = v
    BY <2>3
  <2>5. PhasesLeft' = PhasesLeft
    BY <1>10, <2>1 DEF PhasesLeft, InFolder
  <2>6. \A f : FolderLeft(f)' = FolderLeft(f)
    BY <1>10, <2>1 DEF FolderLeft, FolderAhead, InFolder
  <2>7. \A u : /\ BatchLeft(u) = {"sync", "confirm", "drop"} \cup MoveWork
               /\ BatchLeft(u)' = {"confirm", "drop"} \cup CallLeft(u)'
    BY <1>10, <2>1 DEF BatchLeft, UidWork, MoveWork
  <2>8. \A u : CallLeft(u)' = {} \/ CallLeft(u)' = MoveWork
    BY <2>1 DEF CallLeft
  <2>9. \A u : BatchLeft(u)' \subseteq BatchLeft(u) /\ BatchLeft(u)' # BatchLeft(u)
    BY <2>7, <2>8 DEF MoveWork
  <2>10. \A f, u : UidAhead(f, u)' <=> UidAhead(f, u)
    BY <1>10, <2>1 DEF UidAhead, FolderAhead, InFolder, InBatches
  <2>11. \A f, u : UidLeft(f, u)' \subseteq UidLeft(f, u)
    BY <1>10, <2>1, <2>9, <2>10 DEF UidLeft, InBatches
  <2>12. ~UidAhead(folder, v)
    BY <2>1, <2>2, <2>3 DEF UidAhead, FolderAhead, InBatches
  <2>13. UidLeft(folder, v) = BatchLeft(v) /\ UidLeft(folder, v)' = BatchLeft(v)'
    BY <1>10, <2>1, <2>3, <2>10, <2>12 DEF UidLeft, InBatches
  <2>14. UidLeft(r.folder, r.uid)' # UidLeft(r.folder, r.uid)
    BY <2>1, <2>4, <2>9, <2>13
  <2> QED BY <2>4, <2>5, <2>6, <2>11, <2>14, Fewer
<1>11. CASE (Calls4Batch /\ pc' # "moving") \/ (Returns /\ pc' # "rows")
  <2>1. pc' = "abort" /\ pc \in {"intent", "moving"}
    BY <1>11 DEF Calls4Batch, Returns
  <2>2. PhasesLeft' \subseteq PhasesLeft /\ PhasesLeft' # PhasesLeft
    BY <2>1 DEF PhasesLeft, InFolder
  <2> QED BY <2>1, <2>2, EndLowers
<1>12. CASE Returns /\ pc' = "rows"
  <2>1. /\ pc = "moving" /\ Batch' = Batch
        /\ folder' = folder /\ queue' = queue /\ todo' = todo
    BY <1>12 DEF Returns, RunSame, Batch
  <2>2. folder \notin todo /\ Batch # {}
    BY <1>6, <2>1, BatchSome DEF InFolder, InBatches
  <2>3. PICK v \in Batch : \E r \in ScannedRows : r.folder = folder /\ r.uid = v
    BY <2>1, <2>2, BatchRow DEF InBatches
  <2>4. PICK r \in ScannedRows : r.folder = folder /\ r.uid = v
    BY <2>3
  <2>5. PhasesLeft' = PhasesLeft
    BY <1>12, <2>1 DEF PhasesLeft, InFolder
  <2>6. \A f : FolderLeft(f)' = FolderLeft(f)
    BY <1>12, <2>1 DEF FolderLeft, FolderAhead, InFolder
  <2>7. \A u : BatchLeft(u) = {"confirm", "drop"} \cup CallLeft(u) /\ BatchLeft(u)' = {"drop"}
    BY <1>12, <2>1 DEF BatchLeft
  <2>9. \A u : BatchLeft(u)' \subseteq BatchLeft(u) /\ BatchLeft(u)' # BatchLeft(u)
    BY <2>7
  <2>10. \A f, u : UidAhead(f, u)' <=> UidAhead(f, u)
    BY <1>12, <2>1 DEF UidAhead, FolderAhead, InFolder, InBatches
  <2>11. \A f, u : UidLeft(f, u)' \subseteq UidLeft(f, u)
    BY <1>12, <2>1, <2>9, <2>10 DEF UidLeft, InBatches
  <2>12. ~UidAhead(folder, v)
    BY <2>1, <2>2, <2>3 DEF UidAhead, FolderAhead, InBatches
  <2>13. UidLeft(folder, v) = BatchLeft(v) /\ UidLeft(folder, v)' = BatchLeft(v)'
    BY <1>12, <2>1, <2>3, <2>10, <2>12 DEF UidLeft, InBatches
  <2>14. UidLeft(r.folder, r.uid)' # UidLeft(r.folder, r.uid)
    BY <2>1, <2>4, <2>9, <2>13
  <2> QED BY <2>4, <2>5, <2>6, <2>11, <2>14, Fewer
<1>13. CASE Drops
  <2>1. /\ pc = "rows" /\ folder' = folder /\ queue' = queue \ Batch /\ todo' = todo
        /\ pc' \in {"folder", "intent"} /\ Batch' \subseteq queue \ Batch
    BY <1>13, BoundsAreSubsets DEF Drops, NewBatch, Batch
  <2>2. folder \notin todo /\ Batch # {}
    BY <1>6, <2>1, BatchSome DEF InFolder, InBatches
  <2>3. PICK v \in Batch : \E r \in ScannedRows : r.folder = folder /\ r.uid = v
    BY <2>1, <2>2, BatchRow DEF InBatches
  <2>4. PICK r \in ScannedRows : r.folder = folder /\ r.uid = v
    BY <2>3
  <2>5. PhasesLeft' = PhasesLeft
    BY <2>1 DEF PhasesLeft, InFolder
  <2>6. \A f : FolderLeft(f)' = FolderLeft(f)
    BY <2>1 DEF FolderLeft, FolderAhead, InFolder
  <2>7. \A u : BatchLeft(u) = {"drop"}
    BY <2>1 DEF BatchLeft
  <2>8. \A u : pc' = "intent" => BatchLeft(u)' \subseteq UidWork
    BY DEF BatchLeft
  <2>9. \A f, u : UidAhead(f, u)' => UidAhead(f, u)
    BY <2>1 DEF UidAhead, FolderAhead, InFolder, InBatches
  <2>10. ASSUME NEW f, NEW u PROVE UidLeft(f, u)' \subseteq UidLeft(f, u)
    <3>1. CASE UidAhead(f, u)'
      BY <2>9, <3>1 DEF UidLeft
    <3>2. CASE ~UidAhead(f, u)' /\ pc' = "intent" /\ f = folder /\ u \in Batch'
      <4>1. UidLeft(f, u) = UidWork
        BY <2>1, <3>2 DEF UidLeft, UidAhead, InBatches
      <4>2. UidLeft(f, u)' = BatchLeft(u)' \/ UidLeft(f, u)' = {}
        BY <3>2 DEF UidLeft
      <4> QED BY <2>8, <3>2, <4>1, <4>2
    <3>3. CASE ~UidAhead(f, u)' /\ ~(pc' = "intent" /\ f = folder /\ u \in Batch')
      BY <2>1, <3>3 DEF UidLeft, InBatches
    <3> QED BY <3>1, <3>2, <3>3
  <2>11. ~UidAhead(folder, v)
    BY <2>1, <2>2, <2>3 DEF UidAhead, FolderAhead, InBatches
  <2>12. UidLeft(folder, v) = BatchLeft(v)
    BY <2>1, <2>3, <2>11 DEF UidLeft, InBatches
  <2>13. UidLeft(folder, v)' = {}
    BY <2>1, <2>3, <2>9, <2>11 DEF UidLeft
  <2>14. UidLeft(r.folder, r.uid)' # UidLeft(r.folder, r.uid)
    BY <2>1, <2>4, <2>7, <2>12, <2>13
  <2> QED BY <2>4, <2>5, <2>6, <2>10, <2>14, Fewer
<1> QED BY <1>1, <1>2, <1>3, <1>4, <1>5, <1>7, <1>8, <1>9, <1>10, <1>11, <1>12, <1>13
        DEF RunTurn, Turns, Calls4Batch, Returns

\* The call a run waits for.
LEMMA CallLowersRun ==
  ASSUME IInv, OwnerInv, RunBusy, CallBusy, Running, MoveStep
  PROVE  RunLeft' \subseteq RunLeft /\ RunLeft' # RunLeft
<1>1. MoveUIDs /\ CallOut /\ UNCHANGED <<pc, todo, folder, queue, intents>>
  BY CallMoves DEF MoveStep, applyVars, runVars
<1>2. pc = "moving" /\ mv.todo \subseteq Batch
  BY <1>1, Start DEF OwnerInv, CallInv, UndoRunning, Running, BatchInv
<1>3. folder \notin todo /\ Batch' = Batch
  BY <1>1, <1>2 DEF RunBusy, InFolder, Batch
<1>4. /\ \A u : CallLeft(u)' \subseteq CallLeft(u)
      /\ \E u \in mv.todo : CallLeft(u)' # CallLeft(u)
  BY <1>1, CallLowers, Start
<1>5. PICK v \in mv.todo : CallLeft(v)' # CallLeft(v)
  BY <1>4
<1>6. PICK r \in ScannedRows : r.folder = folder /\ r.uid = v
  BY <1>2, BatchRow DEF InBatches
<1>7. PhasesLeft' = PhasesLeft
  BY <1>1, <1>2 DEF PhasesLeft
<1>8. \A f : FolderLeft(f)' = FolderLeft(f)
  BY <1>1, <1>2 DEF FolderLeft, FolderAhead
<1>9. \A u : /\ BatchLeft(u) = {"confirm", "drop"} \cup CallLeft(u)
             /\ BatchLeft(u)' = {"confirm", "drop"} \cup CallLeft(u)'
  BY <1>1, <1>2 DEF BatchLeft
<1>10. \A u : CallLeft(u) \subseteq MoveWork
  BY DEF CallLeft, MoveWork
<1>11. \A u : BatchLeft(u)' \subseteq BatchLeft(u)
  BY <1>4, <1>9
<1>12. BatchLeft(v)' # BatchLeft(v)
  BY <1>4, <1>5, <1>9, <1>10 DEF MoveWork
<1>13. \A f, u : UidAhead(f, u)' <=> UidAhead(f, u)
  BY <1>1, <1>3 DEF UidAhead, FolderAhead
<1>14. \A f, u : UidLeft(f, u)' \subseteq UidLeft(f, u)
  BY <1>1, <1>3, <1>11, <1>13 DEF UidLeft
<1>15. UidLeft(folder, v) = BatchLeft(v) /\ UidLeft(folder, v)' = BatchLeft(v)'
  <2>1. ~UidAhead(folder, v) /\ v \in Batch
    BY <1>2, <1>3, <1>5 DEF UidAhead, FolderAhead, InFolder
  <2> QED BY <1>1, <1>2, <1>3, <1>13, <2>1 DEF UidLeft, InBatches
<1>16. UidLeft(r.folder, r.uid)' # UidLeft(r.folder, r.uid)
  BY <1>1, <1>6, <1>12, <1>15
<1> QED BY <1>7, <1>8, <1>14, <1>16, Fewer

\* A step that leaves the run and its call alone.
LEMMA SameLeft ==
  ASSUME UNCHANGED <<runVars, mv>>
  PROVE  RunLeft' = RunLeft
<1>1. UNCHANGED <<pc, todo, folder, queue, intents, mv>>
  BY DEF runVars
<1>2. PhasesLeft' = PhasesLeft
  BY <1>1 DEF PhasesLeft
<1>3. \A f : (FolderAhead(f)' <=> FolderAhead(f)) /\ FolderLeft(f)' = FolderLeft(f)
  BY <1>1 DEF FolderLeft, FolderAhead
<1>4. Batch' = Batch /\ \A u : CallLeft(u)' = CallLeft(u)
  BY <1>1 DEF Batch, CallLeft, CallOut
<1>5. \A u : BatchLeft(u)' = BatchLeft(u)
  BY <1>1, <1>4 DEF BatchLeft
<1>6. \A f, u : UidLeft(f, u)' = UidLeft(f, u)
  BY <1>1, <1>3, <1>4, <1>5 DEF UidLeft, UidAhead
<1> QED BY <1>2, <1>3, <1>6 DEF RunLeft, FoldersLeft, UidsLeft, ScannedRows

\* There are finitely many steps to name.
AllSteps ==
  {"refused", "unsubscribe", "targets", "folders", "finish", "select", "flags", "identity",
   "intent", "sync", "confirm", "drop", "copy", "store", "expunge", "end", "call", "note"}
LEMMA StepsFinite == IsFiniteSet(AllSteps)
<1>1. \A x : IsFiniteSet({x})
  BY FS_Singleton
<1>2. \A S, T : IsFiniteSet(S) /\ IsFiniteSet(T) => IsFiniteSet(S \cup T)
  BY FS_Union
<1>3. ASSUME NEW x, NEW y, NEW z PROVE IsFiniteSet({x, y, z})
  <2>1. IsFiniteSet(({x} \cup {y}) \cup {z})
    BY <1>1, <1>2
  <2>2. {x, y, z} = ({x} \cup {y}) \cup {z}
    OBVIOUS
  <2> QED BY <2>1, <2>2
<1>5. AllSteps = (({"refused", "unsubscribe", "targets"} \cup {"folders", "finish", "select"})
                  \cup ({"flags", "identity", "intent"} \cup {"sync", "confirm", "drop"}))
                 \cup ({"copy", "store", "expunge"} \cup {"end", "call", "note"})
  BY DEF AllSteps
<1> QED BY <1>2, <1>3, <1>5

LEMMA TokensFinite ==
  ASSUME NEW n \in Nat, NEW S, S \subseteq (Boxes \X (0 .. n)) \X AllSteps
  PROVE  IsFiniteSet(S)
<1>1. IsFiniteSet(Boxes)
  BY FiniteAssumption, FS_AddElement DEF Boxes
<1>2. IsFiniteSet(0 .. n)
  BY FS_Interval
<1>3. IsFiniteSet(Boxes \X (0 .. n))
  BY <1>1, <1>2, FS_Product
<1>4. IsFiniteSet((Boxes \X (0 .. n)) \X AllSteps)
  BY <1>3, StepsFinite, FS_Product
<1> QED BY <1>4, FS_Subset

LEMMA RunLeftFinite == IsFiniteSet(RunLeft)
<1> DEFINE All == (Boxes \X (0 .. FirstNext)) \X AllSteps
<1>1. FirstNext \in Nat /\ Trash \in Boxes /\ Folders \subseteq Boxes
  BY CopyAssumption DEF Boxes
<1>2. PhasesLeft \subseteq AllSteps
  BY DEF PhasesLeft, AllSteps
<1>3. \A f : FolderLeft(f) \subseteq AllSteps
  BY DEF FolderLeft, AllSteps
<1>4. \A f, u : UidLeft(f, u) \subseteq AllSteps
  <2>1. UidWork \subseteq AllSteps /\ MoveWork \subseteq AllSteps
    BY DEF UidWork, MoveWork, AllSteps
  <2>2. \A u : CallLeft(u) \subseteq AllSteps
    BY <2>1 DEF CallLeft, AllSteps
  <2>3. \A u : BatchLeft(u) \subseteq AllSteps
    BY <2>1, <2>2 DEF BatchLeft, AllSteps
  <2> QED BY <2>1, <2>3 DEF UidLeft
<1>5. \A r \in ScannedRows : r.folder \in Boxes /\ r.uid \in 0 .. FirstNext
  <2>1. \A c \in Copies : FirstUid[c] \in 0 .. FirstNext /\ Home[c] \in Boxes
    BY CopyAssumption
  <2> QED BY <2>1, PlanAssumption DEF ScannedRows
<1>6. ASSUME NEW b \in Boxes, NEW u \in 0 .. FirstNext, NEW S, S \subseteq AllSteps
      PROVE  {<<b, u>>} \X S \subseteq All
  BY <1>6
<1> HIDE DEF All
<1>7. {<<Trash, 0>>} \X PhasesLeft \subseteq All
  BY <1>1, <1>2, <1>6
<1>8. FoldersLeft \subseteq All
  <2>1. \A f \in Folders : {<<f, 0>>} \X FolderLeft(f) \subseteq All
    BY <1>1, <1>3, <1>6
  <2> QED BY <2>1 DEF FoldersLeft
<1>9. UidsLeft \subseteq All
  <2>1. \A r \in ScannedRows : {<<r.folder, r.uid>>} \X UidLeft(r.folder, r.uid) \subseteq All
    BY <1>4, <1>5, <1>6
  <2> QED BY <2>1 DEF UidsLeft
<1>10. RunLeft \subseteq All
  BY <1>7, <1>8, <1>9 DEF RunLeft
<1> QED BY <1>1, <1>10, TokensFinite DEF All

LEMMA RunBoundedStep ==
  ASSUME IInv, BusyInv, [Next]_vars, Running
  PROVE  IF UNCHANGED <<runVars, mv>>
           THEN RunLeft' = RunLeft
           ELSE RunLeft' \subseteq RunLeft /\ RunLeft' # RunLeft
<1>1. OwnerInv /\ RunBusy /\ CallBusy /\ ~RunEnded /\ ~UndoRunning
  BY Start DEF BusyInv, Running, CallInv
<1>2. CASE ApplyNext
  BY <1>1, <1>2, RunTurns, RunLowers, SameLeft
<1>3. CASE MoveStep
  BY <1>1, <1>3, CallLowersRun, SameLeft
<1>4. CASE Crash
  <2>1. pc' = "crashed"
    BY <1>4 DEF Crash
  <2>2. PhasesLeft' \subseteq PhasesLeft /\ PhasesLeft' # PhasesLeft
    <3>1. PhasesLeft' = {}
      BY <2>1 DEF PhasesLeft, InFolder
    <3>2. "finish" \in PhasesLeft
      BY <1>1, Start DEF PhasesLeft, InFolder, Running, RunEnded, ApplyTypeOK
    <3> QED BY <3>1, <3>2
  <2>3. ~UNCHANGED <<runVars, mv>>
    BY <1>1, <2>1 DEF runVars, RunEnded
  <2> QED BY <2>1, <2>2, <2>3, EndLowers
<1>5. CASE OtherClient \/ Cancel \/ UNCHANGED vars
  <2>1. UNCHANGED <<runVars, mv>>
    BY <1>5, ClientIs DEF OtherClient, Cancel, vars, mailVars, applyVars
  <2> QED BY <2>1, SameLeft
<1>6. ~UndoNext /\ ~Undo
  BY <1>1 DEF Undo, UndoNext, UndoStep, Locate, Restored, RestoreFailed, UndoEnds, CheckSource,
              RestoreFolder, UndoRunning
<1> QED BY <1>2, <1>3, <1>4, <1>5, <1>6, StepIsOne

\* Neither a batch nor a chunk is ever empty, and no folder comes twice.
LEMMA BusyStep == IInv /\ BusyInv /\ [Next]_vars => RunBusy' /\ CallBusy' /\ UndoBusy'
<1> SUFFICES ASSUME IInv, BusyInv, [Next]_vars PROVE RunBusy' /\ CallBusy' /\ UndoBusy'
  OBVIOUS
<1>1. /\ RunBusy /\ CallBusy /\ UndoBusy /\ found \in [Folders -> SUBSET Uids]
      /\ UndoRunning => RunEnded
  BY Start DEF BusyInv, CallInv, UndoTypeOK
<1>2. CASE ApplyNext
  <2>1. UNCHANGED undoVars
    BY <1>2 DEF ApplyNext
  <2>2. pc \in {"review", "prepared"} \/ Running
    BY <1>2 DEF ApplyNext, ApplyStep, Prepare, OpenRun, WriteRefused, UnsubscribePhase, StartDelete,
                EndFolders, SkipFolder, SelectFolder, FetchFlags, FetchIdentity, Abort, WriteIntent,
                SyncIntents, Confirm, MoveFailed, DropRows, Finish, Running, RunEnded
  <2>3. upc' # "moving"
    BY <1>1, <2>1, <2>2 DEF undoVars, UndoRunning, RunEnded, Running
  <2>4. CASE Running
    BY <1>1, <1>2, <2>3, <2>4, RunTurns, TurnBusy DEF UndoBusy
  <2>5. CASE pc \in {"review", "prepared"}
    <3>1. mv' = mv /\ pc' \in {"prepared", "refused", "failed"}
      BY <1>2, <2>5 DEF ApplyNext, ApplyStep, Prepare, OpenRun, WriteRefused, UnsubscribePhase,
                StartDelete, EndFolders, SkipFolder, SelectFolder, FetchFlags, FetchIdentity, Abort,
                WriteIntent, SyncIntents, Confirm, MoveFailed, DropRows, Finish, Goto
    <3> QED BY <1>1, <2>3, <3>1 DEF RunBusy, CallBusy, UndoBusy, InFolder, InBatches
  <2> QED BY <2>2, <2>4, <2>5
<1>3. ASSUME UNCHANGED <<pc, todo, folder, queue, intents>> PROVE RunBusy'
  BY <1>1, <1>3 DEF RunBusy, Batch
<1>4. CASE UndoNext
  <2>1. RunBusy'
    BY <1>3, <1>4 DEF UndoNext, applyVars, runVars
  <2>2. CASE Locate \/ UndoEnds \/ \E f \in Folders : CheckSource(f)
    <3>1. mv' = mv /\ upc' # "moving"
      BY <2>2 DEF Locate, UndoEnds, CheckSource, UndoReads
    <3> QED BY <1>1, <2>1, <3>1 DEF CallBusy, UndoBusy
  <2>3. CASE Restored \/ RestoreFailed
    <3>1. mv' = Idle /\ upc' # "moving"
      BY <2>3 DEF Restored, RestoreFailed
    <3>2. mv'.pc = "idle"
      BY <3>1, IdleTyped
    <3> QED BY <2>1, <3>1, <3>2 DEF CallBusy, UndoBusy
  <2>4. CASE \E f \in Folders : RestoreFolder(f)
    <3>1. PICK f \in Folders : RestoreFolder(f)
      BY <2>4
    <3>2. /\ mv'.pc = "chunk" /\ mv'.dst = f /\ mv'.todo = found[f] /\ mv'.chunk = {}
          /\ found[f] # {} /\ found' = found
      BY <3>1 DEF RestoreFolder, MoveCall
    <3> QED BY <2>1, <3>2 DEF CallBusy, UndoBusy
  <2> QED BY <1>4, <2>2, <2>3, <2>4 DEF UndoNext, UndoStep
<1>5. CASE MoveStep
  <2>1. MoveUIDs /\ UNCHANGED <<pc, todo, folder, queue, intents, upc, found>>
    BY <1>5 DEF MoveStep, applyVars, runVars, undoVars
  <2>2. CallBusy' /\ mv'.dst = mv.dst /\ mv'.todo \subseteq mv.todo
    BY <1>1, <2>1, CallLowers, Start
  <2> QED BY <1>1, <1>3, <2>1, <2>2 DEF UndoBusy
<1>6. CASE Undo
  <2>1. UNCHANGED <<pc, todo, folder, queue, intents, mv>> /\ upc' # "moving"
    BY <1>6 DEF Undo, UndoStart, applyVars, runVars
  <2> QED BY <1>1, <1>3, <2>1 DEF CallBusy, UndoBusy
<1>7. CASE OtherClient \/ Cancel \/ UNCHANGED vars
  <2>1. UNCHANGED <<pc, todo, folder, queue, intents, mv, upc, found>>
    BY <1>7, ClientIs DEF OtherClient, Cancel, vars, mailVars, applyVars, runVars, undoVars
  <2> QED BY <1>1, <1>3, <2>1 DEF CallBusy, UndoBusy
<1>8. CASE Crash
  <2>1. RunEnded' /\ upc' # "moving" /\ mv'.pc = "idle"
    BY <1>1, <1>8 DEF Crash, Busy, Running, UndoRunning, RunEnded, Idle
  <2> QED BY <2>1 DEF RunBusy, CallBusy, UndoBusy, RunEnded, InFolder, InBatches
<1> QED BY <1>2, <1>4, <1>5, <1>6, <1>7, <1>8, StepIsOne

LEMMA BusyInductive == Spec => [](IInv /\ BusyInv)
<1>1. Init => BusyInv
  <2> SUFFICES ASSUME Init PROVE BusyInv
    OBVIOUS
  <2>1. pc = "review" /\ upc = "none" /\ mv.pc = "idle"
    BY DEF Init, ApplyInit, UndoInit, MailInit, Idle
  <2>2. RunBusy /\ CallBusy /\ UndoBusy
    BY <2>1 DEF RunBusy, CallBusy, UndoBusy, InFolder, InBatches
  <2> QED BY <2>2, OwnerInitially DEF BusyInv
<1>2. IInv /\ BusyInv /\ [Next]_vars => BusyInv'
  BY BusyStep, OwnerStep DEF BusyInv
<1> QED BY <1>1, <1>2, InitHolds, StepHolds, PTL DEF Spec

\* Every step of a run and of its calls uses up something it still had to do,
\* of which there is only so much, and none adds to it (Execute, deleteFolder,
\* MoveUIDs).
LEMMA RunBoundedHolds == Spec => RunBounded
<1>1. IInv /\ BusyInv /\ [Next]_vars =>
        (Running =>
           /\ IsFiniteSet(RunLeft)
           /\ IF UNCHANGED <<runVars, mv>>
                THEN RunLeft' = RunLeft
                ELSE RunLeft' \subseteq RunLeft /\ RunLeft' # RunLeft)
  BY RunLeftFinite, RunBoundedStep
<1> QED BY <1>1, BusyInductive, PTL DEF Spec, RunBounded

\* The same of an undo.
ReturnTokens(F, R) == UNION {UNION {{<<f, u>>} \X R[f][u] : u \in F[f]} : f \in Folders}
LEMMA ReturnTokensAre ==
  ASSUME NEW F, NEW R
  PROVE  /\ \A f, u, s : <<<<f, u>>, s>> \in ReturnTokens(F, R) <=>
              f \in Folders /\ u \in F[f] /\ s \in R[f][u]
         /\ \A x \in ReturnTokens(F, R) : \E f, u, s : x = <<<<f, u>>, s>>
<1>1. \A x : x \in ReturnTokens(F, R) <=>
              \E f \in Folders : \E u \in F[f] : x \in {<<f, u>>} \X R[f][u]
  BY DEF ReturnTokens
<1>2. /\ \A q, s : <<q, s>> \in ReturnTokens(F, R) <=>
              \E f \in Folders : \E u \in F[f] : q = <<f, u>> /\ s \in R[f][u]
      /\ \A x \in ReturnTokens(F, R) : \E f, u, s : x = <<<<f, u>>, s>>
  BY <1>1, PairIs
<1>3. \A f, u, g, v : <<f, u>> = <<g, v>> <=> f = g /\ u = v
  OBVIOUS
<1> QED BY <1>2, <1>3

LEMMA FoundFewer ==
  ASSUME found \in [Folders -> SUBSET Uids], found' \in [Folders -> SUBSET Uids],
         upc \in {"restore", "moving"}, upc' \in {"restore", "moving"},
         \A f \in Folders : found'[f] \subseteq found[f],
         \A f \in Folders : \A u \in found'[f] : ReturnLeft(f, u)' \subseteq ReturnLeft(f, u),
         \E f \in Folders : \E u \in found[f] :
           u \notin found'[f] \/ ReturnLeft(f, u)' # ReturnLeft(f, u)
  PROVE  UndoLeft' \subseteq UndoLeft /\ UndoLeft' # UndoLeft
<1> DEFINE R == [f \in Folders |-> [u \in Uids |-> ReturnLeft(f, u)]]
<1>1. \A f \in Folders : \A u \in Uids : R[f][u] = ReturnLeft(f, u) /\ R'[f][u] = ReturnLeft(f, u)'
  OBVIOUS
<1> HIDE DEF R
<1>2. \A f \in Folders :
        /\ \A u \in found[f] : R[f][u] = ReturnLeft(f, u)
        /\ \A u \in found'[f] : R'[f][u] = ReturnLeft(f, u)'
  <2>1. \A f \in Folders : found[f] \subseteq Uids /\ found'[f] \subseteq Uids
    OBVIOUS
  <2> QED BY <1>1, <2>1
<1>3. FoundLeft = ReturnTokens(found, R) /\ FoundLeft' = ReturnTokens(found', R')
  <2>1. ASSUME NEW f \in Folders
        PROVE  /\ UNION {{<<f, u>>} \X ReturnLeft(f, u) : u \in found[f]}
                    = UNION {{<<f, u>>} \X R[f][u] : u \in found[f]}
               /\ UNION {{<<f, u>>} \X ReturnLeft(f, u)' : u \in found'[f]}
                    = UNION {{<<f, u>>} \X R'[f][u] : u \in found'[f]}
    BY <1>2
  <2> QED BY <2>1 DEF FoundLeft, ReturnTokens
<1>4. \A f, u, s : <<<<f, u>>, s>> \in FoundLeft <=>
        f \in Folders /\ u \in found[f] /\ s \in ReturnLeft(f, u)
  <2>1. \A f, u, s : <<<<f, u>>, s>> \in FoundLeft <=>
          f \in Folders /\ u \in found[f] /\ s \in R[f][u]
    <3> DEFINE T == ReturnTokens(found, R)
    <3>1. \A f, u, s : <<<<f, u>>, s>> \in T <=> f \in Folders /\ u \in found[f] /\ s \in R[f][u]
      BY ReturnTokensAre
    <3>2. FoundLeft = T
      BY <1>3
    <3> HIDE DEF T
    <3> QED BY <3>1, <3>2
  <2>2. ASSUME NEW f \in Folders, NEW u \in found[f]
        PROVE  \A s : s \in R[f][u] <=> s \in ReturnLeft(f, u)
    <3>1. R[f][u] = ReturnLeft(f, u)
      BY <1>2
    <3> QED BY <3>1
  <2> HIDE DEF R
  <2> QED BY <2>1, <2>2
<1>5. /\ \A f, u, s : <<<<f, u>>, s>> \in FoundLeft' <=>
           f \in Folders /\ u \in found'[f] /\ s \in ReturnLeft(f, u)'
      /\ \A x \in FoundLeft' : \E f, u, s : x = <<<<f, u>>, s>>
  BY <1>2, <1>3, ReturnTokensAre
<1>6. /\ UndoLeft = {<<<<Trash, 0>>, "end">>} \cup FoundLeft
      /\ UndoLeft' = {<<<<Trash, 0>>, "end">>} \cup FoundLeft'
  BY DEF UndoLeft
<1>7. FoundLeft' \subseteq FoundLeft
  BY <1>4, <1>5
<1>8. PICK f \in Folders : \E u \in found[f] :
        u \notin found'[f] \/ ReturnLeft(f, u)' # ReturnLeft(f, u)
  OBVIOUS
<1>9. PICK u \in found[f] : u \notin found'[f] \/ ReturnLeft(f, u)' # ReturnLeft(f, u)
  BY <1>8
<1>10. \E s : s \in ReturnLeft(f, u) /\ (u \notin found'[f] \/ s \notin ReturnLeft(f, u)')
  <2>1. "note" \in ReturnLeft(f, u)
    BY DEF ReturnLeft
  <2>2. CASE u \notin found'[f]
    BY <2>1, <2>2
  <2>3. CASE u \in found'[f]
    BY <1>9, <2>3
  <2> QED BY <2>2, <2>3
<1>11. PICK s : s \in ReturnLeft(f, u) /\ (u \notin found'[f] \/ s \notin ReturnLeft(f, u)')
  BY <1>10
<1>12. <<<<f, u>>, s>> \in FoundLeft /\ <<<<f, u>>, s>> \notin FoundLeft'
  BY <1>4, <1>5, <1>8, <1>9, <1>11
<1>13. <<<<f, u>>, s>> # <<<<Trash, 0>>, "end">>
  BY <1>8, BoxAssumption
<1> QED BY <1>6, <1>7, <1>12, <1>13

LEMMA UndoLowers ==
  ASSUME IInv, UndoBusy, CallBusy, OwnerInv, IInv', UndoRunning,
         UndoNext \/ MoveStep \/ Crash
  PROVE  /\ upc # "check" => upc' # "check"
         /\ ~UNCHANGED <<upc, ucheck, found, mv>>
         /\ \/ upc = "check" /\ upc' = "restore"
            \/ UndoLeft' \subseteq UndoLeft /\ UndoLeft' # UndoLeft
<1>1. /\ found \in [Folders -> SUBSET Uids] /\ found' \in [Folders -> SUBSET Uids]
      /\ RunEnded
  BY Start DEF CallInv, UndoTypeOK, IInv, TypeOK
<1>2. UndoLeft # {}
  BY DEF UndoLeft, UndoRunning
<1>3. CASE upc' \in {"failed", "ended", "crashed"}
  <2>1. UndoLeft' = {}
    BY <1>3 DEF UndoLeft
  <2> QED BY <1>2, <1>3, <2>1 DEF UndoRunning
<1>4. ASSUME NEW src \in Folders, CheckSource(src), upc' # "failed"
      PROVE  /\ upc = "check" /\ upc' = "check" /\ ucheck' # ucheck
             /\ UndoLeft' \subseteq UndoLeft /\ UndoLeft' # UndoLeft
  <2>1. upc = "check" /\ upc' = "check" /\ src \in ucheck /\ ucheck' = ucheck \ {src}
    BY <1>4 DEF CheckSource
  <2>2. /\ UndoLeft = {<<<<Trash, 0>>, "locate">>} \cup ((ucheck \X {0}) \X {"check"})
        /\ UndoLeft' = {<<<<Trash, 0>>, "locate">>} \cup ((ucheck' \X {0}) \X {"check"})
    BY <2>1 DEF UndoLeft
  <2>3. \A f : <<<<f, 0>>, "check">> # <<<<Trash, 0>>, "locate">>
    OBVIOUS
  <2>4. /\ (ucheck' \X {0}) \X {"check"} \subseteq (ucheck \X {0}) \X {"check"}
        /\ <<<<src, 0>>, "check">> \in (ucheck \X {0}) \X {"check"}
        /\ <<<<src, 0>>, "check">> \notin (ucheck' \X {0}) \X {"check"}
    BY <2>1
  <2> QED BY <2>1, <2>2, <2>3, <2>4
<1>5. CASE Locate /\ upc' # "failed"
  BY <1>5 DEF Locate
<1>6. \A f, u : upc = "restore" => ReturnLeft(f, u) = {"call", "note"} \cup MoveWork
  BY DEF ReturnLeft
<1>7. \A u : CallLeft(u)' \subseteq MoveWork
  BY DEF CallLeft, MoveWork
<1>8. ASSUME NEW g \in Folders, RestoreFolder(g)
      PROVE  /\ upc = "restore" /\ upc' = "moving"
             /\ UndoLeft' \subseteq UndoLeft /\ UndoLeft' # UndoLeft
  <2>1. /\ upc = "restore" /\ upc' = "moving" /\ found' = found /\ found[g] # {}
        /\ mv'.dst = g
    BY <1>8 DEF RestoreFolder, MoveCall
  <2>2. \A f, u : ReturnLeft(f, u)' =
           IF f = g THEN {"note"} \cup CallLeft(u)' ELSE {"call", "note"} \cup MoveWork
    BY <2>1 DEF ReturnLeft
  <2>3. \A f, u : ReturnLeft(f, u)' \subseteq ReturnLeft(f, u)
    BY <1>6, <1>7, <2>1, <2>2
  <2>4. \A u : "call" \in ReturnLeft(g, u) /\ "call" \notin ReturnLeft(g, u)'
    BY <1>6, <1>7, <2>1, <2>2 DEF MoveWork
  <2>5. PICK v \in found[g] : TRUE
    BY <2>1
  <2>6. ReturnLeft(g, v)' # ReturnLeft(g, v)
    BY <2>4
  <2> QED BY <1>1, <2>1, <2>3, <2>5, <2>6, FoundFewer
<1>9. CASE Restored
  <2>1. /\ upc = "moving" /\ upc' = "restore" /\ found' = [found EXCEPT ![mv.dst] = {}]
        /\ mv.dst \in Folders /\ found[mv.dst] # {}
    BY <1>9 DEF Restored, UndoBusy
  <2>2. /\ found'[mv.dst] = {}
        /\ \A f \in Folders : f # mv.dst => found'[f] = found[f]
    BY <1>1, <2>1
  <2>3. \A f, u : f # mv.dst => ReturnLeft(f, u)' = ReturnLeft(f, u)
    BY <2>1 DEF ReturnLeft
  <2>4. \A f \in Folders : found'[f] \subseteq found[f]
    BY <2>2
  <2>5. \A f \in Folders : \A u \in found'[f] : ReturnLeft(f, u)' \subseteq ReturnLeft(f, u)
    BY <2>2, <2>3
  <2>6. PICK v \in found[mv.dst] : TRUE
    BY <2>1
  <2>7. UndoLeft' \subseteq UndoLeft /\ UndoLeft' # UndoLeft
    BY <1>1, <2>1, <2>2, <2>4, <2>5, <2>6, FoundFewer
  <2> QED BY <2>1, <2>7
<1>10. CASE MoveStep
  <2>1. MoveUIDs /\ UNCHANGED <<upc, ucheck, found>> /\ CallOut
    BY <1>10, CallMoves DEF MoveStep, undoVars
  <2>2. upc = "moving"
    BY <1>1, <2>1 DEF OwnerInv, RunEnded
  <2>3. /\ mv'.dst = mv.dst
        /\ \A u : CallLeft(u)' \subseteq CallLeft(u)
        /\ \E u \in mv.todo : CallLeft(u)' # CallLeft(u)
    BY <2>1, CallLowers, Start
  <2>4. PICK v \in mv.todo : CallLeft(v)' # CallLeft(v)
    BY <2>3
  <2>5. mv.dst \in Folders /\ v \in found[mv.dst]
    BY <2>2, <2>4 DEF UndoBusy
  <2>6. \A f, u : ReturnLeft(f, u)' \subseteq ReturnLeft(f, u)
    BY <2>1, <2>3 DEF ReturnLeft
  <2>7. /\ ReturnLeft(mv.dst, v) = {"note"} \cup CallLeft(v)
        /\ ReturnLeft(mv.dst, v)' = {"note"} \cup CallLeft(v)'
    BY <2>1, <2>2, <2>3 DEF ReturnLeft
  <2>8. "note" \notin CallLeft(v) /\ "note" \notin CallLeft(v)'
    BY DEF CallLeft, MoveWork
  <2>9. ReturnLeft(mv.dst, v)' # ReturnLeft(mv.dst, v)
    BY <2>4, <2>7, <2>8
  <2>10. UndoLeft' \subseteq UndoLeft /\ UndoLeft' # UndoLeft
    BY <1>1, <2>1, <2>2, <2>3, <2>5, <2>6, <2>9, FoundFewer
  <2>11. mv' # mv
    BY <2>1, <2>4 DEF CallLeft, CallOut
  <2> QED BY <2>1, <2>2, <2>10, <2>11
<1>11. CASE Crash
  <2>1. upc' = "crashed"
    BY <1>11 DEF Crash
  <2> QED BY <1>3, <2>1
<1>12. CASE UndoEnds \/ RestoreFailed
  <2>1. upc' \in {"ended", "failed"}
    BY <1>12 DEF UndoEnds, RestoreFailed
  <2> QED BY <1>3, <2>1
<1>13. CASE Locate \/ \E f \in Folders : CheckSource(f)
  BY <1>3, <1>4, <1>5, <1>13
<1>14. CASE \E f \in Folders : RestoreFolder(f)
  BY <1>8, <1>14
<1> QED BY <1>9, <1>10, <1>11, <1>12, <1>13, <1>14 DEF UndoNext, UndoStep

LEMMA UndoLeftFinite ==
  ASSUME IInv, OwnerInv
  PROVE  IsFiniteSet(UndoLeft)
<1> DEFINE All == (Boxes \X (0 .. uidnext[Trash])) \X AllSteps
<1>1. /\ uidnext[Trash] \in Nat /\ Trash \in Boxes /\ Folders \subseteq Boxes
      /\ found \in [Folders -> SUBSET Uids] /\ ucheck \subseteq Boxes
  BY Start DEF MailInv, MailTypeOK, Boxes, UndoTypeOK
<1>2. ASSUME NEW b \in Boxes, NEW u \in 0 .. uidnext[Trash], NEW S, S \subseteq AllSteps
      PROVE  {<<b, u>>} \X S \subseteq All
  BY <1>2
<1>3. \A f, u : ReturnLeft(f, u) \subseteq AllSteps
  <2>1. \A u : CallLeft(u) \subseteq AllSteps
    BY DEF CallLeft, MoveWork, AllSteps
  <2> QED BY <2>1 DEF ReturnLeft, MoveWork, AllSteps
<1>4. \A f \in Folders : \A u \in found[f] : u \in 0 .. uidnext[Trash]
  BY <1>1 DEF OwnerInv, Uids
<1>5. \A f \in Folders : \A u \in found[f] : {<<f, u>>} \X ReturnLeft(f, u) \subseteq All
  BY <1>1, <1>2, <1>3, <1>4
<1>6. FoundLeft \subseteq All
  <2> HIDE DEF All
  <2>1. \A f \in Folders : UNION {{<<f, u>>} \X ReturnLeft(f, u) : u \in found[f]} \subseteq All
    BY <1>5
  <2> QED BY <2>1 DEF FoundLeft
<1>7. <<<<Trash, 0>>, "end">> \in All
  BY <1>1 DEF AllSteps
<1>8. \A x : IsFiniteSet({x})
  BY FS_Singleton
<1>9. IsFiniteSet({<<<<Trash, 0>>, "locate">>} \cup ((ucheck \X {0}) \X {"check"}))
  <2>1. IsFiniteSet(Boxes)
    BY FiniteAssumption, FS_AddElement DEF Boxes
  <2>2. IsFiniteSet(ucheck)
    BY <1>1, <2>1, FS_Subset
  <2>3. IsFiniteSet(ucheck \X {0})
    BY <1>8, <2>2, FS_Product
  <2>4. IsFiniteSet((ucheck \X {0}) \X {"check"})
    BY <1>8, <2>3, FS_Product
  <2> QED BY <1>8, <2>4, FS_Union
<1>10. IsFiniteSet({<<<<Trash, 0>>, "end">>} \cup FoundLeft)
  <2>1. {<<<<Trash, 0>>, "end">>} \cup FoundLeft \subseteq All
    BY <1>6, <1>7
  <2> QED BY <1>1, <2>1, TokensFinite
<1>11. IsFiniteSet({})
  BY FS_EmptySet
<1> QED BY <1>9, <1>10, <1>11 DEF UndoLeft

LEMMA SameUndo ==
  ASSUME UNCHANGED <<upc, ucheck, found, mv>>
  PROVE  UndoLeft' = UndoLeft
<1>1. \A u : CallLeft(u)' = CallLeft(u)
  BY DEF CallLeft, CallOut
<1>2. \A f, u : ReturnLeft(f, u)' = ReturnLeft(f, u)
  BY <1>1 DEF ReturnLeft
<1>3. FoundLeft' = FoundLeft
  BY <1>2 DEF FoundLeft
<1> QED BY <1>3 DEF UndoLeft

LEMMA UndoBoundedStep ==
  ASSUME IInv, IInv', BusyInv, [Next]_vars, UndoRunning
  PROVE  /\ upc # "check" => upc' # "check"
         /\ IF UNCHANGED <<upc, ucheck, found, mv>>
              THEN UndoLeft' = UndoLeft
              ELSE \/ upc = "check" /\ upc' = "restore"
                   \/ UndoLeft' \subseteq UndoLeft /\ UndoLeft' # UndoLeft
<1>1. OwnerInv /\ RunBusy /\ CallBusy /\ UndoBusy /\ RunEnded
  BY Start DEF BusyInv, CallInv
<1>2. CASE UndoNext \/ MoveStep \/ Crash
  BY <1>1, <1>2, UndoLowers
<1>3. ~ApplyNext /\ ~Undo
  <2>1. ~Undo
    BY DEF Undo, UndoStart
  <2>2. ~ApplyNext
    BY <1>1 DEF ApplyNext, ApplyStep, Prepare, OpenRun, WriteRefused, UnsubscribePhase, StartDelete,
                EndFolders, SkipFolder, SelectFolder, FetchFlags, FetchIdentity, Abort, WriteIntent,
                SyncIntents, Confirm, MoveFailed, DropRows, Finish, RunEnded
  <2> QED BY <2>1, <2>2
<1>4. CASE OtherClient \/ Cancel \/ UNCHANGED vars
  <2>1. UNCHANGED <<upc, ucheck, found, mv>>
    BY <1>4, ClientIs DEF OtherClient, Cancel, vars, mailVars, undoVars
  <2> QED BY <2>1, SameUndo
<1> QED BY <1>2, <1>3, <1>4, StepIsOne

\* Every step of an undo and of its calls uses up something it still had to do,
\* and only the one step that finds out what is in Trash adds to it (Run).
LEMMA UndoBoundedHolds == Spec => UndoBounded
<1>1. IInv /\ BusyInv /\ [Next]_vars =>
        (UndoRunning =>
           /\ IsFiniteSet(UndoLeft)
           /\ upc # "check" => upc' # "check"
           /\ IF UNCHANGED <<upc, ucheck, found, mv>>
                THEN UndoLeft' = UndoLeft
                ELSE \/ upc = "check" /\ upc' = "restore"
                     \/ UndoLeft' \subseteq UndoLeft /\ UndoLeft' # UndoLeft)
  BY UndoLeftFinite, UndoBoundedStep, StepHolds DEF BusyInv
<1> QED BY <1>1, BusyInductive, PTL DEF Spec, UndoBounded

\* No loop of a run, of an undo or of MoveUIDs runs without end: each step leaves
\* less to do than there was (Execute, deleteFolder, MoveUIDs, Run).
THEOREM OperationsBoundedHolds == Spec => OperationsBounded
BY RunBoundedHolds, UndoBoundedHolds DEF OperationsBounded
=============================================================================
