----------------------------- MODULE ScanProofs -----------------------------
\* Theorems about Scan: the types, that a cursor has no hole below it, that no
\* row outlives the mailbox it was read from, what a scan covers, and that it
\* cannot go on for ever. All rest on ScanInv.
EXTENDS Scan, FiniteSetTheorems, TLAPS

-----------------------------------------------------------------------------
\* Arithmetic and the pure parts.

LEMMA WordId ==
  ASSUME NEW n \in 0 .. MaxUid
  PROVE  Word(n) = n
BY MailAssumption DEF Word

\* A chunk lies between lo and max.
LEMMA ChunkHiRange ==
  ASSUME NEW lo \in Nat, NEW max \in 0 .. MaxUid, lo <= max
  PROVE  ChunkHi(lo, max) \in lo .. max
<1>1. ChunkSize \in Nat \ {0} /\ MaxUid \in Nat
  BY MailAssumption, BoundAssumption
<1>2. CASE lo + ChunkSize - 1 < max
  <2>1. lo + ChunkSize - 1 \in 0 .. MaxUid
    BY <1>1, <1>2
  <2>2. Word(lo + ChunkSize - 1) = lo + ChunkSize - 1
    BY <2>1, WordId
  <2> QED BY <1>1, <1>2, <2>2 DEF ChunkHi
<1>3. CASE ~(lo + ChunkSize - 1 < max)
  BY <1>1, <1>3 DEF ChunkHi
<1> QED BY <1>2, <1>3

LEMMA RowsTyped ==
  ASSUME NEW f \in Folders, NEW es, es \subseteq Entry
  PROVE  RowsOf(f, es) \subseteq Row /\ SendersIn(es) \subseteq Senders
BY HeaderAssumption DEF RowsOf, Kept, SendersIn, Entry, Row

\* RowsOf is monotone, and a row of it comes from an entry.
LEMMA RowsOfIs ==
  ASSUME NEW f, NEW es, NEW r
  PROVE  r \in RowsOf(f, es) <=>
           \E e \in es : /\ e.msg \notin Broken \cup Nameless
                         /\ r = [folder |-> f, uid |-> e.uid, msg |-> e.msg]
BY DEF RowsOf, Kept

-----------------------------------------------------------------------------
\* Steps that leave the mailboxes, the stored rows and the chunk loop alone.

Frame == UNCHANGED <<serverVars, rows, known, orphaned>>

\* Outside the loop nothing is promised about job.
LEMMA QuietStep ==
  ASSUME ScanInv, Frame, TypeOK', ~InLoop', pc # "cursor",
         InFolder' => InFolder /\ UNCHANGED <<job>>
  PROVE  ScanInv'
<1>1. UNCHANGED <<box, uidnext, validity, assigned, rows, known, orphaned>>
  BY DEF Frame, serverVars
<1>2. UidsOK' /\ KnownOK' /\ NoHole'
  BY <1>1 DEF ScanInv, UidsOK, KnownOK, NoHole, RowsOf, Kept
<1>3. JobOK'
  BY <1>1 DEF ScanInv, JobOK
<1>4. LoopOK' /\ ChunkOK'
  BY DEF LoopOK, ChunkOK, InLoop
<1>5. RowsOK'
  BY <1>1 DEF ScanInv, RowsOK, RowIsCurrent
<1> QED BY <1>2, <1>3, <1>4, <1>5 DEF ScanInv

-----------------------------------------------------------------------------
\* Run: the loop over the folders, and the ways out of a folder.

LEMMA StartScanStep == ASSUME ScanInv, StartScan PROVE ScanInv'
<1>1. TypeOK'
  <2>1. faults' \in 0 .. MaxFaults /\ todo' \subseteq Folders
    BY BoundAssumption DEF ScanInv, TypeOK, StartScan, Fault
  <2>2. scans' \in 0 .. MaxScans
    BY BoundAssumption DEF ScanInv, TypeOK, StartScan
  <2> QED BY <2>1, <2>2 DEF ScanInv, TypeOK, StartScan, serverVars, dbVars
<1>2. Frame /\ ~InLoop' /\ pc # "cursor" /\ (InFolder' => InFolder /\ UNCHANGED job)
  BY DEF StartScan, Frame, InLoop, InFolder, serverVars, dbVars, runVars, history, Fault
<1> QED BY <1>1, <1>2, QuietStep

LEMMA NextFolderStep == ASSUME ScanInv, NextFolder PROVE ScanInv'
<1>1. /\ UNCHANGED <<serverVars, dbVars, reached, missed, cancelled, history, faults, acts, scans>>
      /\ pc = "next" /\ ~InFolder'
  BY DEF NextFolder, Return, InFolder
<1>2. /\ todo' \subseteq Folders /\ result' \in {"none", "nil", "err", "db"}
      /\ \/ pc' = "ended" /\ job' = NoJob
         \/ pc' = "select" /\ \E f \in Folders : job' = [NoJob EXCEPT !.folder = f]
  <2>1. CASE cancelled
    BY <2>1 DEF ScanInv, TypeOK, NextFolder, Return
  <2>2. CASE ~cancelled
    BY <2>2 DEF ScanInv, TypeOK, NextFolder
  <2> QED BY <2>1, <2>2
<1>3. TypeOK'
  <2>1. CASE pc' = "ended" /\ job' = NoJob
    BY <1>1, <1>2, <2>1, MailAssumption
       DEF ScanInv, TypeOK, serverVars, dbVars, history, NoJob
  <2>2. ASSUME NEW f \in Folders, pc' = "select", job' = [NoJob EXCEPT !.folder = f]
        PROVE  TypeOK'
    <3>1. /\ job' = [folder |-> f, validity |-> 0, open |-> FALSE, last |-> 0, lo |-> 0,
                      hi |-> 0, max |-> 0, got |-> {}, seen |-> {}]
          /\ f # "none"
      BY <2>2, FolderAssumption DEF NoJob
    <3>2. 0 \in 0 .. MaxUid /\ f \in Folders \cup {"none"} /\ f # "none"
      BY <3>1, <2>2, MailAssumption
    <3>3. /\ job' \in [folder : Folders \cup {"none"}, validity : Nat, open : BOOLEAN,
                       last : 0 .. MaxUid, lo : 0 .. MaxUid, hi : 0 .. MaxUid,
                       max : 0 .. MaxUid, got : SUBSET Row, seen : SUBSET Senders]
          /\ job'.folder # "none"
      BY <3>1, <3>2
    <3> QED BY <1>1, <1>2, <2>2, <3>3 DEF ScanInv, TypeOK, serverVars, dbVars, history
  <2> QED BY <1>2, <2>1, <2>2
<1>4. Frame /\ ~InLoop' /\ pc # "cursor"
  BY <1>1, <1>2 DEF Frame, InLoop, dbVars
<1> QED BY <1>1, <1>3, <1>4, QuietStep

LEMMA EndOfFoldersStep == ASSUME ScanInv, EndOfFolders PROVE ScanInv'
<1>1. TypeOK'
  BY MailAssumption DEF ScanInv, TypeOK, EndOfFolders, serverVars, dbVars, runVars, history, Return, NoJob
<1>2. Frame /\ ~InLoop' /\ pc # "cursor" /\ (InFolder' => InFolder /\ UNCHANGED job)
  BY DEF EndOfFolders, Frame, InLoop, InFolder, serverVars, dbVars, runVars, history, Return, NoJob
<1> QED BY <1>1, <1>2, QuietStep

LEMMA MissFolderStep == ASSUME ScanInv, MissFolder PROVE ScanInv'
<1>1. TypeOK'
  BY MailAssumption, BoundAssumption DEF ScanInv, TypeOK, MissFolder, serverVars, dbVars, runVars, history, LeaveFolder, NoJob, Fails, Fault
<1>2. Frame /\ ~InLoop' /\ pc # "cursor" /\ (InFolder' => InFolder /\ UNCHANGED job)
  BY DEF MissFolder, Frame, InLoop, InFolder, serverVars, dbVars, runVars, history, LeaveFolder, NoJob, Fails, Fault
<1> QED BY <1>1, <1>2, QuietStep

LEMMA OpenFailsStep == ASSUME ScanInv, OpenFails PROVE ScanInv'
<1>1. TypeOK'
  BY MailAssumption, BoundAssumption DEF ScanInv, TypeOK, OpenFails, serverVars, dbVars, runVars, history, Return, NoJob, Fails, Fault
<1>2. Frame /\ ~InLoop' /\ pc # "cursor" /\ (InFolder' => InFolder /\ UNCHANGED job)
  BY DEF OpenFails, Frame, InLoop, InFolder, serverVars, dbVars, runVars, history, Return, NoJob, Fails, Fault
<1> QED BY <1>1, <1>2, QuietStep

LEMMA InsertFailsStep == ASSUME ScanInv, InsertFails PROVE ScanInv'
<1>1. TypeOK'
  BY MailAssumption, BoundAssumption DEF ScanInv, TypeOK, InsertFails, serverVars, dbVars, runVars, history, Return, NoJob, Fails, Fault
<1>2. Frame /\ ~InLoop' /\ pc # "cursor" /\ (InFolder' => InFolder /\ UNCHANGED job)
  BY DEF InsertFails, Frame, InLoop, InFolder, serverVars, dbVars, runVars, history, Return, NoJob, Fails, Fault
<1> QED BY <1>1, <1>2, QuietStep

LEMMA TouchSendersStep == ASSUME ScanInv, TouchSenders PROVE ScanInv'
<1>1. /\ UNCHANGED <<serverVars, rows, known, orphaned, runVars, history, faults, acts, scans>>
      /\ pc = "touch" /\ pc' \in {"next", "ended"} /\ job' = NoJob
      /\ result' = result
  BY DEF TouchSenders, LeaveFolder, Return
<1>2. senders' \subseteq Senders
  BY DEF ScanInv, TypeOK, TouchSenders
<1>3. TypeOK'
  BY <1>1, <1>2, MailAssumption DEF ScanInv, TypeOK, serverVars, runVars, history, NoJob
<1>4. Frame /\ ~InLoop' /\ ~InFolder' /\ pc # "cursor"
  BY <1>1 DEF Frame, InLoop, InFolder
<1> QED BY <1>3, <1>4, QuietStep

LEMMA TouchFailsStep == ASSUME ScanInv, TouchFails PROVE ScanInv'
<1>1. TypeOK'
  BY MailAssumption, BoundAssumption DEF ScanInv, TypeOK, TouchFails, serverVars, dbVars, runVars, history, Return, NoJob, Fault
<1>2. Frame /\ ~InLoop' /\ pc # "cursor" /\ (InFolder' => InFolder /\ UNCHANGED job)
  BY DEF TouchFails, Frame, InLoop, InFolder, serverVars, dbVars, runVars, history, Return, NoJob, Fault
<1> QED BY <1>1, <1>2, QuietStep

LEMMA FetchFailsStep == ASSUME ScanInv, FetchFails PROVE ScanInv'
<1>1. PICK some \in SUBSET Fetched :
        /\ job' = [job EXCEPT !.seen = @ \cup SendersIn(some)]
        /\ noted' = noted \cup SendersIn(some)
  BY DEF FetchFails
<1>2. SendersIn(some) \subseteq Senders
  <2>1. some \subseteq Entry /\ job.folder \in Folders
    BY FolderAssumption, <1>1 DEF ScanInv, TypeOK, FetchFails, Fetched, FromOn, Between
  <2> QED BY <2>1, RowsTyped
<1>3. TypeOK'
  BY <1>1, <1>2, BoundAssumption
     DEF ScanInv, TypeOK, FetchFails, serverVars, dbVars, runVars, Fails, Fault
<1>4. Frame /\ ~InLoop' /\ pc # "cursor" /\ InFolder
  BY DEF FetchFails, Frame, InLoop, InFolder, serverVars, dbVars
<1>5. UNCHANGED <<box, uidnext, validity, assigned, rows, known, orphaned>>
  BY <1>4 DEF Frame, serverVars
<1>6. job'.folder = job.folder /\ job'.validity = job.validity /\ job'.max = job.max
  BY <1>1 DEF ScanInv, TypeOK
<1>7. UidsOK' /\ KnownOK' /\ NoHole'
  BY <1>5 DEF ScanInv, UidsOK, KnownOK, NoHole, RowsOf, Kept
<1>8. JobOK'
  BY <1>4, <1>5, <1>6 DEF ScanInv, JobOK
<1>9. LoopOK' /\ ChunkOK'
  BY <1>4 DEF LoopOK, ChunkOK, InLoop
<1>10. RowsOK'
  BY <1>4, <1>5 DEF ScanInv, RowsOK, RowIsCurrent
<1> QED BY <1>3, <1>7, <1>8, <1>9, <1>10 DEF ScanInv

\* What a step in a folder has to show for the types of the variables.
JobRecords ==
  [folder : Folders \cup {"none"}, validity : Nat, open : BOOLEAN,
   last : 0 .. MaxUid, lo : 0 .. MaxUid, hi : 0 .. MaxUid, max : 0 .. MaxUid,
   got : SUBSET Row, seen : SUBSET Senders]

LEMMA TypesKept ==
  ASSUME ScanInv, job' \in JobRecords, job'.folder # "none",
         pc' \in {"select", "open", "chunk", "insert", "cursor", "touch"},
         pc' \in {"chunk", "insert", "cursor"} => job'.lo > 0 /\ (~job'.open => job'.lo <= job'.max),
         UNCHANGED serverVars, UNCHANGED <<rows, senders, orphaned>>,
         known' \in [Folders -> [validity : Nat, cursor : 0 .. MaxUid]] \/ known' = known,
         noted' \subseteq Senders \/ noted' = noted,
         promised' \subseteq Stamp \/ promised' = promised,
         reached' \subseteq Folders \/ reached' = reached,
         UNCHANGED <<todo, missed, cancelled, result, faults, acts, scans>>
  PROVE  TypeOK'
BY DEF ScanInv, TypeOK, JobRecords, serverVars

LEMMA SelectFolderStep == ASSUME ScanInv, SelectFolder PROVE ScanInv'
<1>1. /\ pc = "select" /\ pc' = "open" /\ job.folder \in Folders
      /\ UNCHANGED <<box, uidnext, validity, assigned, rows, known, orphaned>>
      /\ job' = [job EXCEPT !.validity = validity[job.folder],
                            !.open = job.folder \in NoUidNext,
                            !.max = uidnext[job.folder] - 1]
  BY FolderAssumption DEF ScanInv, TypeOK, SelectFolder, serverVars, dbVars
<1>2. /\ job'.folder = job.folder /\ job'.validity = validity[job.folder]
      /\ job'.max = uidnext[job.folder] - 1 /\ uidnext[job.folder] \in Uids
  BY <1>1 DEF ScanInv, TypeOK
<1>3. TypeOK'
  <2>1. Stamps(job.folder, validity[job.folder], box[job.folder]) \subseteq Stamp
    BY <1>1 DEF ScanInv, TypeOK, Stamps, Stamp, Entry
  <2>2. uidnext[job.folder] - 1 \in 0 .. MaxUid /\ (job.folder \in NoUidNext) \in BOOLEAN
    BY <1>2, MailAssumption DEF Uids
  <2>3. job' \in JobRecords
    BY <1>1, <2>2 DEF ScanInv, TypeOK, JobRecords
  <2>4. /\ reached' \subseteq Folders /\ promised' \subseteq Stamp
        /\ UNCHANGED <<serverVars, dbVars, todo, missed, cancelled, noted, result, faults, acts, scans>>
    BY <1>1, <2>1 DEF ScanInv, TypeOK, SelectFolder, Goes
  <2>5. /\ job'.folder # "none" /\ pc' = "open"
    BY <1>1, <1>2, FolderAssumption
  <2> HIDE DEF JobRecords
  <2> QED BY <1>1, <2>3, <2>4, <2>5, TypesKept DEF dbVars
<1>4. UidsOK' /\ KnownOK' /\ NoHole'
  BY <1>1 DEF ScanInv, UidsOK, KnownOK, NoHole, RowsOf, Kept
<1>5. JobOK'
  BY <1>1, <1>2, MailAssumption DEF JobOK, Uids
<1>6. LoopOK' /\ ChunkOK'
  BY <1>1 DEF LoopOK, ChunkOK, InLoop
<1>7. RowsOK'
  BY <1>1 DEF ScanInv, RowsOK, RowIsCurrent
<1> QED BY <1>3, <1>4, <1>5, <1>6, <1>7 DEF ScanInv

-----------------------------------------------------------------------------
\* runFolder: from the stored cursor, or from zero.

\* Into the loop, or past the folder, when all that is stored up to last is
\* right and nothing is on record that contradicts it.
LEMMA ResumeStep ==
  ASSUME ScanInv, pc = "open", NEW last \in 0 .. MaxUid, Resume(last),
         UNCHANGED <<serverVars, senders, runVars, history, result, acts, scans, faults>>,
         known' \in [Folders -> [validity : Nat, cursor : 0 .. MaxUid]],
         rows' \subseteq Row, orphaned' \subseteq Folders,
         KnownOK', NoHole', RowsOK',
         known'[job.folder].validity \in {0, job.validity},
         known'[job.folder].validity = 0 => last = 0,
         known'[job.folder].cursor = last,
         last < uidnext[job.folder],
         RowsOf(job.folder, Below(last + 1)) \subseteq rows'
  PROVE  ScanInv'
<1>1. /\ job.folder \in Folders /\ job.max \in 0 .. MaxUid /\ job.open \in BOOLEAN
      /\ MaxUid \in Nat /\ uidnext[job.folder] \in Uids
      /\ UNCHANGED <<box, uidnext, validity, assigned>>
  BY MailAssumption, FolderAssumption DEF ScanInv, TypeOK, serverVars
<1>2. last + 1 \in 0 .. MaxUid
  BY <1>1 DEF Uids
<1>3. CASE ~job.open /\ job.max <= last
  <2>1. pc' = "next" /\ job' = NoJob
    BY <1>3 DEF Resume, LeaveFolder
  <2>2. TypeOK'
    BY <2>1, MailAssumption DEF ScanInv, TypeOK, serverVars, runVars, history, NoJob
  <2>3. UidsOK' /\ JobOK' /\ LoopOK' /\ ChunkOK'
    BY <1>1, <2>1 DEF ScanInv, UidsOK, JobOK, LoopOK, ChunkOK, InLoop, InFolder
  <2> QED BY <2>2, <2>3 DEF ScanInv
<1>4. CASE ~(~job.open /\ job.max <= last)
  <2>1. pc' = "chunk" /\ job' = [job EXCEPT !.last = last, !.lo = last + 1]
    BY <1>4 DEF Resume
  <2>2. /\ job'.folder = job.folder /\ job'.validity = job.validity /\ job'.max = job.max
        /\ job'.last = last /\ job'.lo = last + 1 /\ job'.open = job.open
    BY <2>1 DEF ScanInv, TypeOK
  <2>3. job'.lo > 0 /\ (~job'.open => job'.lo <= job'.max)
    BY <1>1, <1>4, <2>2
  <2>4. TypeOK'
    BY <1>1, <1>2, <2>1, <2>3 DEF ScanInv, TypeOK, serverVars, runVars, history
  <2>5. UidsOK' /\ ChunkOK'
    BY <1>1, <2>1 DEF ScanInv, UidsOK, ChunkOK
  <2>6. JobOK'
    BY <1>1, <2>2 DEF ScanInv, JobOK, InFolder
  <2>7. LoopOK'
    <3>1. last + 1 <= uidnext[job.folder]
      BY <1>1 DEF Uids
    <3>2. RowsOf(job.folder, Below(job.lo))' = RowsOf(job.folder, Below(last + 1))
      BY <1>1, <2>2 DEF Below, RowsOf, Kept
    <3>3. known'[job.folder].cursor < last + 1
      OBVIOUS
    <3> QED BY <1>1, <2>2, <3>1, <3>2, <3>3 DEF LoopOK
  <2> QED BY <2>4, <2>5, <2>6, <2>7 DEF ScanInv
<1> QED BY <1>3, <1>4

LEMMA KeepCursorStep == ASSUME ScanInv, KeepCursor PROVE ScanInv'
<1> DEFINE k == known[job.folder]
<1>1. /\ job.folder \in Folders /\ k \in [validity : Nat, cursor : 0 .. MaxUid]
      /\ pc = "open" /\ pc' # "cursor"
      /\ job.validity = validity[job.folder] /\ job.validity # 0
      /\ uidnext[job.folder] \in Uids /\ box[job.folder] \subseteq Entry
      /\ MaxUid \in Nat
  BY MailAssumption, FolderAssumption
     DEF ScanInv, TypeOK, KeepCursor, Resume, LeaveFolder, JobOK, InFolder
<1>2. /\ UNCHANGED <<box, uidnext, validity, assigned, rows, known, orphaned>>
      /\ Resume(k.cursor)
      /\ UNCHANGED <<serverVars, senders, runVars, history, result, acts, scans, faults>>
  BY DEF KeepCursor, Goes, serverVars, dbVars
<1>3. k.validity \in {0, job.validity}
  BY <1>1 DEF KeepCursor, NeedsReset
<1>4. /\ k.validity = 0 => k.cursor = 0
      /\ k.cursor < uidnext[job.folder]
  BY <1>1, <1>3 DEF ScanInv, KnownOK, Uids
<1>5. RowsOf(job.folder, Below(k.cursor + 1)) \subseteq rows
  <2>1. CASE k.validity = 0
    BY <1>1, <1>4, <2>1 DEF Below, RowsOf, Kept, Entry, Uids
  <2>2. CASE k.validity = validity[job.folder]
    BY <1>1, <2>2 DEF ScanInv, NoHole, Below, RowsOf, Kept, Entry, Uids
  <2> QED BY <1>1, <1>3, <2>1, <2>2
<1>6. KnownOK' /\ NoHole'
  BY <1>2 DEF ScanInv, KnownOK, NoHole, RowsOf, Kept
<1>7. RowsOK'
  BY <1>1, <1>2 DEF ScanInv, RowsOK, RowIsCurrent
<1>8. /\ known' \in [Folders -> [validity : Nat, cursor : 0 .. MaxUid]]
      /\ rows' \subseteq Row /\ orphaned' \subseteq Folders
  BY <1>2 DEF ScanInv, TypeOK
<1> QED BY <1>1, <1>2, <1>3, <1>4, <1>5, <1>6, <1>7, <1>8, ResumeStep

LEMMA ResetFolderStep == ASSUME ScanInv, ResetFolder PROVE ScanInv'
<1>1. /\ job.folder \in Folders /\ pc = "open"
      /\ job.validity = validity[job.folder] /\ job.validity \in Nat \ {0}
      /\ uidnext[job.folder] \in Uids /\ box[job.folder] \subseteq Entry
      /\ MaxUid \in Nat
  BY MailAssumption, FolderAssumption
     DEF ScanInv, TypeOK, ResetFolder, JobOK, InFolder
<1>2. /\ UNCHANGED <<box, uidnext, validity, assigned>>
      /\ rows' = {r \in rows : r.folder # job.folder}
      /\ orphaned' = orphaned \ {job.folder}
      /\ known' = [known EXCEPT ![job.folder] = [validity |-> job.validity, cursor |-> 0]]
      /\ Resume(0)
      /\ UNCHANGED <<serverVars, senders, runVars, history, result, acts, scans, faults>>
  BY DEF ResetFolder, Forget, Goes, serverVars
<1>3. /\ known' \in [Folders -> [validity : Nat, cursor : 0 .. MaxUid]]
      /\ rows' \subseteq Row /\ orphaned' \subseteq Folders
  BY <1>1, <1>2 DEF ScanInv, TypeOK
<1>4. /\ known'[job.folder] = [validity |-> job.validity, cursor |-> 0]
      /\ \A f \in Folders : f # job.folder => known'[f] = known[f]
  BY <1>1, <1>2 DEF ScanInv, TypeOK
<1>5. KnownOK'
  BY <1>1, <1>2, <1>4 DEF ScanInv, TypeOK, KnownOK, Uids
<1>6. RowsOf(job.folder, Below(1)) = {}
  BY <1>1 DEF RowsOf, Kept, Below, Entry, Uids
<1>7. NoHole'
  <2> SUFFICES ASSUME NEW f \in Folders, known'[f].validity = validity[f],
                      NEW e \in box[f], e.uid <= known'[f].cursor,
                      e.msg \notin Broken \cup Nameless
               PROVE  [folder |-> f, uid |-> e.uid, msg |-> e.msg] \in rows'
    BY <1>2 DEF NoHole, RowsOf, Kept
  <2>1. f # job.folder
    BY <1>1, <1>4 DEF Entry, Uids
  <2> QED BY <1>2, <1>4, <2>1 DEF ScanInv, NoHole, RowsOf, Kept
<1>8. RowsOK'
  <2> SUFFICES ASSUME NEW r \in rows, r.folder # job.folder, r.folder \notin orphaned
               PROVE  known'[r.folder].validity # 0 /\ RowIsCurrent(r)'
    BY <1>2 DEF RowsOK
  <2>1. r.folder \in Folders
    BY DEF ScanInv, TypeOK, Row
  <2> QED BY <1>1, <1>2, <1>4, <2>1 DEF ScanInv, RowsOK, RowIsCurrent
<1> QED BY <1>1, <1>2, <1>3, <1>4, <1>5, <1>6, <1>7, <1>8, ResumeStep DEF Uids

-----------------------------------------------------------------------------
\* The chunk loop.

\* What the invariant says of job inside the loop.
LEMMA InLoopFacts ==
  ASSUME ScanInv, InLoop
  PROVE  /\ job.folder \in Folders /\ InFolder
         /\ job.validity = validity[job.folder] /\ job.validity \in Nat \ {0}
         /\ job.lo \in 1 .. MaxUid /\ job.max \in 0 .. MaxUid /\ job.last \in 0 .. MaxUid
         /\ job.hi \in 0 .. MaxUid /\ job.open \in BOOLEAN
         /\ job.max < uidnext[job.folder] /\ uidnext[job.folder] \in Uids
         /\ box[job.folder] \subseteq Entry /\ MaxUid \in Nat
         /\ ~job.open => job.lo <= job.max
BY MailAssumption, FolderAssumption DEF ScanInv, TypeOK, JobOK, InLoop, InFolder

LEMMA FetchHeadersStep == ASSUME ScanInv, FetchHeaders PROVE ScanInv'
<1> DEFINE f == job.folder
<1> USE MailAssumption
<1>1. PICK hi \in 0 .. MaxUid :
        /\ ReachedBy(hi, Fetched)
        /\ job' = [job EXCEPT !.hi = hi, !.got = RowsOf(f, Fetched),
                              !.seen = @ \cup SendersIn(Fetched)]
  BY DEF FetchHeaders
<1>2. /\ pc = "chunk" /\ pc' = "insert" /\ InLoop
      /\ UNCHANGED <<box, uidnext, validity, assigned, rows, known, orphaned>>
  BY DEF FetchHeaders, InLoop, serverVars, dbVars
<1>3. Fetched \subseteq box[f] /\ Fetched \subseteq Entry
  BY <1>2, InLoopFacts DEF Fetched, FromOn, Between
<1>4. RowsOf(f, Fetched) \subseteq Row /\ SendersIn(Fetched) \subseteq Senders
  BY <1>2, <1>3, InLoopFacts, RowsTyped
<1>5. /\ job'.folder = f /\ job'.validity = job.validity /\ job'.max = job.max
      /\ job'.last = job.last /\ job'.lo = job.lo /\ job'.open = job.open
      /\ job'.hi = hi /\ job'.got = RowsOf(f, Fetched)
  BY <1>1 DEF ScanInv, TypeOK
<1>6. TypeOK'
  <2>1. job' \in JobRecords
    BY <1>1, <1>4 DEF ScanInv, TypeOK, JobRecords
  <2>2. noted' \subseteq Senders
    BY <1>4 DEF ScanInv, TypeOK, FetchHeaders
  <2>3. UNCHANGED <<serverVars, dbVars, runVars, promised, result, faults, acts, scans>>
    BY DEF FetchHeaders, Goes
  <2>4. job'.folder # "none" /\ pc' = "insert" /\ job'.lo > 0 /\ (~job'.open => job'.lo <= job'.max)
    BY <1>1, <1>2, <1>5, FolderAssumption, InLoopFacts DEF ScanInv, TypeOK
  <2> QED BY <2>1, <2>2, <2>3, <2>4, TypesKept DEF dbVars, runVars
<1>7. UidsOK' /\ KnownOK' /\ NoHole'
  <2>1. UidsOK' /\ KnownOK'
    BY <1>2 DEF ScanInv, UidsOK, KnownOK
  <2>2. \A g \in Folders : RowsOf(g, {e \in box[g] : e.uid <= known[g].cursor})'
                             = RowsOf(g, {e \in box[g] : e.uid <= known[g].cursor})
    BY <1>2 DEF RowsOf, Kept
  <2> QED BY <1>2, <2>1, <2>2 DEF ScanInv, NoHole
<1>8. JobOK' /\ LoopOK'
  BY <1>2, <1>5, InLoopFacts
     DEF ScanInv, JobOK, LoopOK, InLoop, InFolder, Below, RowsOf, Kept
<1>9. RowsOK'
  BY <1>2 DEF ScanInv, RowsOK, RowIsCurrent
<1>10. hi < uidnext[f]
  <2>1. CASE job.open
    <3>1. hi \in {e.uid : e \in Parsed(Fetched)} \cup {job.last}
      BY <1>1, <2>1 DEF ReachedBy, IsTop
    <3>2. job.last < uidnext[f]
      BY <1>2 DEF ScanInv, LoopOK
    <3>3. \A e \in Parsed(Fetched) : e.uid < uidnext[f]
      BY <1>2, <1>3, InLoopFacts DEF ScanInv, UidsOK, Parsed
    <3> QED BY <3>1, <3>2, <3>3
  <2>2. CASE ~job.open
    <3>1. ChunkHi(job.lo, job.max) \in job.lo .. job.max
      BY <1>2, <2>2, InLoopFacts, ChunkHiRange
    <3> QED BY <1>1, <1>2, <2>2, <3>1, InLoopFacts DEF ReachedBy, Uids
  <2> QED BY <2>1, <2>2
<1>11. job.open \/ job.lo <= hi
  <2> SUFFICES ASSUME ~job.open PROVE job.lo <= hi
    OBVIOUS
  <2>1. hi = ChunkHi(job.lo, job.max)
    BY <1>1 DEF ReachedBy
  <2>2. job.lo \in Nat /\ job.max \in 0 .. MaxUid /\ job.lo <= job.max
    BY <1>2, InLoopFacts
  <2>3. ChunkHi(job.lo, job.max) \in job.lo .. job.max
    BY <2>2, ChunkHiRange
  <2> QED BY <2>1, <2>2, <2>3
<1>12. ASSUME NEW e \in box[f], e.uid <= hi, e.uid >= job.lo
       PROVE  e \in Fetched
  BY <1>1, <1>2, <1>12, InLoopFacts
     DEF Fetched, FromOn, Between, ReachedBy, Entry, Uids
<1>13. RowsOf(f, Below(hi + 1)) \subseteq rows \cup RowsOf(f, Fetched)
  <2> SUFFICES ASSUME NEW r \in RowsOf(f, Below(hi + 1))
               PROVE  r \in rows \cup RowsOf(f, Fetched)
    OBVIOUS
  <2>1. PICK e \in Below(hi + 1) : /\ e.msg \notin Broken \cup Nameless
                                  /\ r = [folder |-> f, uid |-> e.uid, msg |-> e.msg]
    BY RowsOfIs
  <2>2. e \in box[f] /\ e.uid \in Nat /\ e.uid <= hi /\ job.lo \in Nat
    BY <1>2, InLoopFacts DEF Entry, Uids, Below
  <2>3. CASE e.uid < job.lo
    <3>1. e \in Below(job.lo)
      BY <2>2, <2>3 DEF Below
    <3>2. r \in RowsOf(f, Below(job.lo))
      BY <2>1, <3>1, RowsOfIs
    <3> QED BY <1>2, <3>2 DEF ScanInv, LoopOK
  <2>4. CASE e.uid >= job.lo
    BY <1>12, <2>1, <2>2, <2>4, RowsOfIs
  <2> QED BY <2>2, <2>3, <2>4
<1>14. ASSUME NEW g \in RowsOf(f, Fetched)
       PROVE  /\ g.folder = f /\ g.uid <= hi
              /\ Stamps(g.folder, job.validity, {g}) \subseteq assigned
              /\ \A e \in box[g.folder] : e.uid = g.uid => e.msg = g.msg
  <2>1. PICK e \in Fetched : /\ e.msg \notin Broken \cup Nameless
                             /\ g = [folder |-> f, uid |-> e.uid, msg |-> e.msg]
    BY RowsOfIs
  <2>2. e.uid <= hi
    <3>1. CASE job.open
      BY <2>1, <3>1, <1>1 DEF ReachedBy, IsTop, Parsed
    <3>2. CASE ~job.open
      BY <2>1, <3>2, <1>1 DEF ReachedBy, Fetched, Between
    <3> QED BY <3>1, <3>2
  <2>3. /\ Stamps(f, validity[f], {e}) \subseteq assigned
        /\ \A d \in box[f] : d.uid = e.uid => d = e
    BY <2>1, <1>2, <1>3, InLoopFacts DEF ScanInv, UidsOK
  <2>4. Stamps(f, job.validity, {g}) = Stamps(f, validity[f], {e})
    BY <2>1, <1>2, InLoopFacts DEF Stamps
  <2> QED BY <2>1, <2>2, <2>3, <2>4
<1>15. ChunkOK'
  <2>1. RowsOf(job.folder, Below(job.hi + 1))' = RowsOf(f, Below(hi + 1))
    BY <1>2, <1>5 DEF Below, RowsOf, Kept
  <2> QED BY <1>2, <1>5, <1>10, <1>13, <1>14, <1>11, <2>1 DEF ChunkOK
<1> QED BY <1>6, <1>7, <1>8, <1>9, <1>15 DEF ScanInv

LEMMA InsertMessagesStep == ASSUME ScanInv, InsertMessages PROVE ScanInv'
<1> DEFINE f == job.folder
<1>1. /\ pc = "insert" /\ pc' = "cursor" /\ InLoop
      /\ UNCHANGED <<box, uidnext, validity, assigned, known, orphaned, job>>
      /\ rows' = job.got \cup
           {r \in rows : \A g \in job.got : ~(g.folder = r.folder /\ g.uid = r.uid)}
  BY DEF InsertMessages, InLoop, serverVars
<1>2. \A g \in job.got :
        /\ g.folder = f /\ g.uid <= job.hi
        /\ Stamps(g.folder, job.validity, {g}) \subseteq assigned
        /\ \A e \in box[g.folder] : e.uid = g.uid => e.msg = g.msg
  BY <1>1 DEF ScanInv, ChunkOK
<1>3. job.got \subseteq Row
  BY DEF ScanInv, TypeOK
<1>4. TypeOK'
  <2>1. rows' \subseteq Row
    BY <1>1, <1>3 DEF ScanInv, TypeOK
  <2> QED BY <2>1, <1>1, BoundAssumption
          DEF ScanInv, TypeOK, InsertMessages, serverVars, runVars, history, Goes
<1>5. ASSUME NEW b \in Folders, NEW e \in box[b],
             [folder |-> b, uid |-> e.uid, msg |-> e.msg] \in rows \cup job.got
      PROVE  [folder |-> b, uid |-> e.uid, msg |-> e.msg] \in rows'
  <2> DEFINE r == [folder |-> b, uid |-> e.uid, msg |-> e.msg]
  <2>1. ASSUME NEW g \in job.got, g.folder = b, g.uid = e.uid
        PROVE  r = g
    <3>1. g.msg = e.msg
      BY <1>2, <2>1
    <3> QED BY <1>3, <2>1, <3>1 DEF Row
  <2> QED BY <1>1, <1>5, <2>1
<1>6. UidsOK' /\ KnownOK' /\ JobOK'
  BY <1>1 DEF ScanInv, UidsOK, KnownOK, JobOK, InFolder
<1>7. NoHole'
  <2> SUFFICES ASSUME NEW b \in Folders, known[b].validity = validity[b],
                      NEW e \in box[b], e.uid <= known[b].cursor,
                      e.msg \notin Broken \cup Nameless
               PROVE  [folder |-> b, uid |-> e.uid, msg |-> e.msg] \in rows'
    BY <1>1 DEF NoHole, RowsOf, Kept
  <2> QED BY <1>5 DEF ScanInv, NoHole, RowsOf, Kept
<1>8. LoopOK' /\ ChunkOK'
  <2>1. ASSUME NEW n, RowsOf(f, Below(n)) \subseteq rows \cup job.got
        PROVE  RowsOf(f, Below(n)) \subseteq rows'
    <3> SUFFICES ASSUME NEW e \in box[f], e.uid < n, e.msg \notin Broken \cup Nameless
                 PROVE  [folder |-> f, uid |-> e.uid, msg |-> e.msg] \in rows'
      BY DEF RowsOf, Kept, Below
    <3> QED BY <1>1, <1>5, <2>1, InLoopFacts DEF RowsOf, Kept, Below
  <2>2. RowsOf(f, Below(job.lo)) \subseteq rows' /\ RowsOf(f, Below(job.hi + 1)) \subseteq rows'
    BY <1>1, <2>1 DEF ScanInv, LoopOK, ChunkOK
  <2>3. /\ RowsOf(job.folder, Below(job.lo))' = RowsOf(f, Below(job.lo))
        /\ RowsOf(job.folder, Below(job.hi + 1))' = RowsOf(f, Below(job.hi + 1))
    BY <1>1 DEF Below, RowsOf, Kept
  <2> QED BY <1>1, <1>2, <2>2, <2>3 DEF ScanInv, LoopOK, ChunkOK, InLoop
<1>9. RowsOK'
  <2> SUFFICES ASSUME NEW r \in rows', r.folder \notin orphaned
               PROVE  IF known[r.folder].validity # 0
                        THEN RowIsCurrent(r)'
                        ELSE job.folder = r.folder /\ r \in job.got
    BY <1>1 DEF RowsOK
  <2>1. CASE r \in job.got
    <3>1. known[f].validity \in {0, job.validity}
      BY <1>1 DEF ScanInv, LoopOK
    <3> QED BY <1>1, <1>2, <2>1, <3>1 DEF RowIsCurrent, Stamps
  <2>2. CASE r \in rows
    BY <1>1, <2>2 DEF ScanInv, RowsOK, RowIsCurrent
  <2> QED BY <1>1, <2>1, <2>2
<1> QED BY <1>4, <1>6, <1>7, <1>8, <1>9 DEF ScanInv

LEMMA SetFolderCursorStep == ASSUME ScanInv, SetFolderCursor PROVE ScanInv'
<1> DEFINE f == job.folder
<1> DEFINE k == known[f]
<1>1. /\ pc = "cursor" /\ InLoop
      /\ UNCHANGED <<box, uidnext, validity, assigned, rows, orphaned, senders>>
      /\ AfterChunk
      /\ IF Unmoved THEN UNCHANGED known
                    ELSE known' = [known EXCEPT ![f] = [validity |-> job.validity,
                                                        cursor |-> job.hi]]
  BY DEF SetFolderCursor, InLoop, serverVars
<1>2. /\ RowsOf(f, Below(job.hi + 1)) \subseteq rows /\ job.hi < uidnext[f]
      /\ \A g \in job.got : g.uid <= job.hi /\ Stamps(g.folder, job.validity, {g}) \subseteq assigned
      /\ k.validity \in {0, job.validity}
      /\ job.open /\ k.validity = 0 => job.last = 0
  BY <1>1 DEF ScanInv, ChunkOK, LoopOK
<1>3. known' \in [Folders -> [validity : Nat, cursor : 0 .. MaxUid]]
  <2>1. [validity |-> job.validity, cursor |-> job.hi] \in [validity : Nat, cursor : 0 .. MaxUid]
    BY <1>1, InLoopFacts
  <2> QED BY <1>1, <2>1 DEF ScanInv, TypeOK
<1>4. /\ \A b \in Folders : b # f => known'[b] = known[b]
      /\ known'[f] = IF Unmoved THEN k ELSE [validity |-> job.validity, cursor |-> job.hi]
      /\ f \in Folders
  BY <1>1, InLoopFacts DEF ScanInv, TypeOK
<1>5. KnownOK'
  BY <1>1, <1>2, <1>4, InLoopFacts DEF ScanInv, KnownOK, Uids
<1>6. NoHole'
  <2> SUFFICES ASSUME NEW b \in Folders, known'[b].validity = validity[b],
                      NEW e \in box[b], e.uid <= known'[b].cursor,
                      e.msg \notin Broken \cup Nameless
               PROVE  [folder |-> b, uid |-> e.uid, msg |-> e.msg] \in rows
    BY <1>1 DEF NoHole, RowsOf, Kept
  <2>1. CASE known'[b] = known[b]
    BY <2>1 DEF ScanInv, NoHole, RowsOf, Kept
  <2>2. CASE b = f /\ ~Unmoved
    <3>1. e \in Below(job.hi + 1)
      BY <1>1, <1>4, <2>2, InLoopFacts DEF Below, Entry, Uids
    <3> QED BY <1>2, <2>2, <3>1 DEF RowsOf, Kept
  <2> QED BY <1>4, <2>1, <2>2
<1>7. ASSUME NEW r \in rows, r.folder \notin orphaned
      PROVE  known'[r.folder].validity # 0 /\ RowIsCurrent(r)'
  <2>1. r.folder \in Folders /\ r.uid \in Nat \ {0}
    BY DEF ScanInv, TypeOK, Row, Uids
  <2>2. CASE r.folder # f
    BY <1>1, <1>4, <1>7, <2>1, <2>2 DEF ScanInv, RowsOK, RowIsCurrent
  <2>3. CASE r.folder = f /\ ~Unmoved
    <3>1. CASE k.validity = 0
      <4>1. r \in job.got
        BY <1>7, <2>3, <3>1 DEF ScanInv, RowsOK
      <4>2. Stamps(f, job.validity, {r}) \subseteq assigned
        BY <1>2, <2>3, <4>1
      <4>3. known'[r.folder].validity = job.validity
        BY <1>4, <2>3
      <4> QED BY <1>1, <2>3, <4>2, <4>3, InLoopFacts DEF RowIsCurrent, Stamps
    <3>2. CASE k.validity = job.validity
      BY <1>1, <1>2, <1>4, <1>7, <2>3, <3>2, InLoopFacts
         DEF ScanInv, RowsOK, RowIsCurrent
    <3> QED BY <1>2, <3>1, <3>2
  <2>4. CASE r.folder = f /\ Unmoved
    <3>1. k.validity # 0
      <4> SUFFICES ASSUME k.validity = 0 PROVE FALSE
        OBVIOUS
      <4>1. r \in job.got
        BY <1>7, <2>4 DEF ScanInv, RowsOK
      <4>2. job.hi <= job.last /\ job.last = 0
        BY <1>2, <2>4 DEF Unmoved
      <4>3. r.uid <= job.hi
        BY <1>2, <4>1
      <4>4. job.hi \in Nat
        BY <1>1, InLoopFacts
      <4> QED BY <2>1, <4>2, <4>3, <4>4
    <3> QED BY <1>1, <1>4, <1>7, <2>4, <3>1 DEF ScanInv, RowsOK, RowIsCurrent
  <2> QED BY <2>2, <2>3, <2>4
<1>8. RowsOK'
  BY <1>1, <1>7 DEF RowsOK
<1>9. UidsOK'
  BY <1>1 DEF ScanInv, UidsOK
<1>10. CASE pc' = "touch" /\ UNCHANGED job
  <2>1. TypeOK'
    BY <1>1, <1>3, <1>10, BoundAssumption
       DEF ScanInv, TypeOK, SetFolderCursor, serverVars, runVars, history, Goes
  <2>2. JobOK' /\ LoopOK' /\ ChunkOK'
    BY <1>1, <1>10, InLoopFacts DEF ScanInv, JobOK, LoopOK, ChunkOK, InLoop
  <2> QED BY <1>5, <1>6, <1>8, <1>9, <2>1, <2>2 DEF ScanInv
<1>11. CASE ~job.open /\ job.hi < job.max /\ pc' = "chunk"
            /\ job' = [job EXCEPT !.lo = Word(job.hi + 1)]
  <2>1. job.hi + 1 \in 0 .. MaxUid /\ job.hi + 1 <= job.max
    BY <1>1, <1>11, InLoopFacts
  <2>2. Word(job.hi + 1) = job.hi + 1
    BY <2>1, WordId
  <2>3. /\ job'.folder = f /\ job'.validity = job.validity /\ job'.max = job.max
        /\ job'.last = job.last /\ job'.lo = job.hi + 1 /\ job'.open = job.open
    BY <1>11, <2>2 DEF ScanInv, TypeOK
  <2>4. TypeOK'
    <3>1. job' \in JobRecords
      BY <1>11, <2>1, <2>2 DEF ScanInv, TypeOK, JobRecords
    <3>2. /\ UNCHANGED <<serverVars, rows, senders, orphaned, runVars, history, result, acts, scans>>
          /\ faults' = faults
      BY DEF SetFolderCursor, Goes
    <3>3. known' \in [Folders -> [validity : Nat, cursor : 0 .. MaxUid]]
      BY <1>1, <1>3, InLoopFacts DEF ScanInv, TypeOK
    <3>4. job'.folder # "none" /\ job'.lo > 0 /\ (~job'.open => job'.lo <= job'.max)
      BY <1>1, <1>11, <2>1, <2>3, FolderAssumption, InLoopFacts DEF ScanInv, TypeOK
    <3> QED BY <1>11, <3>1, <3>2, <3>3, <3>4, TypesKept DEF runVars, history
  <2>5. JobOK' /\ ChunkOK'
    BY <1>1, <1>11, <2>3, InLoopFacts DEF ScanInv, JobOK, ChunkOK, InFolder
  <2>6. RowsOf(job.folder, Below(job.lo))' = RowsOf(f, Below(job.hi + 1))
    BY <1>1, <2>3 DEF Below, RowsOf, Kept
  <2>7. job.hi + 1 <= uidnext[f] /\ job.last < uidnext[f]
    <3>1. job.last < uidnext[f]
      BY <1>1 DEF ScanInv, LoopOK
    <3> QED BY <1>1, <1>2, <3>1, InLoopFacts DEF Uids
  <2>8. /\ known'[f].validity \in {0, job.validity} /\ ~job.open
        /\ known'[f].cursor < job.hi + 1
    BY <1>1, <1>2, <1>4, <1>11, InLoopFacts DEF Unmoved
  <2>9. LoopOK'
    BY <1>1, <1>2, <2>3, <2>6, <2>7, <2>8 DEF LoopOK
  <2> QED BY <1>5, <1>6, <1>8, <1>9, <2>4, <2>5, <2>9 DEF ScanInv
<1> QED BY <1>1, <1>10, <1>11, InLoopFacts DEF AfterChunk

-----------------------------------------------------------------------------
\* Interruptions.

\* Rows that are left without a cursor are in orphaned.
LEMMA OrphansStep ==
  ASSUME ScanInv, UNCHANGED <<serverVars, rows, known, senders>>, ~InFolder', TypeOK',
         orphaned' = orphaned \cup Orphans
  PROVE  ScanInv'
<1>1. UNCHANGED <<box, uidnext, validity, assigned>>
  BY DEF serverVars
<1>2. UidsOK' /\ KnownOK' /\ NoHole'
  BY <1>1 DEF ScanInv, UidsOK, KnownOK, NoHole, RowsOf, Kept
<1>3. JobOK' /\ LoopOK' /\ ChunkOK'
  BY DEF JobOK, LoopOK, ChunkOK, InLoop, InFolder
<1>4. RowsOK'
  BY <1>1 DEF ScanInv, RowsOK, RowIsCurrent, Orphans
<1> QED BY <1>2, <1>3, <1>4 DEF ScanInv

LEMMA OrphansTyped ==
  ASSUME ScanInv PROVE orphaned \cup Orphans \subseteq Folders
BY FolderAssumption DEF ScanInv, TypeOK, Orphans

LEMMA CursorFailsStep == ASSUME ScanInv, CursorFails PROVE ScanInv'
<1>1. TypeOK'
  BY MailAssumption, BoundAssumption, OrphansTyped
     DEF ScanInv, TypeOK, CursorFails, serverVars, runVars, history, Return, NoJob, Fails, Fault
<1> QED BY <1>1, OrphansStep DEF CursorFails, Return, InFolder

LEMMA CrashStep == ASSUME ScanInv, Crash PROVE ScanInv'
<1>1. TypeOK'
  BY MailAssumption, BoundAssumption, OrphansTyped
     DEF ScanInv, TypeOK, Crash, serverVars, runVars, history, NoJob, Fault
<1> QED BY <1>1, OrphansStep DEF Crash, InFolder

LEMMA CancelStep == ASSUME ScanInv, Cancel PROVE ScanInv'
<1>1. UNCHANGED <<box, uidnext, validity, assigned, rows, known, orphaned, pc, job>>
  BY DEF Cancel, serverVars, dbVars
<1>2. TypeOK'
  BY <1>1, BoundAssumption DEF ScanInv, TypeOK, Cancel, serverVars, dbVars, history, Fault
<1>3. UidsOK' /\ KnownOK' /\ NoHole' /\ RowsOK'
  BY <1>1 DEF ScanInv, UidsOK, KnownOK, NoHole, RowsOf, Kept, RowsOK, RowIsCurrent
<1>4. JobOK' /\ LoopOK' /\ ChunkOK'
  <2>1. /\ RowsOf(job.folder, Below(job.lo))' = RowsOf(job.folder, Below(job.lo))
        /\ RowsOf(job.folder, Below(job.hi + 1))' = RowsOf(job.folder, Below(job.hi + 1))
    BY <1>1 DEF Below, RowsOf, Kept
  <2>2. JobOK'
    BY <1>1 DEF ScanInv, JobOK, InFolder
  <2>3. LoopOK'
    BY <1>1, <2>1 DEF ScanInv, LoopOK, InLoop
  <2>4. ChunkOK'
    BY <1>1, <2>1 DEF ScanInv, ChunkOK
  <2> QED BY <2>2, <2>3, <2>4
<1> QED BY <1>2, <1>3, <1>4 DEF ScanInv

-----------------------------------------------------------------------------
\* Purges and rescans.

\* Between scans a folder's record stays, loses its cursor, or goes with its
\* rows.
LEMMA AdminStep ==
  ASSUME ScanInv, Admin, TypeOK',
         rows' \subseteq rows,
         \A r \in rows' : r.folder \notin orphaned' =>
           r.folder \notin orphaned /\ known'[r.folder] = known[r.folder],
         \A f \in Folders :
           \/ known'[f] = known[f] /\ \A r \in rows : r.folder = f => r \in rows'
           \/ known'[f].cursor = 0 /\ known'[f].validity \in {0, known[f].validity}
  PROVE  ScanInv'
<1>1. /\ UNCHANGED <<box, uidnext, validity, assigned, job>>
      /\ ~InFolder /\ ~InFolder' /\ pc # "cursor"
  BY DEF Admin, serverVars, Running, InFolder
<1>2. UidsOK'
  BY <1>1 DEF ScanInv, UidsOK
<1>3. JobOK' /\ LoopOK' /\ ChunkOK'
  BY <1>1 DEF JobOK, LoopOK, ChunkOK, InLoop, InFolder
<1>4. ASSUME NEW f \in Folders
      PROVE  /\ validity[f] \in Nat \ {0} /\ uidnext[f] \in Nat \ {0}
             /\ known[f].validity \in Nat /\ known[f].cursor \in Nat
             /\ box[f] \subseteq Entry
  BY MailAssumption DEF ScanInv, TypeOK, Uids
<1>5. KnownOK'
  <2> SUFFICES ASSUME NEW f \in Folders
               PROVE  /\ known'[f].validity <= validity[f]
                      /\ known'[f].validity = 0 => known'[f].cursor = 0
                      /\ known'[f].validity = validity[f] => known'[f].cursor < uidnext[f]
    BY <1>1 DEF KnownOK
  <2>1. CASE known'[f] = known[f]
    BY <2>1 DEF ScanInv, KnownOK
  <2>2. CASE known'[f].cursor = 0 /\ known'[f].validity \in {0, known[f].validity}
    BY <1>4, <2>2 DEF ScanInv, KnownOK
  <2> QED BY <2>1, <2>2
<1>6. NoHole'
  <2> SUFFICES ASSUME NEW f \in Folders, known'[f].validity = validity[f],
                      NEW e \in box[f], e.uid <= known'[f].cursor,
                      e.msg \notin Broken \cup Nameless
               PROVE  [folder |-> f, uid |-> e.uid, msg |-> e.msg] \in rows'
    BY <1>1 DEF NoHole, RowsOf, Kept
  <2> DEFINE r == [folder |-> f, uid |-> e.uid, msg |-> e.msg]
  <2>1. CASE known'[f] = known[f] /\ \A q \in rows : q.folder = f => q \in rows'
    <3>1. r \in rows
      BY <2>1 DEF ScanInv, NoHole, RowsOf, Kept
    <3>2. r.folder = f
      OBVIOUS
    <3> HIDE DEF r
    <3>3. r \in rows'
      BY <2>1, <3>1, <3>2
    <3> QED BY <3>3 DEF r
  <2>2. CASE known'[f].cursor = 0
    BY <1>4, <2>2, MailAssumption DEF Entry, Uids
  <2> QED BY <2>1, <2>2
<1>7. RowsOK'
  <2> SUFFICES ASSUME NEW r \in rows', r.folder \notin orphaned'
               PROVE  known'[r.folder].validity # 0 /\ RowIsCurrent(r)'
    BY DEF RowsOK
  <2>1. r \in rows /\ r.folder \notin orphaned /\ known'[r.folder] = known[r.folder]
    OBVIOUS
  <2> QED BY <1>1, <2>1 DEF ScanInv, RowsOK, RowIsCurrent
<1> QED BY <1>2, <1>3, <1>5, <1>6, <1>7 DEF ScanInv

LEMMA PurgeMessagesStep == ASSUME ScanInv, PurgeMessages PROVE ScanInv'
<1>1. /\ Admin /\ rows' = {} /\ orphaned' = {}
      /\ known' = [f \in Folders |-> [known[f] EXCEPT !.cursor = 0]]
  BY DEF PurgeMessages
<1>2. ASSUME NEW f \in Folders
      PROVE  /\ known'[f] \in [validity : Nat, cursor : 0 .. MaxUid]
             /\ known'[f].cursor = 0 /\ known'[f].validity = known[f].validity
  <2>1. known[f] \in [validity : Nat, cursor : 0 .. MaxUid]
    BY DEF ScanInv, TypeOK
  <2>2. known'[f] = [known[f] EXCEPT !.cursor = 0]
    BY <1>1
  <2> QED BY <2>1, <2>2, MailAssumption
<1>3. known' \in [Folders -> [validity : Nat, cursor : 0 .. MaxUid]]
  BY <1>1, <1>2
<1>4. TypeOK'
  BY <1>1, <1>3, BoundAssumption
     DEF ScanInv, TypeOK, PurgeMessages, Admin, Running, serverVars, runVars, history
<1> QED BY <1>1, <1>2, <1>4, AdminStep

LEMMA ResetFoldersStep == ASSUME ScanInv, ResetFolders PROVE ScanInv'
<1>1. PICK done \in SUBSET Folders :
        /\ IF done = Folders THEN UNCHANGED faults ELSE Fault("db")
        /\ rows' = {r \in rows : r.folder \notin done}
        /\ orphaned' = orphaned \ done
        /\ known' = [f \in Folders |-> IF f \in done THEN [validity |-> 0, cursor |-> 0]
                                                     ELSE known[f]]
  BY DEF ResetFolders
<1>2. Admin
  BY DEF ResetFolders
<1>3. ASSUME NEW f \in Folders
      PROVE  /\ known'[f] \in [validity : Nat, cursor : 0 .. MaxUid]
             /\ f \in done => known'[f].cursor = 0 /\ known'[f].validity = 0
             /\ f \notin done => known'[f] = known[f]
  <2>1. known[f] \in [validity : Nat, cursor : 0 .. MaxUid]
    BY DEF ScanInv, TypeOK
  <2>2. [validity |-> 0, cursor |-> 0] \in [validity : Nat, cursor : 0 .. MaxUid]
    BY MailAssumption
  <2> QED BY <1>1, <2>1, <2>2
<1>4. known' \in [Folders -> [validity : Nat, cursor : 0 .. MaxUid]]
  BY <1>1, <1>3
<1>5. faults' \in 0 .. MaxFaults
  BY <1>1, BoundAssumption DEF ScanInv, TypeOK, Fault
<1>6. TypeOK'
  BY <1>1, <1>2, <1>4, <1>5, BoundAssumption
     DEF ScanInv, TypeOK, Admin, Running, serverVars, runVars, history
<1>7. \A r \in rows : r.folder \in Folders
  BY DEF ScanInv, TypeOK, Row
<1>8. \A r \in rows' : r.folder \notin orphaned' =>
        r.folder \notin orphaned /\ known'[r.folder] = known[r.folder]
  BY <1>1, <1>3, <1>7
<1>9. \A f \in Folders :
        \/ known'[f] = known[f] /\ \A r \in rows : r.folder = f => r \in rows'
        \/ known'[f].cursor = 0 /\ known'[f].validity \in {0, known[f].validity}
  BY <1>1, <1>3
<1> QED BY <1>1, <1>2, <1>6, <1>8, <1>9, AdminStep

-----------------------------------------------------------------------------
\* The server and other clients.

\* Mail comes and goes above UIDNEXT, and a rebuilt mailbox is not the
\* selected one.
LEMMA ServerStep ==
  ASSUME ScanInv, TypeOK', UidsOK', UNCHANGED <<dbVars, pc, job>>,
         assigned \subseteq assigned',
         \A f \in Folders : uidnext[f] <= uidnext'[f],
         \A f \in Folders :
           \/ /\ validity'[f] = validity[f]
              /\ \A e \in box'[f] : e \in box[f] \/ e.uid >= uidnext[f]
           \/ f # Selected /\ validity'[f] = validity[f] + 1
  PROVE  ScanInv'
<1>1. UNCHANGED <<rows, known, orphaned, pc, job>>
  BY DEF dbVars
<1>2. ASSUME NEW f \in Folders
      PROVE  /\ validity[f] \in Nat /\ uidnext[f] \in Nat /\ uidnext'[f] \in Nat
             /\ known[f].validity \in Nat /\ known[f].cursor \in Nat
             /\ known[f].validity <= validity[f]
             /\ \A e \in box'[f] : e.uid \in Nat
  BY MailAssumption DEF ScanInv, TypeOK, KnownOK, Uids, Entry
<1>3. ASSUME NEW f \in Folders, known[f].validity = validity'[f]
      PROVE  /\ validity'[f] = validity[f]
             /\ \A e \in box'[f] : e \in box[f] \/ e.uid >= uidnext[f]
  BY <1>2, <1>3
<1>4. KnownOK'
  <2> SUFFICES ASSUME NEW f \in Folders
               PROVE  /\ known[f].validity <= validity'[f]
                      /\ known[f].validity = 0 => known[f].cursor = 0
                      /\ known[f].validity = validity'[f] => known[f].cursor < uidnext'[f]
    BY <1>1 DEF KnownOK
  <2>1. known[f].validity <= validity'[f]
    BY <1>2
  <2>2. ASSUME known[f].validity = validity'[f] PROVE known[f].cursor < uidnext'[f]
    <3>1. known[f].cursor < uidnext[f]
      BY <1>3, <2>2 DEF ScanInv, KnownOK
    <3> QED BY <1>2, <3>1
  <2> QED BY <2>1, <2>2 DEF ScanInv, KnownOK
<1>5. NoHole'
  <2> SUFFICES ASSUME NEW f \in Folders, known[f].validity = validity'[f],
                      NEW e \in box'[f], e.uid <= known[f].cursor,
                      e.msg \notin Broken \cup Nameless
               PROVE  [folder |-> f, uid |-> e.uid, msg |-> e.msg] \in rows
    BY <1>1 DEF NoHole, RowsOf, Kept
  <2>1. validity'[f] = validity[f] /\ (e \in box[f] \/ e.uid >= uidnext[f])
    BY <1>3
  <2>2. known[f].cursor < uidnext[f]
    BY <2>1 DEF ScanInv, KnownOK
  <2>3. e \in box[f]
    BY <1>2, <2>1, <2>2
  <2> QED BY <2>1, <2>3 DEF ScanInv, NoHole, RowsOf, Kept
<1>6. RowsOK'
  BY <1>1 DEF ScanInv, RowsOK, RowIsCurrent
<1>7. ASSUME InFolder
      PROVE  /\ job.folder \in Folders
             /\ validity'[job.folder] = validity[job.folder]
             /\ \A e \in box'[job.folder] : e \in box[job.folder] \/ e.uid >= uidnext[job.folder]
  <2>1. job.folder \in Folders /\ Selected = job.folder
    BY <1>7 DEF ScanInv, TypeOK, InFolder, Selected
  <2> QED BY <2>1
<1>8. JobOK'
  <2> SUFFICES ASSUME InFolder
               PROVE  /\ job.validity = validity'[job.folder]
                      /\ job.max < uidnext'[job.folder]
    BY <1>1 DEF JobOK, InFolder
  <2> QED BY <1>2, <1>7, MailAssumption DEF ScanInv, JobOK, TypeOK
<1>9. ASSUME InLoop, NEW n \in Nat, n <= uidnext[job.folder]
      PROVE  RowsOf(job.folder, {e \in box'[job.folder] : e.uid < n})
               \subseteq RowsOf(job.folder, Below(n))
  <2> SUFFICES ASSUME NEW e \in box'[job.folder], e.uid < n
               PROVE  e \in box[job.folder]
    BY DEF RowsOf, Below, Kept
  <2> QED BY <1>2, <1>7, <1>9, InLoopFacts
<1>10. LoopOK'
  <2> SUFFICES ASSUME InLoop PROVE LoopOK'
    BY <1>1 DEF LoopOK, InLoop
  <2>1. RowsOf(job.folder, Below(job.lo))' \subseteq rows
    <3>1. RowsOf(job.folder, Below(job.lo)) \subseteq rows /\ job.lo <= uidnext[job.folder]
      BY DEF ScanInv, LoopOK
    <3>2. RowsOf(job.folder, {e \in box'[job.folder] : e.uid < job.lo})
            \subseteq RowsOf(job.folder, Below(job.lo))
      BY <1>9, <3>1, InLoopFacts
    <3>3. RowsOf(job.folder, Below(job.lo))'
            = RowsOf(job.folder, {e \in box'[job.folder] : e.uid < job.lo})
      BY <1>1 DEF RowsOf, Below, Kept
    <3> QED BY <3>1, <3>2, <3>3
  <2>2. job.last < uidnext'[job.folder] /\ job.lo <= uidnext'[job.folder]
    BY <1>2, InLoopFacts DEF ScanInv, LoopOK
  <2> QED BY <1>1, <2>1, <2>2 DEF ScanInv, LoopOK
<1>11. ChunkOK'
  <2> SUFFICES ASSUME pc \in {"insert", "cursor"} PROVE ChunkOK'
    BY <1>1 DEF ChunkOK
  <2>1. InLoop /\ job.hi < uidnext[job.folder]
    BY DEF ScanInv, ChunkOK, InLoop
  <2>2. RowsOf(job.folder, Below(job.hi + 1))' \subseteq RowsOf(job.folder, Below(job.hi + 1))
    <3>1. job.hi + 1 \in Nat /\ job.hi + 1 <= uidnext[job.folder]
      BY <2>1, InLoopFacts DEF Uids
    <3>2. RowsOf(job.folder, {e \in box'[job.folder] : e.uid < job.hi + 1})
            \subseteq RowsOf(job.folder, Below(job.hi + 1))
      BY <1>9, <2>1, <3>1
    <3>3. RowsOf(job.folder, Below(job.hi + 1))'
            = RowsOf(job.folder, {e \in box'[job.folder] : e.uid < job.hi + 1})
      BY <1>1 DEF RowsOf, Below, Kept
    <3> QED BY <3>2, <3>3
  <2>3. job.hi < uidnext'[job.folder]
    BY <1>2, <2>1, InLoopFacts
  <2>4. ASSUME NEW g \in job.got
        PROVE  /\ g.folder = job.folder /\ g.uid <= job.hi
               /\ Stamps(g.folder, job.validity, {g}) \subseteq assigned'
               /\ \A e \in box'[g.folder] : e.uid = g.uid => e.msg = g.msg
    <3>1. /\ g.folder = job.folder /\ g.uid <= job.hi
          /\ Stamps(g.folder, job.validity, {g}) \subseteq assigned
          /\ \A e \in box[g.folder] : e.uid = g.uid => e.msg = g.msg
      BY DEF ScanInv, ChunkOK
    <3>2. \A e \in box'[g.folder] : e.uid = g.uid => e \in box[g.folder]
      <4> SUFFICES ASSUME NEW e \in box'[job.folder], e.uid = g.uid
                   PROVE  e \in box[job.folder]
        BY <3>1
      <4>1. e.uid < uidnext[job.folder]
        BY <1>2, <2>1, <3>1, InLoopFacts
      <4> QED BY <1>2, <1>7, <2>1, <4>1, InLoopFacts
    <3> QED BY <3>1, <3>2
  <2> QED BY <1>1, <2>2, <2>3, <2>4 DEF ScanInv, ChunkOK
<1> QED BY <1>4, <1>5, <1>6, <1>8, <1>10, <1>11 DEF ScanInv

LEMMA ArrivesStep == ASSUME ScanInv, Arrives PROVE ScanInv'
<1>1. PICK f \in Folders, m \in unsent :
        /\ uidnext[f] < MaxUid
        /\ box' = [box EXCEPT ![f] = @ \cup {[uid |-> uidnext[f], msg |-> m]}]
        /\ uidnext' = [uidnext EXCEPT ![f] = uidnext[f] + 1]
        /\ unsent' = unsent \ {m}
        /\ assigned' = assigned \cup Stamps(f, validity[f], {[uid |-> uidnext[f], msg |-> m]})
  BY DEF Arrives
<1> DEFINE e == [uid |-> uidnext[f], msg |-> m]
<1>2. UNCHANGED <<validity, dbVars, runVars, history, pc, job, result, faults, scans>>
  BY DEF Arrives, Server
<1>3. /\ uidnext[f] \in Uids /\ MaxUid \in Nat /\ e \in Entry /\ validity[f] \in Nat
      /\ uidnext'[f] = uidnext[f] + 1 /\ uidnext'[f] \in Uids
      /\ box'[f] = box[f] \cup {e}
      /\ \A b \in Folders : b # f => box'[b] = box[b] /\ uidnext'[b] = uidnext[b]
  BY <1>1, MailAssumption DEF ScanInv, TypeOK, Uids, Entry
<1>4. \A b \in Folders : \A d \in box[b] : d.uid < uidnext[b]
  BY DEF ScanInv, UidsOK
<1>5. Stamps(f, validity[f], {e}) \subseteq Stamp /\ Stamps(f, validity[f], {e}) \subseteq assigned'
  BY <1>1, <1>3 DEF Stamps, Stamp, Entry
<1>6. TypeOK'
  <2>1. box' \in [Folders -> SUBSET Entry] /\ uidnext' \in [Folders -> Uids]
    BY <1>1, <1>3 DEF ScanInv, TypeOK
  <2>2. unsent' \subseteq Messages /\ assigned' \subseteq Stamp
    BY <1>1, <1>5 DEF ScanInv, TypeOK
  <2>3. acts' \in 0 .. MaxActs
    BY BoundAssumption DEF ScanInv, TypeOK, Arrives, Server
  <2> QED BY <1>2, <2>1, <2>2, <2>3 DEF ScanInv, TypeOK, dbVars, runVars, history
<1>7. UidsOK'
  <2> SUFFICES ASSUME NEW b \in Folders, NEW x \in box'[b]
               PROVE  /\ x.uid < uidnext'[b]
                      /\ \A d \in box'[b] : d.uid = x.uid => d = x
                      /\ Stamps(b, validity[b], {x}) \subseteq assigned'
    BY <1>2 DEF UidsOK
  <2>1. CASE b # f
    BY <1>1, <1>3, <2>1 DEF ScanInv, UidsOK
  <2>2. CASE b = f
    <3>1. x.uid < uidnext[f] + 1
      BY <1>3, <1>4, <2>2 DEF ScanInv, TypeOK, Entry, Uids
    <3>2. ASSUME NEW d \in box'[b], d.uid = x.uid PROVE d = x
      <4>1. e.uid = uidnext[f]
        OBVIOUS
      <4>2. (d \in box[f] \/ d = e) /\ (x \in box[f] \/ x = e)
        BY <1>3, <2>2
      <4>3. \A y \in box[f] : y.uid # uidnext[f]
        BY <1>3, <1>4 DEF ScanInv, TypeOK, Entry, Uids
      <4> QED BY <3>2, <4>1, <4>2, <4>3 DEF ScanInv, UidsOK
    <3>3. Stamps(b, validity[b], {x}) \subseteq assigned'
      BY <1>1, <1>3, <1>5, <2>2 DEF ScanInv, UidsOK
    <3> QED BY <1>3, <2>2, <3>1, <3>2, <3>3
  <2> QED BY <2>1, <2>2
<1>8. \A b \in Folders : uidnext[b] <= uidnext'[b]
  BY <1>3 DEF ScanInv, TypeOK, Uids
<1>9. \A b \in Folders :
        /\ validity'[b] = validity[b]
        /\ \A x \in box'[b] : x \in box[b] \/ x.uid >= uidnext[b]
  BY <1>2, <1>3 DEF Uids
<1> QED BY <1>1, <1>2, <1>6, <1>7, <1>8, <1>9, ServerStep

LEMMA ExpungedStep == ASSUME ScanInv, Expunged PROVE ScanInv'
<1>1. PICK f \in Folders : \E e \in box[f] : box' = [box EXCEPT ![f] = box[f] \ {e}]
  BY DEF Expunged
<1>2. UNCHANGED <<uidnext, validity, unsent, assigned, dbVars, runVars, history, pc, job,
                  result, faults, scans>>
  BY DEF Expunged, Server
<1>3. box' \in [Folders -> SUBSET Entry] /\ \A b \in Folders : box'[b] \subseteq box[b]
  BY <1>1 DEF ScanInv, TypeOK
<1>4. acts' \in 0 .. MaxActs
  BY BoundAssumption DEF ScanInv, TypeOK, Expunged, Server
<1>5. TypeOK'
  BY <1>2, <1>3, <1>4 DEF ScanInv, TypeOK, dbVars, runVars, history
<1>6. UidsOK'
  BY <1>2, <1>3 DEF ScanInv, UidsOK
<1>7. \A b \in Folders : uidnext[b] <= uidnext'[b]
  BY <1>2 DEF ScanInv, TypeOK, Uids
<1> QED BY <1>2, <1>3, <1>5, <1>6, <1>7, ServerStep

LEMMA RebuiltStep == ASSUME ScanInv, Rebuilt PROVE ScanInv'
<1>1. PICK f \in Folders \ {Selected} :
        LET es == {[uid |-> uidnext[f] - e.uid, msg |-> e.msg] : e \in box[f]}
        IN  /\ box' = [box EXCEPT ![f] = es]
            /\ validity' = [validity EXCEPT ![f] = @ + 1]
            /\ assigned' = assigned \cup Stamps(f, validity[f] + 1, es)
  BY DEF Rebuilt
<1>2. UNCHANGED <<uidnext, unsent, dbVars, runVars, history, pc, job, result, faults, scans>>
  BY DEF Rebuilt, Server
<1> DEFINE es == {[uid |-> uidnext[f] - e.uid, msg |-> e.msg] : e \in box[f]}
<1>3. /\ uidnext[f] \in Uids /\ MaxUid \in Nat /\ validity[f] \in Nat \ {0}
      /\ box[f] \subseteq Entry /\ \A e \in box[f] : e.uid < uidnext[f]
  BY MailAssumption DEF ScanInv, TypeOK, UidsOK
<1>4. /\ box' = [box EXCEPT ![f] = es]
      /\ validity' = [validity EXCEPT ![f] = validity[f] + 1]
      /\ assigned' = assigned \cup Stamps(f, validity[f] + 1, es)
  BY <1>1
<1>5. es \subseteq Entry /\ \A d \in es : d.uid < uidnext[f]
  BY <1>3 DEF Entry, Uids
<1>6. \A c, d \in es : c.uid = d.uid => c = d
  <2> SUFFICES ASSUME NEW c \in box[f], NEW d \in box[f],
                      uidnext[f] - c.uid = uidnext[f] - d.uid
               PROVE  c = d
    OBVIOUS
  <2>1. c.uid = d.uid
    BY <1>3 DEF Entry, Uids
  <2> QED BY <2>1 DEF ScanInv, UidsOK
<1> HIDE DEF es
<1>7. Stamps(f, validity[f] + 1, es) \subseteq Stamp
  BY <1>3, <1>5 DEF Stamps, Stamp, Entry
<1>8. TypeOK'
  <2>1. box' \in [Folders -> SUBSET Entry] /\ validity' \in [Folders -> Nat \ {0}]
    BY <1>3, <1>4, <1>5 DEF ScanInv, TypeOK
  <2>2. assigned' \subseteq Stamp
    BY <1>4, <1>7 DEF ScanInv, TypeOK
  <2>3. acts' \in 0 .. MaxActs
    BY BoundAssumption DEF ScanInv, TypeOK, Rebuilt, Server
  <2> QED BY <1>2, <2>1, <2>2, <2>3 DEF ScanInv, TypeOK, dbVars, runVars, history
<1>9. /\ box'[f] = es /\ validity'[f] = validity[f] + 1
       /\ \A b \in Folders : b # f => box'[b] = box[b] /\ validity'[b] = validity[b]
  BY <1>4 DEF ScanInv, TypeOK
<1>10. UidsOK'
  <2> SUFFICES ASSUME NEW b \in Folders, NEW x \in box'[b]
               PROVE  /\ x.uid < uidnext[b]
                      /\ \A d \in box'[b] : d.uid = x.uid => d = x
                      /\ Stamps(b, validity'[b], {x}) \subseteq assigned'
    BY <1>2 DEF UidsOK
  <2>1. CASE b # f
    BY <1>4, <1>9, <2>1 DEF ScanInv, UidsOK
  <2>2. CASE b = f
    <3>1. Stamps(f, validity[f] + 1, {x}) \subseteq Stamps(f, validity[f] + 1, es)
      BY <1>9, <2>2 DEF Stamps
    <3> QED BY <1>4, <1>5, <1>6, <1>9, <2>2, <3>1
  <2> QED BY <2>1, <2>2
<1>11. \A b \in Folders : uidnext[b] <= uidnext'[b]
  BY <1>2 DEF ScanInv, TypeOK, Uids
<1>12. \A b \in Folders :
         \/ /\ validity'[b] = validity[b]
            /\ \A x \in box'[b] : x \in box[b] \/ x.uid >= uidnext[b]
         \/ b # Selected /\ validity'[b] = validity[b] + 1
  BY <1>9
<1> QED BY <1>2, <1>4, <1>8, <1>10, <1>11, <1>12, ServerStep

-----------------------------------------------------------------------------
\* The induction.

LEMMA InitHolds == Init => ScanInv
<1> SUFFICES ASSUME Init PROVE ScanInv
  OBVIOUS
<1>1. ASSUME NEW f \in Folders, NEW es, es \subseteq Entry
      PROVE  Stamps(f, 1, es) \subseteq Stamp
  BY <1>1 DEF Stamps, Stamp, Entry
<1>2. assigned \subseteq Stamp
  BY <1>1, MailAssumption DEF Init
<1>3. TypeOK
  <2>1. 0 \in 0 .. MaxUid /\ 0 \in 0 .. MaxFaults /\ 0 \in 0 .. MaxActs /\ 0 \in 0 .. MaxScans
    BY MailAssumption, BoundAssumption
  <2>2. NoJob \in [folder : Folders \cup {"none"}, validity : Nat, open : BOOLEAN,
                   last : 0 .. MaxUid, lo : 0 .. MaxUid, hi : 0 .. MaxUid, max : 0 .. MaxUid,
                   got : SUBSET Row, seen : SUBSET Senders]
    BY <2>1 DEF NoJob
  <2>3. NoJob.folder = "none"
    BY DEF NoJob
  <2>4. /\ known \in [Folders -> [validity : Nat, cursor : 0 .. MaxUid]]
        /\ validity \in [Folders -> Nat \ {0}] /\ unsent \subseteq Messages
        /\ box \in [Folders -> SUBSET Entry] /\ uidnext \in [Folders -> Uids]
    BY <2>1, MailAssumption DEF Init
  <2> QED BY <1>2, <2>1, <2>2, <2>3, <2>4 DEF Init, TypeOK
<1>4. UidsOK
  <2> SUFFICES ASSUME NEW f \in Folders, NEW e \in Mail0[f]
               PROVE  /\ e.uid < Next0[f]
                      /\ \A d \in Mail0[f] : d.uid = e.uid => d = e
                      /\ Stamps(f, 1, {e}) \subseteq assigned
    BY DEF Init, UidsOK
  <2>1. Stamps(f, 1, {e}) \subseteq Stamps(f, 1, Mail0[f])
    BY DEF Stamps
  <2>2. Stamps(f, 1, Mail0[f]) \subseteq assigned
    BY DEF Init
  <2>3. e.uid < Next0[f] /\ \A d \in Mail0[f] : d.uid = e.uid => d = e
    BY MailAssumption
  <2> QED BY <2>1, <2>2, <2>3
<1>5. KnownOK
  BY MailAssumption DEF Init, KnownOK, Uids
<1>6. JobOK /\ LoopOK /\ ChunkOK /\ RowsOK
  BY DEF Init, JobOK, LoopOK, ChunkOK, RowsOK, InFolder, InLoop
<1>7. NoHole
  BY DEF Init, NoHole
<1> QED BY <1>3, <1>4, <1>5, <1>6, <1>7 DEF ScanInv

LEMMA StutterStep == ASSUME ScanInv, UNCHANGED vars PROVE ScanInv'
<1>1. UNCHANGED <<box, uidnext, validity, unsent, assigned, rows, known, senders, orphaned,
                  todo, reached, missed, cancelled, promised, noted, pc, job, result,
                  faults, acts, scans>>
  BY DEF vars, serverVars, dbVars, runVars, history
<1>2. TypeOK'
  BY <1>1 DEF ScanInv, TypeOK
<1>3. UidsOK' /\ KnownOK' /\ NoHole' /\ RowsOK'
  BY <1>1 DEF ScanInv, UidsOK, KnownOK, NoHole, RowsOf, Kept, RowsOK, RowIsCurrent
<1>4. JobOK' /\ LoopOK' /\ ChunkOK'
  <2>1. /\ RowsOf(job.folder, Below(job.lo))' = RowsOf(job.folder, Below(job.lo))
        /\ RowsOf(job.folder, Below(job.hi + 1))' = RowsOf(job.folder, Below(job.hi + 1))
    BY <1>1 DEF Below, RowsOf, Kept
  <2>2. JobOK'
    BY <1>1 DEF ScanInv, JobOK, InFolder
  <2>3. LoopOK'
    BY <1>1, <2>1 DEF ScanInv, LoopOK, InLoop
  <2>4. ChunkOK'
    BY <1>1, <2>1 DEF ScanInv, ChunkOK
  <2> QED BY <2>2, <2>3, <2>4
<1> QED BY <1>2, <1>3, <1>4 DEF ScanInv

LEMMA StepHolds == ScanInv /\ [Next]_vars => ScanInv'
<1> SUFFICES ASSUME ScanInv, [Next]_vars PROVE ScanInv'
  OBVIOUS
<1>1. CASE StartScan
  BY <1>1, StartScanStep
<1>2. CASE ScanStep
  BY <1>2, NextFolderStep, EndOfFoldersStep, SelectFolderStep, MissFolderStep,
     KeepCursorStep, ResetFolderStep, OpenFailsStep, FetchHeadersStep, FetchFailsStep,
     InsertMessagesStep, InsertFailsStep, SetFolderCursorStep, CursorFailsStep,
     TouchSendersStep, TouchFailsStep
     DEF ScanStep
<1>3. CASE Cancel \/ Crash
  BY <1>3, CancelStep, CrashStep
<1>4. CASE PurgeMessages \/ ResetFolders
  BY <1>4, PurgeMessagesStep, ResetFoldersStep
<1>5. CASE Arrives \/ Expunged \/ Rebuilt
  BY <1>5, ArrivesStep, ExpungedStep, RebuiltStep
<1>6. CASE UNCHANGED vars
  BY <1>6, StutterStep
<1> QED BY <1>1, <1>2, <1>3, <1>4, <1>5, <1>6 DEF Next

LEMMA Inductive == Spec => []ScanInv
BY InitHolds, StepHolds, PTL DEF Spec

\* Every variable keeps its type; in particular UIDs, cursors and chunk bounds
\* stay in the word they are kept in (Word is never reached past MaxUid).
THEOREM ScanTypeCorrect == Spec => []TypeOK
<1>1. ScanInv => TypeOK
  BY DEF ScanInv
<1> QED BY <1>1, Inductive, PTL

\* Whatever fails, is cancelled, crashes, is purged or is rebuilt, and for every
\* mailbox, chunk size and UIDNEXT: a message at or below a cursor that is good
\* for the server's UIDVALIDITY has its row.
THEOREM NoHoleHolds == Spec => []NoHole
<1>1. ScanInv => NoHole
  BY DEF ScanInv
<1> QED BY <1>1, Inductive, PTL

\* No row outlives the mailbox it was read from, but for those of a first scan
\* whose cursor was never stored (orphaned).
THEOREM RowsCurrentHolds == Spec => []RowsCurrent
<1>1. ScanInv => RowsCurrent
  BY DEF ScanInv, RowsOK, RowsCurrent
<1> QED BY <1>1, Inductive, PTL

-----------------------------------------------------------------------------
\* The cursor of a folder.

\* Inside a scan the cursor of an unchanged UIDVALIDITY only grows.
LEMMA ScanAdvances ==
  ASSUME ScanInv, SetFolderCursor, NEW f \in Folders, CursorBack(f)
  PROVE  FALSE
<1>1. pc = "cursor" /\ InLoop
  BY DEF SetFolderCursor, InLoop
<1>2. /\ f = job.folder /\ ~Unmoved
      /\ known'[f] = [validity |-> job.validity, cursor |-> job.hi]
  <2>1. known[f].cursor \in Nat
    BY MailAssumption DEF ScanInv, TypeOK
  <2> QED BY <2>1 DEF ScanInv, TypeOK, SetFolderCursor, CursorBack
<1>3. /\ known[f].cursor < job.lo
      /\ job.open => job.lo = job.last + 1
      /\ job.open \/ job.lo <= job.hi
  BY <1>1, <1>2 DEF ScanInv, LoopOK, ChunkOK
<1>4. job.open => job.last < job.hi
  BY <1>1, <1>2, InLoopFacts DEF Unmoved
<1>5. known[f].cursor \in Nat /\ job.hi < known[f].cursor
  BY <1>2, MailAssumption DEF ScanInv, TypeOK, CursorBack
<1> QED BY <1>1, <1>3, <1>4, <1>5, InLoopFacts

\* A cursor that goes back takes the folder's rows with it.
LEMMA BackStep ==
  ASSUME ScanInv, [Next]_vars, NEW f \in Folders, CursorBack(f)
  PROVE  \A r \in rows' : r.folder # f
<1>1. known'[f].cursor # known[f].cursor /\ known' # known
  BY MailAssumption DEF ScanInv, TypeOK, CursorBack
<1>2. CASE ResetFolder
  BY <1>1, <1>2 DEF ScanInv, TypeOK, ResetFolder, Forget
<1>3. CASE SetFolderCursor
  BY <1>3, ScanAdvances
<1>4. CASE PurgeMessages
  BY <1>4 DEF PurgeMessages
<1>5. CASE ResetFolders
  BY <1>1, <1>5 DEF ScanInv, TypeOK, ResetFolders
<1>6. ASSUME ~(ResetFolder \/ SetFolderCursor \/ PurgeMessages \/ ResetFolders)
      PROVE  UNCHANGED known
  <2>1. CASE ScanStep
    BY <1>6, <2>1
       DEF ScanStep, NextFolder, EndOfFolders, SelectFolder, MissFolder, KeepCursor,
           OpenFails, FetchHeaders, FetchFails, InsertMessages, InsertFails, CursorFails,
           TouchSenders, TouchFails, dbVars
  <2>2. CASE ~ScanStep
    BY <1>6, <2>2
       DEF Next, StartScan, Cancel, Crash, Arrives, Expunged, Rebuilt, Server, dbVars, vars
  <2> QED BY <2>1, <2>2
<1> QED BY <1>1, <1>2, <1>3, <1>4, <1>5, <1>6

\* For every mailbox and chunk size: a stored cursor never goes back under the
\* same UIDVALIDITY while rows of the folder stay, so no scan undoes the
\* progress of an earlier one.
THEOREM CursorAdvancesHolds == Spec => CursorAdvances
<1>1. ScanInv /\ [Next]_vars
        => [\A f \in Folders : CursorBack(f) => \A r \in rows' : r.folder # f]_vars
  BY BackStep
<1> QED BY <1>1, Inductive, PTL DEF Spec, CursorAdvances

-----------------------------------------------------------------------------
\* The senders a scan came across.

LEMMA NotedStep ==
  ASSUME ScanInv, ResultOK, NotedInv, [Next]_vars
  PROVE  NotedInv'
<1>1. TypeOK
  BY DEF ScanInv
<1>2. CASE StartScan
  BY <1>2 DEF StartScan, NotedInv
<1>3. CASE NextFolder
  BY <1>3 DEF NextFolder, Return, NoJob, NotedInv, Running, history, dbVars
<1>4. CASE EndOfFolders \/ MissFolder \/ OpenFails \/ InsertFails
  BY <1>4 DEF EndOfFolders, MissFolder, OpenFails, InsertFails, LeaveFolder, Return, NoJob, NotedInv,
              Running, history, dbVars
<1>5. CASE SelectFolder
  <2>1. job'.seen = job.seen
    BY <1>1, <1>5 DEF SelectFolder, TypeOK
  <2> QED BY <1>5, <2>1 DEF SelectFolder, NotedInv, Running, dbVars
<1>6. CASE KeepCursor \/ ResetFolder
  <2>1. pc = "open" /\ UNCHANGED <<noted, senders>> /\ \E last : Resume(last)
    BY <1>6 DEF KeepCursor, ResetFolder, dbVars, history
  <2>2. PICK last : Resume(last)
    BY <2>1
  <2>3. pc' \in {"next", "chunk"} /\ job'.seen = {}
    <3>1. job.seen = {}
      BY <2>1 DEF NotedInv
    <3>2. CASE LeaveFolder
      BY <3>2 DEF LeaveFolder, NoJob
    <3>3. CASE pc' = "chunk" /\ job' = [job EXCEPT !.last = last, !.lo = last + 1]
      BY <1>1, <3>1, <3>3 DEF TypeOK
    <3> QED BY <2>2, <3>2, <3>3 DEF Resume
  <2> QED BY <1>6, <2>1, <2>3 DEF NotedInv, Running
<1>7. CASE FetchHeaders
  <2>1. job'.seen = job.seen \cup SendersIn(Fetched)
    BY <1>1, <1>7 DEF FetchHeaders, TypeOK
  <2> QED BY <1>7, <2>1 DEF FetchHeaders, NotedInv, Running, dbVars
<1>8. CASE FetchFails
  <2>1. PICK some \in SUBSET Fetched :
          /\ job' = [job EXCEPT !.seen = @ \cup SendersIn(some)]
          /\ noted' = noted \cup SendersIn(some)
    BY <1>8 DEF FetchFails
  <2>2. job'.seen = job.seen \cup SendersIn(some)
    BY <1>1, <2>1 DEF TypeOK
  <2> QED BY <1>8, <2>1, <2>2 DEF FetchFails, NotedInv, Running, dbVars
<1>9. CASE InsertMessages
  BY <1>9 DEF InsertMessages, NotedInv, Running, history
<1>10. CASE SetFolderCursor
  <2>1. pc' \in {"touch", "chunk"} /\ job'.seen = job.seen
    BY <1>1, <1>10 DEF SetFolderCursor, AfterChunk, TypeOK
  <2> QED BY <1>10, <2>1 DEF SetFolderCursor, NotedInv, Running, history
<1>11. CASE CursorFails \/ TouchFails
  BY <1>11 DEF CursorFails, TouchFails, Return, NoJob, NotedInv, Running, history, dbVars
<1>12. CASE TouchSenders
  BY <1>12 DEF TouchSenders, LeaveFolder, Return, NoJob, NotedInv, Running, history
<1>13. CASE Cancel
  BY <1>13 DEF Cancel, NotedInv, Running, history, dbVars
<1>14. CASE Crash
  BY <1>14 DEF Crash, NoJob, NotedInv, Running
<1>15. CASE PurgeMessages \/ ResetFolders
  BY <1>15 DEF PurgeMessages, ResetFolders, Admin, NotedInv, Running
<1>16. CASE Arrives \/ Expunged \/ Rebuilt \/ UNCHANGED vars
  BY <1>16 DEF Arrives, Expunged, Rebuilt, Server, NotedInv, Running, dbVars, history, vars
<1> QED BY <1>2, <1>3, <1>4, <1>5, <1>6, <1>7, <1>8, <1>9, <1>10, <1>11, <1>12, <1>13, <1>14,
           <1>15, <1>16 DEF Next, ScanStep

LEMMA ResultStep ==
  ASSUME ScanInv, ResultOK, [Next]_vars
  PROVE  ResultOK'
<1>1. CASE StartScan \/ Cancel \/ Crash
  BY <1>1 DEF StartScan, Cancel, Crash, ResultOK, Running
<1>2. CASE NextFolder \/ EndOfFolders \/ SelectFolder \/ MissFolder
  BY <1>2 DEF NextFolder, EndOfFolders, SelectFolder, MissFolder, LeaveFolder, Return, ResultOK, Running
<1>3. CASE KeepCursor \/ ResetFolder \/ OpenFails
  BY <1>3 DEF KeepCursor, ResetFolder, OpenFails, Resume, LeaveFolder, Return, ResultOK, Running
<1>4. CASE FetchHeaders \/ FetchFails \/ InsertMessages \/ InsertFails
  BY <1>4 DEF FetchHeaders, FetchFails, InsertMessages, InsertFails, Return, ResultOK, Running
<1>5. CASE SetFolderCursor \/ CursorFails
  BY <1>5 DEF SetFolderCursor, AfterChunk, CursorFails, Return, ResultOK, Running
<1>6. CASE TouchSenders \/ TouchFails
  BY <1>6 DEF TouchSenders, TouchFails, LeaveFolder, Return, ResultOK, Running
<1>7. CASE PurgeMessages \/ ResetFolders
  BY <1>7 DEF PurgeMessages, ResetFolders, Admin, ResultOK, Running
<1>8. CASE Arrives \/ Expunged \/ Rebuilt \/ UNCHANGED vars
  BY <1>8 DEF Arrives, Expunged, Rebuilt, Server, ResultOK, Running, vars
<1> QED BY <1>1, <1>2, <1>3, <1>4, <1>5, <1>6, <1>7, <1>8 DEF Next, ScanStep

LEMMA NotedInvHolds == Spec => [](ResultOK /\ NotedInv)
<1>1. Init => ResultOK /\ NotedInv
  BY DEF Init, ResultOK, NotedInv, Running, NoJob
<1>2. ScanInv /\ (ResultOK /\ NotedInv) /\ [Next]_vars => (ResultOK /\ NotedInv)'
  BY ResultStep, NotedStep
<1> QED BY <1>1, <1>2, Inductive, PTL DEF Spec

\* Of all messages a scan came across, whatever chunk and folder they were in,
\* the senders are recorded when it returns without an error, and also when a
\* fetch failed or was cancelled (touch).
THEOREM SendersRecordedHolds == Spec => []SendersRecorded
<1>1. NotedInv => SendersRecorded
  BY DEF NotedInv, SendersRecorded
<1> QED BY <1>1, NotedInvHolds, PTL

-----------------------------------------------------------------------------
\* What was promised.

EntryOf(p) == [uid |-> p.uid, msg |-> p.msg]

LEMMA CoveredIs ==
  ASSUME NEW p, NEW stored
  PROVE  CoveredBy(p, stored) <=>
           (p.validity = validity[p.folder] /\ EntryOf(p) \in box[p.folder]
              /\ p.msg \notin Broken \cup Nameless
            => [folder |-> p.folder, uid |-> p.uid, msg |-> p.msg] \in stored)
BY DEF CoveredBy, EntryOf, RowsOf, Kept

LEMMA PromisedTyped ==
  ASSUME ScanInv, NEW p \in promised
  PROVE  p.folder \in Folders /\ p.validity \in Nat /\ p.uid \in Nat \ {0} /\ p.msg \in Messages
BY DEF ScanInv, TypeOK, Stamp, Uids

\* A step that neither selects a folder nor is the server's.
LEMMA PromiseQuiet ==
  ASSUME PromiseOK, UNCHANGED <<uidnext, validity, promised>>,
         pc' \in {"open", "chunk", "insert", "cursor"} =>
           /\ pc \in {"open", "chunk", "insert", "cursor"}
           /\ job'.folder = job.folder /\ job'.validity = job.validity /\ job'.max = job.max
  PROVE  PromiseOK'
BY DEF PromiseOK

\* A scan that ends with an error, or is over, promises nothing any more.
LEMMA GivenUpStep ==
  ASSUME PromiseOK, UNCHANGED <<uidnext, validity, promised>>,
         pc' \in {"idle", "ended", "touch"}, pc' = "ended" => result' # "nil",
         pc' = "touch" => result' # "none"
  PROVE  PromiseOK' /\ CoverOK'
<1>1. PromiseOK'
  BY PromiseQuiet
<1>2. CoverOK'
  BY DEF CoverOK
<1> QED BY <1>1, <1>2

\* Between the folders all promises are kept as they were.
LEMMA BetweenStep ==
  ASSUME PromiseOK, CoverOK, UNCHANGED <<box, uidnext, validity, promised, rows>>,
         pc \in {"next", "select"} \/ (pc = "touch" /\ result = "none"),
         pc' \in {"next", "select", "ended"}
  PROVE  PromiseOK' /\ CoverOK'
<1>1. PromiseOK'
  BY PromiseQuiet
<1>2. \A p \in promised : CoveredBy(p, rows)
  BY DEF CoverOK
<1>3. \A p \in promised' : CoveredBy(p, rows)'
  <2> SUFFICES ASSUME NEW p \in promised PROVE CoveredBy(p, rows)'
    OBVIOUS
  <2> QED BY <1>2 DEF CoveredBy, RowsOf, Kept
<1>4. CoverOK'
  BY <1>3 DEF CoverOK
<1> QED BY <1>1, <1>4

\* The folder is through, or its loop begins: rows of other folders stay.
LEMMA OpenedStep ==
  ASSUME ScanInv, CoverInv, pc = "open", NEW last \in 0 .. MaxUid, Resume(last),
         UNCHANGED <<box, uidnext, validity, promised, result>>,
         \A r \in rows : r.folder # job.folder => r \in rows',
         \A p \in promised : p.folder = job.folder /\ p.uid <= last => CoveredBy(p, rows)'
  PROVE  PromiseOK' /\ CoverOK'
<1>1. \A p \in promised : p.folder # job.folder => CoveredBy(p, rows)'
  <2> SUFFICES ASSUME NEW p \in promised, p.folder # job.folder PROVE CoveredBy(p, rows)'
    OBVIOUS
  <2>1. CoveredBy(p, rows)
    BY DEF CoverInv, CoverOK
  <2> DEFINE r == [folder |-> p.folder, uid |-> p.uid, msg |-> p.msg]
  <2>2. r \in rows => r \in rows'
    BY DEF CoverInv
  <2> QED BY <2>1, <2>2 DEF CoveredBy, RowsOf, Kept
<1>2. CASE ~job.open /\ job.max <= last
  <2>1. pc' = "next" /\ job' = NoJob
    BY <1>2 DEF Resume, LeaveFolder
  <2>2. ASSUME NEW p \in promised, p.folder = job.folder
        PROVE  CoveredBy(p, rows)'
    <3>1. CASE p.validity = validity[job.folder]
      <4>1. job.validity = validity[job.folder]
        BY DEF ScanInv, JobOK, InFolder
      <4>2. p.uid <= job.max /\ job.max \in Nat
        BY <2>2, <3>1, <4>1 DEF CoverInv, PromiseOK, ScanInv, TypeOK
      <4>3. p.uid <= last
        BY <1>2, <4>2, PromisedTyped
      <4> QED BY <2>2, <4>3
    <3>2. CASE p.validity # validity[job.folder]
      BY <2>2, <3>2 DEF CoveredBy
    <3> QED BY <3>1, <3>2
  <2>3. PromiseOK'
    BY <2>1, PromiseQuiet DEF CoverInv
  <2>4. CoverOK'
    BY <1>1, <2>1, <2>2 DEF CoverOK
  <2> QED BY <2>3, <2>4
<1>3. CASE ~(~job.open /\ job.max <= last)
  <2>1. pc' = "chunk" /\ job' = [job EXCEPT !.last = last, !.lo = last + 1]
    BY <1>3 DEF Resume
  <2>2. job'.folder = job.folder /\ job'.validity = job.validity /\ job'.max = job.max
    BY <2>1 DEF ScanInv, TypeOK
  <2>3. PromiseOK'
    BY <2>1, <2>2, PromiseQuiet DEF CoverInv
  <2>4. CoverOK'
    BY <1>1, <2>1, <2>2 DEF CoverOK
  <2> QED BY <2>3, <2>4
<1> QED BY <1>2, <1>3

LEMMA KeepCursorCovers ==
  ASSUME ScanInv, CoverInv, KeepCursor
  PROVE  PromiseOK' /\ CoverOK'
<1> DEFINE k == known[job.folder]
<1>1. /\ job.folder \in Folders /\ k \in [validity : Nat, cursor : 0 .. MaxUid]
      /\ pc = "open" /\ job.validity = validity[job.folder] /\ job.validity # 0
  BY FolderAssumption DEF ScanInv, TypeOK, KeepCursor, JobOK, InFolder
<1>2. /\ UNCHANGED <<box, uidnext, validity, promised, result, rows>> /\ Resume(k.cursor)
      /\ k.cursor \in 0 .. MaxUid
  BY <1>1 DEF KeepCursor, serverVars, dbVars, history
<1>3. k.validity \in {0, job.validity}
  BY <1>1 DEF KeepCursor, NeedsReset
<1>4. ASSUME NEW p \in promised, p.folder = job.folder, p.uid <= k.cursor
      PROVE  CoveredBy(p, rows)'
  <2>1. p.uid \in Nat \ {0}
    BY PromisedTyped
  <2>2. k.validity # 0
    BY <1>1, <1>4, <2>1 DEF ScanInv, KnownOK
  <2>3. RowsOf(job.folder, {e \in box[job.folder] : e.uid <= k.cursor}) \subseteq rows
    BY <1>1, <1>3, <2>2 DEF ScanInv, NoHole
  <2>4. CoveredBy(p, rows)
    BY <1>4, <2>3 DEF CoveredBy, RowsOf, Kept
  <2> QED BY <1>2, <2>4 DEF CoveredBy, RowsOf, Kept
<1> HIDE DEF k
<1> QED BY <1>1, <1>2, <1>4, OpenedStep

LEMMA ResetFolderCovers ==
  ASSUME ScanInv, CoverInv, ResetFolder
  PROVE  PromiseOK' /\ CoverOK'
<1>1. /\ pc = "open" /\ Resume(0) /\ 0 \in 0 .. MaxUid
      /\ UNCHANGED <<box, uidnext, validity, promised, result>>
      /\ \A r \in rows : r.folder # job.folder => r \in rows'
  BY MailAssumption DEF ResetFolder, Forget, serverVars, history
<1>2. \A p \in promised : ~(p.uid <= 0)
  BY PromisedTyped
<1> QED BY <1>1, <1>2, OpenedStep

LEMMA SelectFolderCovers ==
  ASSUME ScanInv, CoverInv, SelectFolder
  PROVE  PromiseOK' /\ CoverOK'
<1> DEFINE f == job.folder
<1>1. /\ pc = "select" /\ pc' = "open" /\ f \in Folders
      /\ UNCHANGED <<box, uidnext, validity, rows>>
      /\ promised' = promised \cup Stamps(f, validity[f], box[f])
      /\ job' = [job EXCEPT !.validity = validity[f], !.open = f \in NoUidNext,
                            !.max = uidnext[f] - 1]
  BY FolderAssumption DEF ScanInv, TypeOK, SelectFolder, serverVars, dbVars
<1>2. /\ job'.folder = f /\ job'.validity = validity[f] /\ job'.max = uidnext[f] - 1
      /\ uidnext[f] \in Nat
  BY <1>1 DEF ScanInv, TypeOK, Uids
<1>3. ASSUME NEW p \in Stamps(f, validity[f], box[f])
      PROVE  p.folder = f /\ p.validity = validity[f] /\ p.uid < uidnext[f] /\ p.uid \in Nat
                /\ validity[f] \in Nat
  BY <1>1 DEF ScanInv, TypeOK, UidsOK, Stamps, Entry, Uids
<1>4. PromiseOK'
  <2>1. \A p \in promised' :
          /\ p.validity <= validity[p.folder]
          /\ p.validity = validity[p.folder] => p.uid < uidnext[p.folder]
    BY <1>1, <1>3 DEF CoverInv, PromiseOK
  <2>2. ASSUME NEW p \in promised', p.folder = f, p.validity = validity[f]
        PROVE  p.uid <= uidnext[f] - 1
    <3>1. p.uid \in Nat /\ p.uid < uidnext[f]
      BY <1>1, <1>3, <2>1, <2>2, PromisedTyped
    <3> QED BY <1>2, <3>1
  <2> QED BY <1>1, <1>2, <2>1, <2>2 DEF PromiseOK
<1>5. CoverOK'
  <2>1. ASSUME NEW p \in promised', p.folder # f
        PROVE  CoveredBy(p, rows)'
    <3>1. p \in promised
      BY <1>1, <1>3, <2>1
    <3>2. CoveredBy(p, rows)
      BY <1>1, <3>1 DEF CoverInv, CoverOK
    <3> QED BY <1>1, <3>2 DEF CoveredBy, RowsOf, Kept
  <2> QED BY <1>1, <1>2, <2>1 DEF CoverOK
<1> QED BY <1>4, <1>5

\* An open range asks for everything from lo on, so what it does not bring is
\* stored already or yields no row.
LEMMA FetchHeadersCovers ==
  ASSUME ScanInv, CoverInv, FetchHeaders
  PROVE  PromiseOK' /\ CoverOK'
<1> DEFINE f == job.folder
<1>1. /\ pc = "chunk" /\ pc' = "insert" /\ InLoop
      /\ UNCHANGED <<box, uidnext, validity, rows, promised>>
  BY DEF FetchHeaders, serverVars, dbVars, InLoop
<1>2. /\ job'.folder = f /\ job'.validity = job.validity /\ job'.max = job.max
      /\ job'.open = job.open /\ job'.got = RowsOf(f, Fetched)
  BY DEF FetchHeaders, ScanInv, TypeOK
<1>3. PromiseOK'
  BY <1>1, <1>2, PromiseQuiet DEF CoverInv
<1>4. ASSUME NEW p \in promised, p.folder # f PROVE CoveredBy(p, rows)
  BY <1>1, <1>4 DEF CoverInv, CoverOK
<1>5. ASSUME NEW p \in promised, p.folder = f, job.open
      PROVE  CoveredBy(p, rows \cup RowsOf(f, Fetched))
  <2> DEFINE e == EntryOf(p)
  <2> SUFFICES ASSUME e \in box[f], e.msg \notin Broken \cup Nameless
               PROVE  [folder |-> f, uid |-> e.uid, msg |-> e.msg] \in rows \cup RowsOf(f, Fetched)
    BY <1>5, CoveredIs DEF EntryOf
  <2>1. CASE e.uid < job.lo
    <3>1. RowsOf(f, Below(job.lo)) \subseteq rows
      BY <1>1 DEF ScanInv, LoopOK
    <3> QED BY <2>1, <3>1 DEF Below, RowsOf, Kept
  <2>2. CASE e.uid >= job.lo
    BY <1>5, <2>2 DEF Fetched, FromOn, RowsOf, Kept
  <2>3. e.uid \in Nat /\ job.lo \in Nat
    BY PromisedTyped, InLoopFacts, <1>1 DEF EntryOf
  <2> QED BY <2>1, <2>2, <2>3
<1>6. CoverOK'
  <2>1. ASSUME NEW p \in promised, job.open PROVE CoveredBy(p, rows \cup job.got)'
    <3>1. CoveredBy(p, rows \cup RowsOf(f, Fetched))
      BY <1>4, <1>5, <2>1 DEF CoveredBy
    <3> QED BY <1>1, <1>2, <3>1 DEF CoveredBy, RowsOf, Kept
  <2>2. ASSUME NEW p \in promised, p.folder # f PROVE CoveredBy(p, rows)'
    BY <1>1, <1>4, <2>2 DEF CoveredBy, RowsOf, Kept
  <2> QED BY <1>1, <1>2, <2>1, <2>2 DEF CoverOK
<1> QED BY <1>3, <1>6

\* INSERT OR REPLACE: what it replaces was out of date, so every message still
\* in a mailbox keeps its row.
LEMMA InsertMessagesCovers ==
  ASSUME ScanInv, CoverInv, InsertMessages
  PROVE  PromiseOK' /\ CoverOK'
<1>1. /\ pc = "insert" /\ pc' = "cursor"
      /\ UNCHANGED <<box, uidnext, validity, promised, job, result>>
      /\ rows' = job.got \cup
           {r \in rows : \A g \in job.got : ~(g.folder = r.folder /\ g.uid = r.uid)}
  BY DEF InsertMessages, serverVars, history
<1>2. PromiseOK'
  BY <1>1, PromiseQuiet DEF CoverInv
<1>3. ASSUME NEW p \in promised, CoveredBy(p, rows \cup job.got)
      PROVE  CoveredBy(p, rows)'
  <2> DEFINE r == [folder |-> p.folder, uid |-> p.uid, msg |-> p.msg]
  <2> SUFFICES ASSUME EntryOf(p) \in box[p.folder], r \in rows \cup job.got
               PROVE  r \in rows'
    BY <1>1, <1>3 DEF CoveredBy, RowsOf, Kept, EntryOf
  <2>1. ASSUME NEW g \in job.got, g.folder = p.folder, g.uid = p.uid
        PROVE  r = g
    <3>1. g.msg = EntryOf(p).msg /\ EntryOf(p).msg = p.msg
      BY <1>1, <2>1 DEF ScanInv, ChunkOK, EntryOf
    <3>2. g \in Row
      BY DEF ScanInv, TypeOK
    <3> QED BY <2>1, <3>1, <3>2 DEF Row
  <2> QED BY <1>1, <2>1
<1>4. ASSUME NEW p \in promised, CoveredBy(p, rows)
      PROVE  CoveredBy(p, rows)'
  <2>1. CoveredBy(p, rows \cup job.got)
    BY <1>4 DEF CoveredBy
  <2> QED BY <1>3, <2>1
<1>5. CoverOK'
  <2>1. ASSUME NEW p \in promised, p.folder # job.folder PROVE CoveredBy(p, rows)'
    <3>1. CoveredBy(p, rows)
      BY <1>1, <2>1 DEF CoverInv, CoverOK
    <3> QED BY <1>4, <3>1
  <2>2. ASSUME NEW p \in promised, job.open PROVE CoveredBy(p, rows)'
    <3>1. CoveredBy(p, rows \cup job.got)
      BY <1>1, <2>2 DEF CoverInv, CoverOK
    <3> QED BY <1>3, <3>1
  <2> QED BY <1>1, <2>1, <2>2 DEF CoverOK
<1> QED BY <1>2, <1>5

\* The last chunk of a folder keeps its promises.
LEMMA SetFolderCursorCovers ==
  ASSUME ScanInv, CoverInv, SetFolderCursor
  PROVE  PromiseOK' /\ CoverOK'
<1> DEFINE f == job.folder
<1>1. /\ pc = "cursor" /\ InLoop /\ AfterChunk /\ result' = result
      /\ UNCHANGED <<box, uidnext, validity, rows, promised>>
  BY DEF SetFolderCursor, serverVars, history, InLoop
<1>2. ASSUME NEW p \in promised, p.folder # f PROVE CoveredBy(p, rows)'
  <2>1. CoveredBy(p, rows)
    BY <1>1, <1>2 DEF CoverInv, CoverOK
  <2> QED BY <1>1, <2>1 DEF CoveredBy, RowsOf, Kept
<1>3. CASE pc' = "touch" /\ UNCHANGED job /\ (job.open \/ job.hi >= job.max)
  <2>1. ASSUME NEW p \in promised PROVE CoveredBy(p, rows)'
    <3>1. CASE job.open
      <4>1. CoveredBy(p, rows)
        BY <1>1, <3>1 DEF CoverInv, CoverOK
      <4> QED BY <1>1, <4>1 DEF CoveredBy, RowsOf, Kept
    <3>2. CASE ~job.open /\ p.folder = f /\ p.validity = validity[f]
      <4>1. p.uid <= job.max
        BY <1>1, <3>2 DEF CoverInv, PromiseOK, ScanInv, JobOK, InFolder
      <4>2. p.uid < job.hi + 1
        BY <1>1, <1>3, <3>2, <4>1, PromisedTyped, InLoopFacts
      <4>3. RowsOf(f, Below(job.hi + 1)) \subseteq rows
        BY <1>1 DEF ScanInv, ChunkOK
      <4> QED BY <1>1, <3>2, <4>2, <4>3 DEF CoveredBy, Below, RowsOf, Kept
    <3>3. CASE p.folder = f /\ p.validity # validity[f]
      BY <1>1, <3>3 DEF CoveredBy
    <3> QED BY <1>2, <3>1, <3>2, <3>3
  <2>2. PromiseOK'
    BY <1>1, <1>3, PromiseQuiet DEF CoverInv
  <2>3. CoverOK'
    BY <1>1, <1>3, <2>1 DEF CoverOK
  <2> QED BY <2>2, <2>3
<1>4. CASE pc' = "chunk" /\ job' = [job EXCEPT !.lo = Word(job.hi + 1)]
  <2>1. job'.folder = f /\ job'.validity = job.validity /\ job'.max = job.max
    BY <1>4 DEF ScanInv, TypeOK
  <2>2. PromiseOK'
    BY <1>1, <1>4, <2>1, PromiseQuiet DEF CoverInv
  <2>3. CoverOK'
    BY <1>1, <1>2, <1>4, <2>1 DEF CoverOK
  <2> QED BY <2>2, <2>3
<1> QED BY <1>1, <1>3, <1>4 DEF AfterChunk

\* A step of the server brings no promised message back.
LEMMA ServerCovers ==
  ASSUME ScanInv, CoverInv, UNCHANGED <<rows, promised, pc, job, result>>,
         PromiseOK',
         \A p \in promised : p.validity = validity'[p.folder] /\ EntryOf(p) \in box'[p.folder] =>
           p.validity = validity[p.folder] /\ EntryOf(p) \in box[p.folder]
  PROVE  PromiseOK' /\ CoverOK'
<1>1. ASSUME NEW p \in promised, CoveredBy(p, rows) PROVE CoveredBy(p, rows)'
  BY <1>1 DEF CoveredBy, EntryOf, RowsOf, Kept
<1>2. ASSUME NEW p \in promised, CoveredBy(p, rows \cup job.got)
      PROVE  CoveredBy(p, rows \cup job.got)'
  BY <1>2 DEF CoveredBy, EntryOf, RowsOf, Kept
<1>3. CoverOK'
  BY <1>1, <1>2 DEF CoverInv, CoverOK
<1> QED BY <1>3

LEMMA ArrivesCovers ==
  ASSUME ScanInv, CoverInv, Arrives
  PROVE  PromiseOK' /\ CoverOK'
<1>1. PICK f \in Folders, m \in unsent :
        /\ box' = [box EXCEPT ![f] = @ \cup {[uid |-> uidnext[f], msg |-> m]}]
        /\ uidnext' = [uidnext EXCEPT ![f] = uidnext[f] + 1]
        /\ UNCHANGED <<validity, rows, promised, pc, job, result>>
  BY DEF Arrives, Server, dbVars, history
<1>2. \A g \in Folders : uidnext[g] \in Nat /\ uidnext'[g] \in Nat /\ uidnext[g] <= uidnext'[g]
  BY <1>1 DEF ScanInv, TypeOK, Uids
<1>3. ASSUME NEW p \in promised, p.validity = validity[p.folder]
      PROVE  p.uid < uidnext[p.folder] /\ p.uid < uidnext'[p.folder]
  <2>1. p.uid < uidnext[p.folder]
    BY <1>3 DEF CoverInv, PromiseOK
  <2> QED BY <1>2, <2>1, PromisedTyped
<1>4. PromiseOK'
  BY <1>1, <1>3 DEF CoverInv, PromiseOK
<1>5. ASSUME NEW p \in promised, p.validity = validity[p.folder], EntryOf(p) \in box'[p.folder]
      PROVE  EntryOf(p) \in box[p.folder]
  <2>1. EntryOf(p).uid = p.uid /\ p.folder \in Folders
    BY PromisedTyped DEF EntryOf
  <2>2. p.folder = f => EntryOf(p) # [uid |-> uidnext[f], msg |-> m]
    BY <1>2, <1>3, <1>5, <2>1, PromisedTyped
  <2> QED BY <1>1, <1>5, <2>1, <2>2 DEF ScanInv, TypeOK
<1> QED BY <1>1, <1>4, <1>5, ServerCovers

LEMMA ExpungedCovers ==
  ASSUME ScanInv, CoverInv, Expunged
  PROVE  PromiseOK' /\ CoverOK'
<1>1. /\ UNCHANGED <<uidnext, validity, rows, promised, pc, job, result>>
      /\ \A f \in Folders : box'[f] \subseteq box[f]
  BY DEF Expunged, Server, dbVars, history, ScanInv, TypeOK
<1>2. PromiseOK'
  BY <1>1, PromiseQuiet DEF CoverInv
<1> QED BY <1>1, <1>2, ServerCovers, PromisedTyped

LEMMA RebuiltCovers ==
  ASSUME ScanInv, CoverInv, Rebuilt
  PROVE  PromiseOK' /\ CoverOK'
<1>1. PICK f \in Folders :
        /\ \E es : box' = [box EXCEPT ![f] = es]
        /\ validity' = [validity EXCEPT ![f] = @ + 1]
        /\ UNCHANGED <<uidnext, rows, promised, pc, job, result>>
  BY DEF Rebuilt, Server, dbVars, history
<1>2. \A p \in promised :
        /\ p.validity <= validity'[p.folder]
        /\ p.folder = f => p.validity # validity'[p.folder]
        /\ p.folder # f => validity'[p.folder] = validity[p.folder] /\ box'[p.folder] = box[p.folder]
  <2> SUFFICES ASSUME NEW p \in promised
               PROVE  /\ p.validity <= validity'[p.folder]
                      /\ p.folder = f => p.validity # validity'[p.folder]
                      /\ p.folder # f => validity'[p.folder] = validity[p.folder]
                                          /\ box'[p.folder] = box[p.folder]
    OBVIOUS
  <2>1. p.folder \in Folders /\ p.validity \in Nat /\ validity[p.folder] \in Nat
        /\ p.validity <= validity[p.folder]
    BY PromisedTyped DEF CoverInv, PromiseOK, ScanInv, TypeOK
  <2> QED BY <1>1, <2>1 DEF ScanInv, TypeOK
<1>3. PromiseOK'
  BY <1>1, <1>2 DEF CoverInv, PromiseOK
<1> QED BY <1>1, <1>2, <1>3, ServerCovers

LEMMA CoverStep ==
  ASSUME ScanInv, CoverInv, [Next]_vars
  PROVE  CoverInv'
<1> SUFFICES PromiseOK' /\ CoverOK'
  BY ResultStep DEF CoverInv
<1>1. CASE StartScan
  BY <1>1 DEF StartScan, PromiseOK, CoverOK
<1>2. CASE NextFolder
  BY <1>2, BetweenStep DEF NextFolder, Return, CoverInv, serverVars, dbVars, history
<1>3. CASE EndOfFolders \/ MissFolder
  BY <1>3, BetweenStep DEF EndOfFolders, MissFolder, LeaveFolder, Return, CoverInv, serverVars, dbVars,
                           history
<1>4. CASE OpenFails \/ InsertFails \/ TouchFails
  BY <1>4, GivenUpStep DEF OpenFails, InsertFails, TouchFails, Return, CoverInv, serverVars, history
<1>5. CASE CursorFails
  BY <1>5, GivenUpStep DEF CursorFails, Return, CoverInv, serverVars, history
<1>6. CASE FetchFails
  BY <1>6, GivenUpStep DEF FetchFails, CoverInv, serverVars
<1>7. CASE TouchSenders /\ result = "none"
  BY <1>7, BetweenStep DEF TouchSenders, LeaveFolder, CoverInv, serverVars, history
<1>8. CASE TouchSenders /\ result # "none"
  BY <1>8, GivenUpStep DEF TouchSenders, Return, CoverInv, ResultOK, serverVars, history
<1>9. CASE Cancel
  BY <1>9 DEF Cancel, CoverInv, PromiseOK, CoverOK, CoveredBy, RowsOf, Kept, serverVars, dbVars, history
<1>10. CASE Crash
  BY <1>10, GivenUpStep DEF Crash, CoverInv, serverVars, history
<1>11. CASE PurgeMessages \/ ResetFolders
  BY <1>11, GivenUpStep DEF PurgeMessages, ResetFolders, Admin, CoverInv, serverVars, history
<1>12. CASE UNCHANGED vars
  BY <1>12 DEF vars, CoverInv, PromiseOK, CoverOK, CoveredBy, RowsOf, Kept, serverVars, dbVars, history
<1> QED BY <1>1, <1>2, <1>3, <1>4, <1>5, <1>6, <1>7, <1>8, <1>9, <1>10, <1>11, <1>12,
           SelectFolderCovers, KeepCursorCovers, ResetFolderCovers, FetchHeadersCovers,
           InsertMessagesCovers, SetFolderCursorCovers, ArrivesCovers, ExpungedCovers, RebuiltCovers
        DEF Next, ScanStep

LEMMA CoverInvHolds == Spec => []CoverInv
<1>1. Init => CoverInv
  BY DEF Init, CoverInv, ResultOK, PromiseOK, CoverOK, Running
<1>2. ScanInv /\ CoverInv /\ [Next]_vars => CoverInv'
  BY CoverStep
<1> QED BY <1>1, <1>2, Inductive, PTL DEF Spec

\* Run returns nil only when it kept what it promised: for every mailbox, chunk
\* size and cursor, whether the server reports UIDNEXT or not, and whatever
\* failed, arrived, went or was rebuilt meanwhile, the messages a selected
\* folder held and still holds are in the database.
THEOREM ScanCoversHolds == Spec => []ScanCovers
<1>1. CoverInv => ScanCovers
  BY DEF CoverInv, CoverOK, CoveredBy, ScanCovers
<1> QED BY <1>1, CoverInvHolds, PTL

-----------------------------------------------------------------------------
\* How many steps a scan has left.

\* One folder fewer makes room for all the steps of a folder.
LEMMA OneFolderFewer ==
  ASSUME NEW n \in Nat, n > 0, NEW k \in Nat
  PROVE  (n - 1) * k + k = n * k /\ n * k \in Nat /\ (n - 1) * k \in Nat
OBVIOUS

LEMMA LessOfSum ==
  ASSUME NEW p \in Nat, NEW l \in Nat, NEW k \in 1 .. l - 1
  PROVE  p + k \in 0 .. (p + l) - 1 /\ 0 \in 0 .. (p + l) - 1
OBVIOUS

LEMMA LaterChunk ==
  ASSUME NEW b \in Nat
  PROVE  /\ \A a \in 0 .. b : 3 * a + 5 \in 1 .. (3 * b + 6) - 1
         /\ \A a \in 0 .. b - 1 : 3 * a + 5 \in 1 .. (3 * b + 3) - 1
OBVIOUS

LEMMA StepsLeftIs ==
  ASSUME ScanInv
  PROVE  /\ IsFiniteSet(todo) /\ Cardinality(todo) \in Nat
         /\ MaxUid \in Nat /\ MostInFolder = 3 * MaxUid + 7
         /\ Cardinality(todo) * MostInFolder \in Nat
         /\ InLoop => ChunksBehind \in 0 .. MaxUid - 1
         /\ Running => LeftInFolder \in 1 .. MostInFolder /\ StepsLeft \in Nat \ {0}
<1>1. IsFiniteSet(todo) /\ Cardinality(todo) \in Nat
  BY FolderAssumption, FS_Subset, FS_CardinalityType DEF ScanInv, TypeOK
<1>2. MaxUid \in Nat /\ MostInFolder = 3 * MaxUid + 7
  BY MailAssumption DEF MostInFolder
<1> DEFINE n == Cardinality(todo)
           behind == n * MostInFolder
<1>3. behind \in Nat
  BY <1>1, <1>2
<1>4. InLoop => ChunksBehind \in 0 .. MaxUid - 1
  BY <1>2, InLoopFacts, MailAssumption DEF ChunksBehind
<1>5. Running => LeftInFolder \in 1 .. MostInFolder
  BY <1>2, <1>4 DEF ScanInv, TypeOK, Running, LeftInFolder, InLoop
<1> HIDE DEF n
<1>6. Running => StepsLeft \in Nat \ {0}
  <2>1. Running => StepsLeft = behind + LeftInFolder
    BY DEF StepsLeft, n
  <2> HIDE DEF behind
  <2> QED BY <1>2, <1>3, <1>5, <2>1
<1> QED BY <1>1, <1>2, <1>3, <1>4, <1>5, <1>6 DEF n

\* A step in a folder, or out of it to the head of the loop.
LEMMA FewerInFolder ==
  ASSUME ScanInv, Running, todo' = todo, LeftInFolder' \in 1 .. LeftInFolder - 1
  PROVE  StepsLeft' \in 0 .. StepsLeft - 1
<1> DEFINE behind == Cardinality(todo) * MostInFolder
<1>1. behind \in Nat /\ LeftInFolder \in Nat /\ StepsLeft = behind + LeftInFolder
  BY StepsLeftIs DEF StepsLeft
<1>2. StepsLeft' \in {behind + LeftInFolder', 0}
  BY DEF StepsLeft, MostInFolder
<1> HIDE DEF behind
<1>3. /\ behind + LeftInFolder' \in 0 .. (behind + LeftInFolder) - 1
      /\ 0 \in 0 .. (behind + LeftInFolder) - 1
  BY <1>1, LessOfSum
<1> QED BY <1>1, <1>2, <1>3, Zenon

\* Run returns.
LEMMA NoneLeft ==
  ASSUME ScanInv, Running, ~Running'
  PROVE  StepsLeft' \in 0 .. StepsLeft - 1
BY StepsLeftIs DEF StepsLeft

LEMMA NextFolderBounded ==
  ASSUME ScanInv, NextFolder
  PROVE  pc' # pc /\ StepsLeft' \in 0 .. StepsLeft - 1
<1>1. Running /\ pc = "next" /\ todo # {}
  BY DEF NextFolder, Running
<1>2. CASE cancelled
  BY <1>1, <1>2, NoneLeft DEF NextFolder, Return, Running
<1>3. CASE ~cancelled
  <2>1. PICK f \in todo : todo' = todo \ {f} /\ pc' = "select"
    BY <1>3 DEF NextFolder
  <2> DEFINE n == Cardinality(todo)
             k == MostInFolder
  <2>2. n \in Nat /\ n > 0 /\ Cardinality(todo') = n - 1 /\ k \in Nat
    <3>1. IsFiniteSet(todo) /\ n \in Nat /\ k \in Nat
      BY StepsLeftIs
    <3>2. Cardinality(todo') = n - 1
      BY <2>1, <3>1, FS_RemoveElement
    <3>3. n # 0
      BY <1>1, <3>1, FS_EmptySet
    <3> QED BY <3>1, <3>2, <3>3
  <2>3. StepsLeft = n * k + 1
    BY <1>1 DEF StepsLeft, LeftInFolder
  <2>4. StepsLeft' = (n - 1) * k + k
    BY <2>1, <2>2 DEF StepsLeft, LeftInFolder, Running, MostInFolder
  <2> HIDE DEF n, k
  <2>5. StepsLeft' = n * k /\ n * k \in Nat
    BY <2>2, <2>4, OneFolderFewer
  <2> DEFINE p == n * k
  <2> HIDE DEF p
  <2>6. p \in Nat /\ StepsLeft = p + 1 /\ StepsLeft' = p
    BY <2>3, <2>5 DEF p
  <2> QED BY <1>1, <2>1, <2>6
<1> QED BY <1>2, <1>3

\* Where the chunk loop starts there are at most MaxUid chunks to come.
LEMMA OpenBounded ==
  ASSUME ScanInv, KeepCursor \/ ResetFolder
  PROVE  pc' # pc /\ StepsLeft' \in 0 .. StepsLeft - 1
<1>1. pc = "open" /\ Running /\ todo' = todo /\ MaxUid \in Nat
  BY MailAssumption DEF KeepCursor, ResetFolder, Running, runVars
<1>2. PICK last \in 0 .. MaxUid : Resume(last)
  BY <1>1 DEF KeepCursor, ResetFolder, ScanInv, TypeOK
<1>3. LeftInFolder = 3 * MaxUid + 6
  BY <1>1 DEF LeftInFolder, MostInFolder
<1>4. CASE pc' = "next"
  <2>1. LeftInFolder' = 1
    BY <1>4 DEF LeftInFolder
  <2> QED BY <1>1, <1>3, <1>4, <2>1, FewerInFolder
<1>5. CASE /\ pc' = "chunk" /\ job' = [job EXCEPT !.last = last, !.lo = last + 1]
           /\ job.open \/ last < job.max
  <2>1. job'.open = job.open /\ job'.max = job.max /\ job'.lo = last + 1 /\ job.max \in 0 .. MaxUid
    BY <1>5 DEF ScanInv, TypeOK
  <2>2. ChunksBehind' \in 0 .. MaxUid
    BY <1>1, <1>2, <1>5, <2>1 DEF ChunksBehind
  <2>3. LeftInFolder' = 3 * ChunksBehind' + 5
    BY <1>5 DEF LeftInFolder
  <2>4. 3 * ChunksBehind' + 5 \in 1 .. (3 * MaxUid + 6) - 1
    BY <1>1, <2>2, LaterChunk
  <2>5. LeftInFolder' \in 1 .. LeftInFolder - 1
    BY <1>3, <2>3, <2>4, Zenon
  <2> QED BY <1>1, <1>5, <2>5, FewerInFolder
<1>6. job.max \in Int
  BY DEF ScanInv, TypeOK
<1> QED BY <1>2, <1>4, <1>5, <1>6 DEF Resume, LeaveFolder

\* The loop goes on above the chunk, so with fewer UIDs.
LEMMA CursorBounded ==
  ASSUME ScanInv, SetFolderCursor
  PROVE  pc' # pc /\ StepsLeft' \in 0 .. StepsLeft - 1
<1>1. pc = "cursor" /\ Running /\ InLoop /\ todo' = todo /\ AfterChunk
  BY DEF SetFolderCursor, Running, InLoop, runVars
<1>2. ChunksBehind \in Nat /\ LeftInFolder = 3 * ChunksBehind + 3
  BY <1>1, StepsLeftIs, MailAssumption DEF LeftInFolder
<1>3. CASE pc' = "touch"
  <2>1. LeftInFolder' = 2
    BY <1>3 DEF LeftInFolder
  <2> QED BY <1>1, <1>2, <1>3, <2>1, FewerInFolder
<1>4. CASE /\ pc' = "chunk" /\ job' = [job EXCEPT !.lo = Word(job.hi + 1)]
           /\ ~job.open /\ ~(job.hi >= job.max)
  <2>1. /\ job.hi \in 0 .. MaxUid /\ job.max \in 0 .. MaxUid /\ job.lo \in 1 .. MaxUid
        /\ MaxUid \in Nat /\ job.lo <= job.hi
    BY <1>1, <1>4, InLoopFacts DEF ScanInv, ChunkOK
  <2>2. Word(job.hi + 1) = job.hi + 1
    BY <1>4, <2>1, WordId
  <2>3. job'.open = job.open /\ job'.max = job.max /\ job'.lo = job.hi + 1
    BY <1>4, <2>2 DEF ScanInv, TypeOK
  <2>4. ChunksBehind' \in 0 .. ChunksBehind - 1
    BY <1>4, <2>1, <2>3 DEF ChunksBehind
  <2>5. LeftInFolder' = 3 * ChunksBehind' + 5
    BY <1>4 DEF LeftInFolder
  <2>6. 3 * ChunksBehind' + 5 \in 1 .. (3 * ChunksBehind + 3) - 1
    BY <1>2, <2>4, LaterChunk
  <2>7. LeftInFolder' \in 1 .. LeftInFolder - 1
    BY <1>2, <2>5, <2>6, Zenon
  <2> QED BY <1>1, <1>4, <2>7, FewerInFolder
<1> QED BY <1>1, <1>3, <1>4 DEF AfterChunk

\* The other steps of a scan go on in the folder with the same chunks behind
\* them, leave it, or return.
LEMMA ScanStepBounded ==
  ASSUME ScanInv, ScanStep
  PROVE  Running /\ pc' # pc /\ StepsLeft' \in 0 .. StepsLeft - 1
<1>1. CASE EndOfFolders \/ OpenFails \/ InsertFails \/ CursorFails \/ TouchFails
  BY <1>1, NoneLeft
     DEF EndOfFolders, OpenFails, InsertFails, CursorFails, TouchFails, Return, Running
<1>2. CASE SelectFolder \/ MissFolder
  <2>1. pc = "select" /\ pc' \in {"open", "next"} /\ todo' = todo
    BY <1>2 DEF SelectFolder, MissFolder, LeaveFolder
  <2>2. LeftInFolder' \in 1 .. LeftInFolder - 1
    BY <2>1, MailAssumption DEF LeftInFolder, MostInFolder
  <2> QED BY <2>1, <2>2, FewerInFolder DEF Running
<1>3. CASE FetchHeaders \/ InsertMessages
  <2>1. /\ todo' = todo /\ job'.open = job.open /\ job'.max = job.max /\ job'.lo = job.lo
        /\ \/ pc = "chunk" /\ pc' = "insert"
           \/ pc = "insert" /\ pc' = "cursor"
    BY <1>3 DEF FetchHeaders, InsertMessages, ScanInv, TypeOK, runVars
  <2>2. ChunksBehind' = ChunksBehind /\ ChunksBehind \in Nat
    BY <2>1, StepsLeftIs, MailAssumption DEF ChunksBehind, InLoop
  <2>3. LeftInFolder' \in 1 .. LeftInFolder - 1
    BY <2>1, <2>2 DEF LeftInFolder
  <2> QED BY <2>1, <2>3, FewerInFolder DEF Running
<1>4. CASE FetchFails
  <2>1. pc = "chunk" /\ pc' = "touch" /\ todo' = todo
    BY <1>4 DEF FetchFails, runVars
  <2>2. ChunksBehind \in Nat
    BY <2>1, StepsLeftIs, MailAssumption DEF InLoop
  <2>3. LeftInFolder' \in 1 .. LeftInFolder - 1
    BY <2>1, <2>2 DEF LeftInFolder
  <2> QED BY <2>1, <2>3, FewerInFolder DEF Running
<1>5. CASE TouchSenders
  <2>1. pc = "touch" /\ pc' \in {"next", "ended"} /\ todo' = todo
    BY <1>5 DEF TouchSenders, LeaveFolder, Return, runVars
  <2>2. CASE pc' = "next"
    <3>1. LeftInFolder' \in 1 .. LeftInFolder - 1
      BY <2>1, <2>2 DEF LeftInFolder
    <3> QED BY <2>1, <3>1, FewerInFolder DEF Running
  <2>3. CASE pc' = "ended"
    BY <2>1, <2>3, NoneLeft DEF Running
  <2> QED BY <2>1, <2>2, <2>3
<1>6. CASE NextFolder
  BY <1>6, NextFolderBounded DEF NextFolder, Running
<1>7. CASE KeepCursor \/ ResetFolder
  BY <1>7, OpenBounded DEF KeepCursor, ResetFolder, Running
<1>8. CASE SetFolderCursor
  BY <1>8, CursorBounded DEF SetFolderCursor, Running
<1> QED BY <1>1, <1>2, <1>3, <1>4, <1>5, <1>6, <1>7, <1>8 DEF ScanStep

LEMMA BoundedStep ==
  ASSUME ScanInv, [Next]_vars, Running
  PROVE  IF pc' = pc THEN StepsLeft' = StepsLeft ELSE StepsLeft' \in 0 .. StepsLeft - 1
<1>1. CASE ScanStep
  BY <1>1, ScanStepBounded
<1>2. CASE Crash
  BY <1>2, NoneLeft DEF Crash, Running
<1>3. CASE Cancel \/ Arrives \/ Expunged \/ Rebuilt \/ UNCHANGED vars
  <2>1. UNCHANGED <<pc, job, todo>>
    BY <1>3 DEF Cancel, Arrives, Expunged, Rebuilt, Server, runVars, vars
  <2> QED BY <2>1 DEF StepsLeft, LeftInFolder, ChunksBehind, Running
<1>4. CASE StartScan \/ PurgeMessages \/ ResetFolders
  BY <1>4 DEF StartScan, PurgeMessages, ResetFolders, Admin, Running
<1> QED BY <1>1, <1>2, <1>3, <1>4 DEF Next

\* For every mailbox, cursor, chunk size and word width: each step of a scan
\* leaves fewer to take, whatever the server does in between, so the loops of
\* Run and runFolder cannot go round for ever, however their bounds fall.
THEOREM ScanBoundedHolds == Spec => ScanBounded
<1>1. ScanInv /\ [Next]_vars
        => [Running => IF pc' = pc THEN StepsLeft' = StepsLeft
                                   ELSE StepsLeft' \in 0 .. StepsLeft - 1]_vars
  BY BoundedStep
<1> QED BY <1>1, Inductive, PTL DEF Spec, ScanBounded
=============================================================================
