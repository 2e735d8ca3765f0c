------------------------------- MODULE Scan -------------------------------
\* internal/scan: the incremental header scan of one account into the database
\* (the folders, messages and senders tables of internal/store), together with
\* the two ways the user has to throw stored rows away. The IMAP server and
\* other mail clients are external: mailboxes with ascending UIDs, rebuilt now
\* and then under a new UIDVALIDITY.
EXTENDS Integers, FiniteSets

CONSTANTS
  Folders,     \* the account's configured folders
  Messages,    \* physical messages
  Mail0,       \* [Folders -> set of entries] before the first scan
  Next0,       \* [Folders -> Nat], UIDNEXT then
  SenderOf,    \* [Messages -> Senders], headers.SenderKey
  Senders,
  Broken,      \* messages whose header block the client cannot parse
  Nameless,    \* messages with neither a sender address nor a List-Id
  WellKnown,   \* folders scan.wellKnownSkip lists
  SpecialUse,  \* folders the server marks as drafts, sent, junk or trash
  NoUidNext,   \* folders for which the server reports no UIDNEXT
  ChunkSize,   \* Options.ChunkSize
  MaxUid,      \* the largest UID of the word a UID is kept in, 2^w - 1
  FaultKinds,  \* what may fail: "imap", "db", "cancel", "crash"
  MaxFaults,   \* bound on the failures of one behaviour
  MaxActs,     \* bound on the steps of the server, other clients and purges
  MaxScans     \* bound on the scans of one behaviour

Uids == 1 .. MaxUid
Entry == [uid : Uids, msg : Messages]

ASSUME MailAssumption ==
  /\ MaxUid \in Nat \ {0}
  /\ Mail0 \in [Folders -> SUBSET Entry]
  /\ Next0 \in [Folders -> Uids]
  /\ \A f \in Folders : \A d, e \in Mail0[f] :
       e.uid < Next0[f] /\ (e.uid = d.uid => e = d)
ASSUME HeaderAssumption ==
  SenderOf \in [Messages -> Senders] /\ Broken \cup Nameless \subseteq Messages
ASSUME FolderAssumption ==
  IsFiniteSet(Folders) /\ IsFiniteSet(Messages) /\ "none" \notin Folders
ASSUME BoundAssumption ==
  ChunkSize \in Nat \ {0} /\ MaxFaults \in Nat /\ MaxActs \in Nat /\ MaxScans \in Nat

VARIABLES
  box,        \* [Folders -> SUBSET Entry], what each mailbox holds
  uidnext,    \* [Folders -> Uids]
  validity,   \* [Folders -> Nat \ {0}], UIDVALIDITY
  unsent,     \* messages that have not arrived yet
  assigned,   \* history: every UID ever given out, with its UIDVALIDITY
  rows,       \* the messages table
  known,      \* the folders table: [validity, cursor], zeros for no row
  senders,    \* the sender keys of the senders table
  pc,         \* where scan.Run is
  todo,       \* folders Run has not come to
  reached,    \* folders this scan has selected
  missed,     \* folders this scan could not select
  job,        \* the locals of runFolder and runOpenRange
  result,     \* "nil", "err", "db" once a database call failed, or "none" yet
  cancelled,  \* the scan's context was cancelled
  promised,   \* history: what each mailbox held when this scan selected it
  noted,      \* history: the senders this scan has come across
  orphaned,   \* history: folders whose first rows were stored without a cursor
  faults, acts, scans

serverVars == <<box, uidnext, validity, unsent, assigned>>
dbVars == <<rows, known, senders, orphaned>>
runVars == <<todo, reached, missed, cancelled>>
history == <<promised, noted>>
vars == <<serverVars, dbVars, runVars, history, pc, job, result, faults, acts, scans>>

Row == [folder : Folders, uid : Uids, msg : Messages]
Stamp == [folder : Folders, validity : Nat, uid : Uids, msg : Messages]
Stamps(f, v, es) ==
  {[folder |-> f, validity |-> v, uid |-> e.uid, msg |-> e.msg] : e \in es}

NoJob == [folder |-> "none", validity |-> 0, open |-> FALSE, last |-> 0, lo |-> 0,
          hi |-> 0, max |-> 0, got |-> {}, seen |-> {}]
InFolder == pc \in {"open", "chunk", "insert", "cursor", "touch"}
Selected == IF InFolder THEN job.folder ELSE "none"

-----------------------------------------------------------------------------
\* Failures, as in Mailbox: a call fails for want of luck, which the budget
\* bounds, or because its context is cancelled.

Fault(kind) ==
  /\ kind \in FaultKinds
  /\ faults < MaxFaults
  /\ faults' = faults + 1

Fails(kind) == IF cancelled THEN UNCHANGED faults ELSE Fault(kind)
Goes == ~cancelled /\ UNCHANGED faults

\* runFolder and Run return.
LeaveFolder == pc' = "next" /\ job' = NoJob
Return(r) == pc' = "ended" /\ result' = r /\ job' = NoJob

-----------------------------------------------------------------------------
\* The pure parts of scan.go.

\* needsReset: a stored zero means that no UIDVALIDITY is on record.
NeedsReset(stored, current) == stored # 0 /\ stored # current

Word(n) == n % (MaxUid + 1)

\* Mutant of ChunkHi: the sum is formed in the word that holds a UID.
ChunkHiNarrow(lo, max) ==
  IF Word(lo + ChunkSize - 1) < max THEN Word(lo + ChunkSize - 1) ELSE max

\* chunkHi: the sum is formed in 64 bits, where it cannot wrap.
ChunkHi(lo, max) ==
  IF lo + ChunkSize - 1 < max THEN Word(lo + ChunkSize - 1) ELSE max

\* What buildMessage makes a row of, and what reaches it at all.
Parsed(es) == {e \in es : e.msg \notin Broken}
Kept(es) == {e \in es : e.msg \notin Broken \cup Nameless}
RowsOf(f, es) == {[folder |-> f, uid |-> e.uid, msg |-> e.msg] : e \in Kept(es)}
SendersIn(es) == {SenderOf[e.msg] : e \in Kept(es)}

\* FetchHeaders of lo:hi, and of lo:*, which always names the last message.
Between(f, lo, hi) == {e \in box[f] : e.uid \in lo .. hi}
FromOn(f, lo) ==
  {e \in box[f] : e.uid >= lo \/ \A d \in box[f] : d.uid <= e.uid}

\* The highest UID of a set of entries, and at least least.
IsTop(u, es, least) ==
  /\ u \in {e.uid : e \in es} \cup {least}
  /\ u >= least /\ \A e \in es : e.uid <= u

-----------------------------------------------------------------------------
\* scan.Run: the folders one after the other.

\* The user starts a scan. A special-use lookup that fails is only a warning.
StartScan ==
  /\ pc \in {"idle", "ended"} /\ scans < MaxScans
  /\ \E lost \in SUBSET SpecialUse :
       /\ IF lost = {} THEN UNCHANGED faults ELSE Fault("imap")
       /\ todo' = Folders \ (WellKnown \cup (SpecialUse \ lost))
  /\ pc' = "next" /\ result' = "none" /\ scans' = scans + 1
  /\ reached' = {} /\ missed' = {} /\ cancelled' = FALSE
  /\ promised' = {} /\ noted' = {}
  /\ UNCHANGED <<serverVars, dbVars, job, acts>>

\* The head of the loop: a cancelled scan ends here.
NextFolder ==
  /\ pc = "next" /\ todo # {}
  /\ IF cancelled
       THEN Return("err") /\ UNCHANGED todo
       ELSE \E f \in todo :
              /\ todo' = todo \ {f}
              /\ job' = [NoJob EXCEPT !.folder = f]
              /\ pc' = "select" /\ UNCHANGED result
  /\ UNCHANGED <<serverVars, dbVars, reached, missed, cancelled, history,
                 faults, acts, scans>>

\* The loop is over. A scan that could select nothing at all has failed.
EndOfFolders ==
  /\ pc = "next" /\ todo = {}
  /\ Return(IF reached = {} /\ missed # {} THEN "err" ELSE "nil")
  /\ UNCHANGED <<serverVars, dbVars, runVars, history, faults, acts, scans>>

SelectFolder ==
  /\ pc = "select" /\ Goes
  /\ LET f == job.folder
     IN  /\ job' = [job EXCEPT !.validity = validity[f], !.open = f \in NoUidNext,
                               !.max = uidnext[f] - 1]
         /\ reached' = reached \cup {f}
         /\ promised' = promised \cup Stamps(f, validity[f], box[f])
  /\ pc' = "open"
  /\ UNCHANGED <<serverVars, dbVars, todo, missed, cancelled, noted, result, acts, scans>>

\* A folder that does not select is left out with a warning, and so is one
\* whose SELECT a cancellation overtakes.
MissFolder ==
  /\ pc = "select" /\ Fails("imap")
  /\ missed' = missed \cup {job.folder}
  /\ LeaveFolder
  /\ UNCHANGED <<serverVars, dbVars, todo, reached, cancelled, history, result, acts, scans>>

-----------------------------------------------------------------------------
\* runFolder: where to go on.

\* Mutants of Resume: the check for nothing new is left out, and a folder
\* without UIDNEXT is taken for an empty one.
ResumeAlways(last) ==
  pc' = "chunk" /\ job' = [job EXCEPT !.last = last, !.lo = last + 1]
ResumeClosed(last) ==
  IF job.open \/ job.max <= last
    THEN LeaveFolder
    ELSE pc' = "chunk" /\ job' = [job EXCEPT !.last = last, !.lo = last + 1]

\* From the cursor on: an open range, nothing new, or the first chunk.
Resume(last) ==
  IF ~job.open /\ job.max <= last
    THEN LeaveFolder
    ELSE pc' = "chunk" /\ job' = [job EXCEPT !.last = last, !.lo = last + 1]

Forget(f) ==
  /\ rows' = {r \in rows : r.folder # f}
  /\ orphaned' = orphaned \ {f}

\* The stored cursor is good for the UIDVALIDITY the server reports.
KeepCursor ==
  /\ pc = "open" /\ Goes
  /\ ~NeedsReset(known[job.folder].validity, job.validity)
  /\ Resume(known[job.folder].cursor)
  /\ UNCHANGED <<serverVars, dbVars, runVars, history, result, acts, scans>>

\* Mutant of ResetFolder: the cursor is set back and the rows stay.
ResetCursorOnly ==
  /\ pc = "open" /\ Goes
  /\ NeedsReset(known[job.folder].validity, job.validity)
  /\ known' = [known EXCEPT ![job.folder] = [validity |-> job.validity, cursor |-> 0]]
  /\ Resume(0)
  /\ UNCHANGED <<serverVars, rows, senders, orphaned, runVars, history, result, acts,
                 scans>>

\* It is not: the folder's rows and cursor go in one transaction.
ResetFolder ==
  /\ pc = "open" /\ Goes
  /\ NeedsReset(known[job.folder].validity, job.validity)
  /\ Forget(job.folder)
  /\ known' = [known EXCEPT ![job.folder] = [validity |-> job.validity, cursor |-> 0]]
  /\ Resume(0)
  /\ UNCHANGED <<serverVars, senders, runVars, history, result, acts, scans>>

\* GetFolder or ResetFolder fails.
OpenFails ==
  /\ pc = "open" /\ Fails("db") /\ Return("db")
  /\ UNCHANGED <<serverVars, dbVars, runVars, history, acts, scans>>

-----------------------------------------------------------------------------
\* The chunk loop, and runOpenRange as its only chunk.

Fetched ==
  IF job.open THEN FromOn(job.folder, job.lo)
              ELSE Between(job.folder, job.lo, ChunkHi(job.lo, job.max))

\* The cursor position a fetched chunk stands for.
ReachedBy(u, es) ==
  IF job.open THEN IsTop(u, Parsed(es), job.last) ELSE u = ChunkHi(job.lo, job.max)

FetchHeaders ==
  /\ pc = "chunk" /\ Goes
  /\ \E hi \in 0 .. MaxUid :
       /\ ReachedBy(hi, Fetched)
       /\ job' = [job EXCEPT !.hi = hi, !.got = RowsOf(job.folder, Fetched),
                             !.seen = @ \cup SendersIn(Fetched)]
  /\ noted' = noted \cup SendersIn(Fetched)
  /\ pc' = "insert"
  /\ UNCHANGED <<serverVars, dbVars, runVars, promised, result, acts, scans>>

\* Mutant of FetchFails: the error is returned at once.
FetchFailsUntouched ==
  /\ pc = "chunk" /\ Fails("imap") /\ Return("err")
  /\ \E some \in SUBSET Fetched : noted' = noted \cup SendersIn(some)
  /\ UNCHANGED <<serverVars, dbVars, runVars, promised, acts, scans>>

\* The fetch fails or is cancelled after some of the messages: what was built
\* of this chunk is dropped, and the senders noted so far are still recorded.
FetchFails ==
  /\ pc = "chunk" /\ Fails("imap")
  /\ \E some \in SUBSET Fetched :
       /\ job' = [job EXCEPT !.seen = @ \cup SendersIn(some)]
       /\ noted' = noted \cup SendersIn(some)
  /\ pc' = "touch" /\ result' = "err"
  /\ UNCHANGED <<serverVars, dbVars, runVars, promised, acts, scans>>

\* InsertMessages: INSERT OR REPLACE in one transaction, nothing for no rows.
InsertMessages ==
  /\ pc = "insert"
  /\ IF job.got = {} THEN UNCHANGED faults ELSE Goes
  /\ rows' = job.got \cup
       {r \in rows : \A g \in job.got : ~(g.folder = r.folder /\ g.uid = r.uid)}
  /\ pc' = "cursor"
  /\ UNCHANGED <<serverVars, known, senders, orphaned, runVars, history, job, result,
                 acts, scans>>

\* Mutant of InsertFails: the error is not looked at.
InsertUnchecked ==
  /\ pc = "insert" /\ job.got # {} /\ Fails("db")
  /\ pc' = "cursor"
  /\ UNCHANGED <<serverVars, dbVars, runVars, history, job, result, acts, scans>>

\* The error returns here and in SetFolderCursor do not record the senders.
InsertFails ==
  /\ pc = "insert" /\ job.got # {} /\ Fails("db") /\ Return("db")
  /\ UNCHANGED <<serverVars, dbVars, runVars, history, acts, scans>>

\* Mutant of AfterChunk: the loop ends past the last UID only.
AfterChunkLate ==
  IF job.open \/ job.hi > job.max
    THEN pc' = "touch" /\ UNCHANGED job
    ELSE pc' = "chunk" /\ job' = [job EXCEPT !.lo = Word(job.hi + 1)]

\* Where the loop goes after a chunk.
AfterChunk ==
  IF job.open \/ job.hi >= job.max
    THEN pc' = "touch" /\ UNCHANGED job
    ELSE pc' = "chunk" /\ job' = [job EXCEPT !.lo = Word(job.hi + 1)]

\* runOpenRange leaves the cursor alone when it saw nothing above it.
Unmoved == job.open /\ job.hi <= job.last

SetFolderCursor ==
  /\ pc = "cursor"
  /\ IF Unmoved
       THEN UNCHANGED <<known, faults>>
       ELSE /\ Goes
            /\ known' = [known EXCEPT ![job.folder] =
                           [validity |-> job.validity, cursor |-> job.hi]]
  /\ AfterChunk
  /\ UNCHANGED <<serverVars, rows, senders, orphaned, runVars, history, result, acts,
                 scans>>

\* The folders whose rows of a chunk are stored and whose UIDVALIDITY is not.
Orphans ==
  IF pc = "cursor" /\ job.got # {} /\ known[job.folder].validity = 0
    THEN {job.folder}
    ELSE {}

CursorFails ==
  /\ pc = "cursor" /\ ~Unmoved /\ Fails("db") /\ Return("db")
  /\ orphaned' = orphaned \cup Orphans
  /\ UNCHANGED <<serverVars, rows, known, senders, runVars, history, acts, scans>>

\* touch has a context of its own, which no cancellation reaches.
TouchSenders ==
  /\ pc = "touch"
  /\ senders' = senders \cup job.seen
  /\ IF result = "none" THEN LeaveFolder /\ UNCHANGED result ELSE Return(result)
  /\ UNCHANGED <<serverVars, rows, known, orphaned, runVars, history, faults, acts, scans>>

\* After a failed fetch the error of touch is dropped and Run returns the other
\* one; result tells the two cases apart all the same.
TouchFails ==
  /\ pc = "touch" /\ job.seen # {} /\ Fault("db") /\ Return("db")
  /\ UNCHANGED <<serverVars, dbVars, runVars, history, acts, scans>>

ScanStep ==
  \/ NextFolder \/ EndOfFolders \/ SelectFolder \/ MissFolder
  \/ KeepCursor \/ ResetFolder \/ OpenFails
  \/ FetchHeaders \/ FetchFails \/ InsertMessages \/ InsertFails
  \/ SetFolderCursor \/ CursorFails \/ TouchSenders \/ TouchFails

-----------------------------------------------------------------------------
\* ctrl+c, and the end of the process at any moment.

Running == pc \notin {"idle", "ended"}

Cancel ==
  /\ Running /\ ~cancelled /\ Fault("cancel")
  /\ cancelled' = TRUE
  /\ UNCHANGED <<serverVars, dbVars, todo, reached, missed, history, pc, job, result,
                 acts, scans>>

Crash ==
  /\ Running /\ Fault("crash")
  /\ pc' = "idle" /\ job' = NoJob /\ result' = "none"
  /\ orphaned' = orphaned \cup Orphans
  /\ UNCHANGED <<serverVars, rows, known, senders, runVars, history, acts, scans>>

-----------------------------------------------------------------------------
\* Between scans the user may purge the stored messages or have folders
\* rescanned. Whatever a scan returned is then out of date: pc becomes "idle".

Admin ==
  /\ ~Running /\ acts < MaxActs /\ acts' = acts + 1
  /\ pc' = "idle"
  /\ UNCHANGED <<serverVars, senders, runVars, history, job, result, scans>>

\* PurgeMessages: all rows and all cursors; the UIDVALIDITY stays on record.
PurgeMessages ==
  /\ Admin
  /\ rows' = {} /\ orphaned' = {}
  /\ known' = [f \in Folders |-> [known[f] EXCEPT !.cursor = 0]]
  /\ UNCHANGED faults

\* LiveBackend.ResetFolders: folder by folder, until one fails.
ResetFolders ==
  /\ Admin
  /\ \E done \in SUBSET Folders :
       /\ IF done = Folders THEN UNCHANGED faults ELSE Fault("db")
       /\ rows' = {r \in rows : r.folder \notin done}
       /\ orphaned' = orphaned \ done
       /\ known' = [f \in Folders |-> IF f \in done THEN [validity |-> 0, cursor |-> 0]
                                                    ELSE known[f]]

-----------------------------------------------------------------------------
\* The server and other mail clients.

Server ==
  /\ acts < MaxActs /\ acts' = acts + 1
  /\ UNCHANGED <<dbVars, runVars, history, pc, job, result, faults, scans>>

\* A message arrives in f, or is filed there.
Arrives ==
  /\ Server
  /\ \E f \in Folders, m \in unsent :
       LET e == [uid |-> uidnext[f], msg |-> m]
       IN  /\ e.uid < MaxUid
           /\ box' = [box EXCEPT ![f] = @ \cup {e}]
           /\ uidnext' = [uidnext EXCEPT ![f] = e.uid + 1]
           /\ unsent' = unsent \ {m}
           /\ assigned' = assigned \cup Stamps(f, validity[f], {e})
  /\ UNCHANGED validity

Expunged ==
  /\ Server
  /\ \E f \in Folders : \E e \in box[f] : box' = [box EXCEPT ![f] = @ \ {e}]
  /\ UNCHANGED <<uidnext, validity, unsent, assigned>>

\* A mailbox is rebuilt: the same UIDs for other messages, and therefore a new
\* UIDVALIDITY. No server does this to the mailbox a session has selected.
Rebuilt ==
  /\ Server
  /\ \E f \in Folders \ {Selected} :
       LET es == {[uid |-> uidnext[f] - e.uid, msg |-> e.msg] : e \in box[f]}
       IN  /\ box' = [box EXCEPT ![f] = es]
           /\ validity' = [validity EXCEPT ![f] = @ + 1]
           /\ assigned' = assigned \cup Stamps(f, validity[f] + 1, es)
  /\ UNCHANGED <<uidnext, unsent>>

-----------------------------------------------------------------------------
Init ==
  /\ box = Mail0 /\ uidnext = Next0
  /\ validity = [f \in Folders |-> 1]
  /\ unsent = {m \in Messages : \A f \in Folders : \A e \in Mail0[f] : e.msg # m}
  /\ assigned = UNION {Stamps(f, 1, Mail0[f]) : f \in Folders}
  /\ rows = {} /\ senders = {} /\ orphaned = {}
  /\ known = [f \in Folders |-> [validity |-> 0, cursor |-> 0]]
  /\ pc = "idle" /\ job = NoJob /\ result = "none"
  /\ todo = {} /\ reached = {} /\ missed = {} /\ cancelled = FALSE
  /\ promised = {} /\ noted = {}
  /\ faults = 0 /\ acts = 0 /\ scans = 0

Next ==
  \/ StartScan \/ ScanStep \/ Cancel \/ Crash
  \/ PurgeMessages \/ ResetFolders
  \/ Arrives \/ Expunged \/ Rebuilt

Spec == Init /\ [][Next]_vars
FairSpec == Spec /\ WF_vars(ScanStep)

-----------------------------------------------------------------------------
TypeOK ==
  /\ box \in [Folders -> SUBSET Entry]
  /\ uidnext \in [Folders -> Uids]
  /\ validity \in [Folders -> Nat \ {0}]
  /\ unsent \subseteq Messages
  /\ assigned \subseteq Stamp /\ promised \subseteq Stamp
  /\ rows \subseteq Row
  /\ known \in [Folders -> [validity : Nat, cursor : 0 .. MaxUid]]
  /\ senders \subseteq Senders /\ noted \subseteq Senders
  /\ orphaned \subseteq Folders
  /\ pc \in {"idle", "next", "select", "open", "chunk", "insert", "cursor", "touch", "ended"}
  /\ todo \subseteq Folders /\ reached \subseteq Folders /\ missed \subseteq Folders
  /\ job \in [folder : Folders \cup {"none"}, validity : Nat, open : BOOLEAN,
              last : 0 .. MaxUid, lo : 0 .. MaxUid, hi : 0 .. MaxUid, max : 0 .. MaxUid,
              got : SUBSET Row, seen : SUBSET Senders]
  /\ job.folder = "none" <=> pc \in {"idle", "next", "ended"}
  /\ pc \in {"chunk", "insert", "cursor"} =>
       job.lo > 0 /\ (~job.open => job.lo <= job.max)
  /\ result \in {"none", "nil", "err", "db"}
  /\ cancelled \in BOOLEAN
  /\ faults \in 0 .. MaxFaults /\ acts \in 0 .. MaxActs /\ scans \in 0 .. MaxScans

\* A cursor promises that everything below it is in the database. Whatever has
\* been interrupted, cancelled, purged or rebuilt: as long as a folder's stored
\* UIDVALIDITY is the server's, every message at or below the stored cursor
\* that yields a row has its row (the chunk loop of runFolder, runOpenRange,
\* ResetFolder, PurgeMessages).
NoHole ==
  \A f \in Folders : known[f].validity = validity[f] =>
    RowsOf(f, {e \in box[f] : e.uid <= known[f].cursor}) \subseteq rows

\* Run returned nil: every message a selected folder held when it was selected,
\* and still holds under the same UIDVALIDITY, is in the database.
ScanCovers ==
  pc = "ended" /\ result = "nil" =>
    \A p \in promised :
      LET e == [uid |-> p.uid, msg |-> p.msg]
      IN  p.validity = validity[p.folder] /\ e \in box[p.folder] =>
            RowsOf(p.folder, {e}) \subseteq rows

\* A stored row names the message that has, or had, its UID under the stored
\* UIDVALIDITY: rows do not outlive the mailbox they were read from (needsReset
\* and ResetFolder). The exception is a folder in orphaned: rows stored in a
\* first scan that failed before SetFolderCursor put a UIDVALIDITY on record.
RowIsCurrent(r) ==
  [folder |-> r.folder, validity |-> known[r.folder].validity, uid |-> r.uid,
   msg |-> r.msg] \in assigned
RowsCurrent ==
  \A r \in rows : r.folder \notin orphaned /\ known[r.folder].validity # 0 => RowIsCurrent(r)

\* docs/design.md:125 without the exception: a folder's records are discarded
\* when its UIDVALIDITY changes.
RescannedFromZero ==
  \A r \in rows : known[r.folder].validity # 0 => RowIsCurrent(r)

\* The senders of all messages a scan came across are recorded when it returns
\* nil, and when a failed or cancelled fetch ended it (touch).
SendersRecorded ==
  pc = "ended" /\ result \in {"nil", "err"} => noted \subseteq senders

\* The cursor of a folder goes back only when the rows behind it go too: for
\* another UIDVALIDITY, a purge or a rescan the user asked for.
CursorBack(f) ==
  known'[f].validity = known[f].validity /\ known'[f].cursor < known[f].cursor
CursorAdvances ==
  [][\A f \in Folders : CursorBack(f) => \A r \in rows' : r.folder # f]_vars

\* A scan that was started ends, whatever UIDNEXT, the cursor and the chunk
\* size are.
ScanTerminates == Running ~> ~Running

\* The steps a scan may still take: beside those of a folder, three for each
\* chunk, which is never empty, and none for what the server does meanwhile.
ChunksBehind == IF job.open THEN 0 ELSE job.max - job.lo
MostInFolder == 3 * MaxUid + 7
LeftInFolder ==
  CASE pc = "next" -> 1
    [] pc = "touch" -> 2
    [] pc = "cursor" -> 3 * ChunksBehind + 3
    [] pc = "insert" -> 3 * ChunksBehind + 4
    [] pc = "chunk" -> 3 * ChunksBehind + 5
    [] pc = "open" -> MostInFolder - 1
    [] pc = "select" -> MostInFolder
    [] OTHER -> 0
StepsLeft == IF Running THEN Cardinality(todo) * MostInFolder + LeftInFolder ELSE 0

\* Each step of a scan leaves fewer of them, and nothing else that happens
\* leaves more: a scan ends after a number of steps that is known when it starts,
\* with any UIDNEXT, cursor and chunk size, while mail arrives and goes (the
\* loops of Run and runFolder, chunkHi).
ScanBounded ==
  [][Running => IF pc' = pc THEN StepsLeft' = StepsLeft
                            ELSE StepsLeft' \in 0 .. StepsLeft - 1]_vars

-----------------------------------------------------------------------------
\* The inductive invariant behind NoHole and RowsCurrent.

\* A mailbox: a UID names one message, is below UIDNEXT and is on record.
UidsOK ==
  \A f \in Folders : \A e \in box[f] :
    /\ e.uid < uidnext[f]
    /\ \A d \in box[f] : d.uid = e.uid => d = e
    /\ Stamps(f, validity[f], {e}) \subseteq assigned

\* The folders table never runs ahead of the server.
KnownOK ==
  \A f \in Folders :
    /\ known[f].validity <= validity[f]
    /\ known[f].validity = 0 => known[f].cursor = 0
    /\ known[f].validity = validity[f] => known[f].cursor < uidnext[f]

\* The folder being scanned is as it was when it was selected, but for messages
\* that came and went.
JobOK ==
  InFolder =>
    /\ job.validity = validity[job.folder]
    /\ job.max < uidnext[job.folder]

InLoop == pc \in {"chunk", "insert", "cursor"}
Below(n) == {e \in box[job.folder] : e.uid < n}

\* What the loop has behind it is stored: everything below lo, and at the end
\* of a chunk everything up to hi.
LoopOK ==
  InLoop =>
    /\ known[job.folder].validity \in {0, job.validity}
    /\ job.open /\ known[job.folder].validity = 0 => job.last = 0
    /\ known[job.folder].cursor < job.lo
    /\ job.open => job.lo = job.last + 1
    /\ RowsOf(job.folder, Below(job.lo)) \subseteq rows
    /\ job.last < uidnext[job.folder] /\ job.lo <= uidnext[job.folder]

\* A fetched chunk has all that is new up to hi, and nothing out of date.
ChunkOK ==
  pc \in {"insert", "cursor"} =>
    /\ job.hi < uidnext[job.folder] /\ (job.open \/ job.lo <= job.hi)
    /\ RowsOf(job.folder, Below(job.hi + 1)) \subseteq
         rows \cup (IF pc = "insert" THEN job.got ELSE {})
    /\ \A g \in job.got :
         /\ g.folder = job.folder /\ g.uid <= job.hi
         /\ Stamps(g.folder, job.validity, {g}) \subseteq assigned
         /\ \A e \in box[g.folder] : e.uid = g.uid => e.msg = g.msg

\* A row was read under the UIDVALIDITY on record; where there is none, it was
\* stored a moment ago by the chunk whose cursor is still to come.
RowsOK ==
  \A r \in rows : r.folder \notin orphaned =>
    IF known[r.folder].validity # 0
      THEN RowIsCurrent(r)
      ELSE pc = "cursor" /\ job.folder = r.folder /\ r \in job.got

ScanInv ==
  TypeOK /\ UidsOK /\ KnownOK /\ JobOK /\ LoopOK /\ ChunkOK /\ RowsOK /\ NoHole

\* The inductive invariants behind ScanCovers and SendersRecorded, beside ScanInv.

\* While the scan works, nothing was returned yet; after a failed fetch it
\* still has the senders to record.
ResultOK ==
  /\ Running /\ pc # "touch" => result = "none"
  /\ pc = "touch" => result \in {"none", "err"}

\* No UID is promised that the server has yet to give out.
PromiseOK ==
  /\ \A p \in promised :
       /\ p.validity <= validity[p.folder]
       /\ p.validity = validity[p.folder] => p.uid < uidnext[p.folder]
  /\ pc \in {"open", "chunk", "insert", "cursor"} =>
       \A p \in promised : p.folder = job.folder /\ p.validity = job.validity => p.uid <= job.max

\* What was promised of p is in stored, or no longer in the mailbox.
CoveredBy(p, stored) ==
  LET e == [uid |-> p.uid, msg |-> p.msg]
  IN  p.validity = validity[p.folder] /\ e \in box[p.folder] =>
        RowsOf(p.folder, {e}) \subseteq stored

\* The promises of the folders behind the current one are kept, and those of
\* the current one once its last chunk is stored; an open range has only one.
CoverOK ==
  /\ pc \in {"next", "select"} \/ (pc = "touch" /\ result = "none")
       \/ (pc = "ended" /\ result = "nil") =>
       \A p \in promised : CoveredBy(p, rows)
  /\ pc \in {"open", "chunk", "insert", "cursor"} =>
       \A p \in promised : p.folder # job.folder => CoveredBy(p, rows)
  /\ pc = "insert" /\ job.open => \A p \in promised : CoveredBy(p, rows \cup job.got)
  /\ pc = "cursor" /\ job.open => \A p \in promised : CoveredBy(p, rows)

CoverInv == ResultOK /\ PromiseOK /\ CoverOK

\* A sender that was noted is recorded, or is still in the hands of runFolder.
NotedInv ==
  /\ pc \notin {"chunk", "insert", "cursor", "touch"} => job.seen = {}
  /\ Running \/ (pc = "ended" /\ result \in {"nil", "err"}) => noted \subseteq senders \cup job.seen
=============================================================================
