-------------------------------- MODULE Undo --------------------------------
\* internal/undo: Run reads a run's audit log back and moves what it recorded
\* out of Trash again, finding each message there by its Message-ID.
EXTENDS AuditLog

CONSTANTS
  NeverTouch,  \* apply.NeverTouch: folders named like Trash, Spam, Drafts, Sent
  MarkedUse,   \* folders the server marks \Trash, \Junk, \Drafts or \Sent
  MaxUndos     \* bound on the calls of Run

ASSUME UndoAssumption == MaxUndos \in Nat

VARIABLES
  upc,      \* where undo is
  blocked,  \* folders undo does not restore into
  ucheck,   \* source folders whose unconfirmed intents are still to be checked
  never,    \* per Message-ID, how many recorded moves never happened
  found,    \* per source folder, the Trash UIDs to move back to it
  undos     \* calls of Run so far

undoVars == <<upc, blocked, ucheck, never, found, undos>>

-----------------------------------------------------------------------------
\* What Run makes of the log.

Lines == 1 .. Len(audit.lines)
IsIntent(i) ==
  /\ audit.lines[i].action = "move" /\ audit.lines[i].status = "pending"
IsConfirmation(i) ==
  /\ audit.lines[i].action = "move" /\ audit.lines[i].status = "done"

\* Source folder -> UIDs the server accepted.
Confirmed(f) ==
  UNION {audit.lines[i].uids : i \in {j \in Lines : IsConfirmation(j) /\ audit.lines[j].folder = f}}

IntentsOf(id) == {i \in Lines : IsIntent(i) /\ audit.lines[i].id = id}
Ids == {id \in MessageIDs : IntentsOf(id) # {}}

\* A want: the folder its first intent names, how many intents there are, and
\* those no confirmation covers.
Source(id) == audit.lines[CHOOSE i \in IntentsOf(id) : \A j \in IntentsOf(id) : i <= j].folder
Recorded(id) == Cardinality(IntentsOf(id))
Unconfirmed(id) ==
  {i \in IntentsOf(id) :
     \E u \in audit.lines[i].uids : u \notin Confirmed(audit.lines[i].folder)}

\* Mutant of Wanted: one copy for each Message-ID.
WantedOnce(id) == IF never[id] >= Recorded(id) THEN 0 ELSE 1

\* How many copies of id undo may pull out of Trash.
Wanted(id) == IF never[id] > Recorded(id) THEN 0 ELSE Recorded(id) - never[id]

-----------------------------------------------------------------------------
\* Run.

UndoRunning == upc \in {"check", "restore", "moving"}

UndoLine(f) == NewLine("undo", "", f, {}, NoId)
NothingFound == [f \in Folders |-> {}]
Open(id) == Source(id) \notin blocked

\* A step of undo that moves nothing.
UndoReads == UNCHANGED <<serverVars, mv, cancelled, userActs, trashed, restored>>

\* The log is read and the moves in it counted; a log that cannot be parsed or
\* that records no move ends the call. blockedDestinations goes on when the
\* server cannot answer a lookup.
UndoStart ==
  /\ ~UndoRunning /\ undos < MaxUndos
  /\ undos' = undos + 1
  /\ never' = [id \in MessageIDs |-> 0]
  /\ found' = NothingFound
  /\ IF ~Readable \/ Ids = {}
       THEN /\ upc' = "failed"
            /\ UNCHANGED <<blocked, ucheck, faults, audit>>
       ELSE /\ upc' = "check"
            /\ audit' = Reopened
            /\ \/ blocked' = NeverTouch \cup MarkedUse /\ UNCHANGED faults
               \/ /\ Fault("imap")
                  /\ \E known \in SUBSET MarkedUse : blocked' = NeverTouch \cup known
            /\ ucheck' = {Source(id) : id \in {j \in Ids : Unconfirmed(j) # {}}} \ blocked'
  /\ auErr' = FALSE /\ cancelled' = FALSE
  /\ selected' = "none"
  /\ UNCHANGED <<serverVars, mv, userActs, trashed, restored>>

\* How many of id's unconfirmed intents are for a UID that still holds id in
\* the source folder.
NeverMoved(id) ==
  Cardinality({i \in Unconfirmed(id) : audit.lines[i].uids \subseteq Search(Source(id), id)})

\* One source folder: SELECT and a search for each of its Message-IDs. A folder
\* that cannot be selected is taken as moved; a search that fails ends undo.
CheckSource(src) ==
  /\ upc = "check" /\ src \in ucheck
  /\ \/ /\ ~cancelled
        /\ selected' = src
        /\ never' = [id \in MessageIDs |->
              IF id \in Ids /\ Source(id) = src THEN NeverMoved(id) ELSE never[id]]
        /\ IF never' = never THEN UNCHANGED <<auditVars, faults>> ELSE Write(UndoLine(src))
        /\ ucheck' = ucheck \ {src} /\ UNCHANGED upc
     \/ /\ Fault("imap") /\ ~cancelled
        /\ selected' = "none"
        /\ ucheck' = ucheck \ {src} /\ UNCHANGED <<upc, never, auditVars>>
     \/ /\ Fails("imap")
        /\ upc' = "failed"
        /\ UNCHANGED <<selected, never, ucheck, auditVars>>
  /\ UndoReads
  /\ UNCHANGED <<blocked, found, undos>>

\* Mutant of ToRestore: the oldest copies instead of the newest.
ToRestoreOldest(f) ==
  UNION {Lowest(Search(Trash, id), Wanted(id)) :
           id \in {j \in Ids : Open(j) /\ Source(j) = f}}

\* What is to be pulled out of Trash: for each Message-ID the newest copies, as
\* many as were recorded and not found unmoved.
ToRestore(f) ==
  UNION {Highest(Search(Trash, id), Wanted(id)) :
           id \in {j \in Ids : Open(j) /\ Source(j) = f}}

\* SELECT Trash and one search for each Message-ID, all before the first MOVE.
\* What is refused, missing or ambiguous is noted in the log.
Noted ==
  \E id \in Ids :
    \/ ~Open(id)
    \/ /\ Wanted(id) > 0
       /\ Search(Trash, id) = {} \/ Cardinality(Search(Trash, id)) > Wanted(id)

Locate ==
  /\ upc = "check" /\ ucheck = {}
  /\ \/ /\ ~cancelled
        /\ selected' = Trash
        /\ found' = [f \in Folders |-> ToRestore(f)]
        /\ IF Noted THEN Write(UndoLine(Trash)) ELSE UNCHANGED <<auditVars, faults>>
        /\ upc' = "restore"
     \/ /\ Fails("imap")
        /\ upc' = "failed"
        /\ UNCHANGED <<selected, found, auditVars>>
  /\ UndoReads
  /\ UNCHANGED <<blocked, ucheck, never, undos>>

\* One MOVE for each source folder.
RestoreFolder(f) ==
  /\ upc = "restore" /\ found[f] # {}
  /\ MoveCall(Trash, f, found[f])
  /\ upc' = "moving"
  /\ UNCHANGED <<serverVars, selected, cancelled, faults, userActs, trashed, restored,
                 auditVars, blocked, ucheck, never, found, undos>>

Restored ==
  /\ upc = "moving" /\ mv.pc = "ok"
  /\ Write(UndoLine(mv.dst))
  /\ found' = [found EXCEPT ![mv.dst] = {}]
  /\ mv' = Idle
  /\ upc' = "restore"
  /\ UNCHANGED <<serverVars, selected, cancelled, userActs, trashed, restored,
                 blocked, ucheck, never, undos>>

\* Mutant of RestoreFailed: the folder is tried again, whatever the error was.
RestoreRetried ==
  /\ upc = "moving" /\ mv.pc = "err"
  /\ mv' = Idle
  /\ upc' = "restore"
  /\ UNCHANGED <<serverVars, selected, cancelled, faults, userActs, trashed, restored,
                 auditVars, blocked, ucheck, never, found, undos>>

RestoreFailed ==
  /\ upc = "moving" /\ mv.pc = "err"
  /\ Write(NewLine("error", "", mv.dst, {}, NoId))
  /\ mv' = Idle
  /\ upc' = "failed"
  /\ UNCHANGED <<serverVars, selected, cancelled, userActs, trashed, restored,
                 blocked, ucheck, never, found, undos>>

\* FinishRun overwrites the run's summary; it is only shown.
UndoEnds ==
  /\ upc = "restore" /\ found = NothingFound
  /\ upc' = "ended"
  /\ UndoReads
  /\ UNCHANGED <<selected, faults, auditVars, blocked, ucheck, never, found, undos>>

UndoStep ==
  \/ Locate \/ Restored \/ RestoreFailed \/ UndoEnds
  \/ \E f \in Folders : CheckSource(f) \/ RestoreFolder(f)

UndoInit ==
  /\ upc = "none"
  /\ blocked = {} /\ ucheck = {}
  /\ never = [id \in MessageIDs |-> 0]
  /\ found = NothingFound
  /\ undos = 0

UndoTypeOK ==
  /\ upc \in {"none", "check", "restore", "moving", "ended", "failed", "crashed"}
  /\ blocked \subseteq Folders /\ ucheck \subseteq Boxes
  /\ never \in [MessageIDs -> Nat]
  /\ found \in [Folders -> SUBSET Uids]
  /\ undos \in 0 .. MaxUndos
=============================================================================
