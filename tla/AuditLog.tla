------------------------------ MODULE AuditLog ------------------------------
\* internal/apply/audit.go: the JSONL audit log of one run. apply appends to it,
\* undo reads it back and appends to it. The lines are what the code writes,
\* with the fields undo and the properties read; consecutive lines of one kind
\* that nothing reads back one by one (skips, undo results) are one record.
EXTENDS Mailbox

VARIABLES
  audit,      \* the file: its lines, how many are fsynced, and whether a line
              \* was cut short
  auErr       \* Auditor.err is set

auditVars == <<audit, auErr>>

Actions == {"move", "skip", "error", "undo", "unsubscribe"}
Line == [action : Actions, status : {"", "pending", "done"},
         folder : Boxes, uids : SUBSET Uids, id : MessageIDs \cup {NoId}]

NewLine(action, status, folder, uids, id) ==
  [action |-> action, status |-> status, folder |-> folder, uids |-> uids, id |-> id]

\* The write-ahead record of one UID, and the confirmation of one MOVE.
Intent(folder, uid, id) == NewLine("move", "pending", folder, {uid}, id)
Confirmation(folder, uids) == NewLine("move", "done", folder, uids, NoId)

\* Mutant of Reopened: the file is opened with O_TRUNC.
Truncated == [audit EXCEPT !.lines = <<>>]

\* OpenAudit of a log that exists: it is opened to be appended to.
Reopened == audit

\* Auditor.Write: the line is appended. The encoder remembers the first write
\* that failed and writes nothing any more.
Extended(l) == [audit EXCEPT !.lines = Append(@, l)]
Put(l) ==
  /\ audit' = IF auErr THEN audit ELSE Extended(l)
  /\ UNCHANGED auErr

\* A write that fails is remembered and not returned. A full disk can leave the
\* beginning of the line in the file.
PutFails ==
  /\ ~auErr /\ Fault("audit")
  /\ auErr' = TRUE
  /\ \E cut \in BOOLEAN : audit' = [audit EXCEPT !.torn = @ \/ cut]

Write(l) == (Put(l) /\ UNCHANGED faults) \/ PutFails

\* Auditor.Sync with no error remembered: the log is on disk.
Synced(a) == [a EXCEPT !.synced = Len(a.lines)]
SyncOk == ~auErr /\ audit' = Synced(audit) /\ UNCHANGED <<auErr, faults>>

\* Sync returns the error a write left behind, or fails itself.
SyncFails ==
  /\ \/ (auErr /\ UNCHANGED faults)
     \/ (~auErr /\ Fault("audit"))
  /\ auErr' = TRUE
  /\ UNCHANGED audit

\* Write then Sync, as one step: whatever else happens in between could as
\* well happen before or after.
WriteSynced(l) ==
  /\ ~auErr
  /\ audit' = Synced(Extended(l))
  /\ UNCHANGED <<auErr, faults>>
WriteUnsynced(l) ==
  \/ PutFails
  \/ ~auErr /\ Fault("audit") /\ audit' = Extended(l) /\ auErr' = TRUE

\* The machine stops. What was not fsynced may be lost from the end, and the
\* last line that survives may be a part of one.
LoseTail ==
  \E n \in audit.synced .. Len(audit.lines), cut \in BOOLEAN :
    /\ cut => n < Len(audit.lines)
    /\ audit' = [audit EXCEPT !.lines = SubSeq(@, 1, n), !.torn = @ \/ cut]

\* ReadLines: one line that does not parse makes the whole log unreadable.
Readable == ~audit.torn

AuditInit == audit = [lines |-> <<>>, synced |-> 0, torn |-> FALSE] /\ auErr = FALSE

AuditTypeOK ==
  /\ audit \in [lines : Seq(Line), synced : Nat, torn : BOOLEAN]
  /\ audit.synced <= Len(audit.lines)
  /\ auErr \in BOOLEAN

\* A step that keeps every line there is, and one that keeps those on disk.
KeepsLines ==
  /\ audit.synced <= audit'.synced /\ Len(audit.lines) <= Len(audit'.lines)
  /\ \A i \in 1 .. Len(audit.lines) : audit'.lines[i] = audit.lines[i]
KeepsSynced ==
  /\ audit.synced <= audit'.synced
  /\ \A i \in 1 .. audit.synced : audit'.lines[i] = audit.lines[i]
=============================================================================
