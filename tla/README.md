# A TLA+ model of mailshear

mailshear scans the headers of an IMAP account, groups bulk mail by sender,
lets the user decide per sender (unsubscribe, delete), and applies the
decisions: it sends the unsubscribe requests and moves the selected messages to
Trash. Every run has an audit log, and `undo` reads that log to bring the
messages back. This directory models the scan, the part of the program that
changes a mailbox, the unsubscribe requests, and the session around them (screens,
commands, accounts, tokens), checks them with TLC, and proves their safety
properties with TLAPS.

    tlc -workers 2 -config session_move.cfg MCSession.tla
    tlc -workers 2 -config scan.cfg MCScan.tla
    tlapm SoftDeleteProofs.tla
    tlc -workers 2 -config flow.cfg MCFlow.tla
    tlapm ScreensProofs.tla

## 1. The system

| part (src/) | state | operations | what makes it correct |
|---|---|---|---|
| `internal/apply` (apply.go, phases.go) | the runner: Trash, refused entries, targets, folder, batch; the run row | `Prepare`, `Execute` (unsubscribe, `deleteAll`, `deleteFolder`, `finish`) | a message moves only if it is the one that was scanned, unstarred, unprotected, not transactional; nothing moves that is not on record; everything selected is accounted for |
| `internal/apply/audit.go` | the JSONL file, the sticky write error | `OpenAudit`, `Write`, `Sync`, `ReadLines` | a synced line survives a crash; an error is seen before the next irreversible step; what was written can be read back |
| `internal/undo` | counts per Message-ID, located UIDs | `Run` | restores what the run moved, as many copies as it moved, and nothing else |
| `internal/imapx` | connection, selected mailbox, capabilities | `Dial`, `Select`, `FetchHeaders`, `FetchFlags`, `FetchIdentity`, `MoveUIDs`, `SearchMessageID`, `FindSpecialUse` | the COPY fallback never loses a message; only given UIDs are expunged |
| `internal/store` | SQLite: accounts, folders (UIDVALIDITY, last_uid), messages, senders, decisions, runs | inserts, cursor, reset, groups, decisions, `DeleteMessageRows`, purge, migrations | rows and cursor agree with the scanned mailbox; a decision outlives a rescan |
| `internal/scan` | cursor of each folder, senders seen | `Run` (per folder, per chunk), reset on a new UIDVALIDITY, open range | after a scan every message up to the cursor has its row, also after an interruption |
| `internal/unsub` | semaphore, limiter per host | `Run`, one worker per target: one-click POST, GET, mailto | at most `MaxInFlight` requests, one per host and interval, one result per target, a cancelled run ends |
| `internal/plan` | the plan file | `FromDecisions`, `Write`, `Read` | what is applied is what was decided |
| `internal/tui` flow, backend | the screen, the operation in progress and its cancel function, `prepared`, connection, account | screens, `Connect`, `Scan`, `WritePlan`, `Prepare`, `Execute`, `Undo`, account administration | one operation at a time; what is executed is what was confirmed, on the account that is shown |
| `internal/tui` screens | cursor, selection, filter | keys and rendering | selection rules |
| `internal/oauth`, `internal/creds` | token and password files; the sign-in in progress | `Login`, `Refresh`, `AccessToken`, save, delete | a stored refresh token is one the provider accepts |
| `internal/config` | config.yaml | `Load`, validate, add, update, remove account | an edit leaves the rest of the file alone |
| `internal/headers`, `keep`, `text` | none | pure functions | classification and matching |
| `cmd/mailshear`, `tools` | none | start-up; demo and installer | |

How they interact: the flow starts one backend call at a time in a goroutine and
gets one message back. `Scan` fills the database from the server. The review
writes a plan, `Prepare` reads the database and looks up Trash, and `Execute`
runs it: database, server and audit log in a fixed order. `undo.Run` shares
nothing with apply but the audit log, the server and the run row. ctrl+c cancels
the context that all of them look at. Other mail clients change the mailboxes at
any time.

What is hard about it: the order of audit line, fsync, IMAP command and database
delete against a crash in between; commands that fail half-way; UIDs that
change on a move and on a rebuilt mailbox; several copies of one Message-ID; a
full disk; cancellation between any two commands; other clients. Concurrency
inside the program is confined to the unsubscribe workers and to the commands
that run beside the screens: their messages carry no identity, arrive on whatever
screen is open by then, and share one backend without a lock.
`PROJECT.json` lists each hazard at its line.

## 2. Modules

| module | models |
|---|---|
| `Mailbox` | the IMAP server as the code relies on it (external), `imapx.MoveUIDs` command by command, searches and fetches by UID, other mail clients |
| `AuditLog` | `audit.go`: the log, its sticky error, `Sync`, crash loss, torn lines |
| `Apply` | `apply.go`, `phases.go`: `Prepare`, `Execute` |
| `Undo` | `undo.go`: `Run` |
| `Session` | the composition: one run and its undos over one server, one disk and one database, with cancellation and crashes; the properties and the inductive invariant |
| `MCSession` | the instances TLC checks: scenarios of four or five messages |
| `Scan` | `scan.go` with the folders, messages and senders tables of `internal/store`, purge and rescan, over mailboxes of its own (external); its properties and inductive invariant |
| `MCScan` | the instance of `Scan` |
| `SoftDelete` | the abstract specification of a delete and its undo; `Session` implements it |
| `Unsub`, `MCUnsub` | `unsub.go`: `Run` with one goroutine per sender, and its caller in `phases.go`; the instance |
| `Flow`, `MCFlow` | the screens and commands of `flow*.go` over the connections and plans of `backend.go`; the instance |
| `Review` | `model.go`, `update.go`: rows, marks, escalations, protection |
| `Form` | `screen_setup.go`: the provider in effect, MX lookups, submit |
| `Token` | `oauth.go`, `creds/token.go`: sign-in, refresh, the token file against the provider |
| `Accounts` | the accounts screen, `AddAccount`, `SaveSetup`, `SignOut`, `RemoveAccount`: config file, credentials, edits of the file place by place; EXTENDS `Form` and `Token` |
| `Screens`, `MCScreens` | `Review` and `Accounts` in one session; the instance |
| `AuditLogProofs` | lemmas about the server's steps and the log |
| `SessionProofs`, `SessionSafetyProofs`, `SoftDeleteProofs` | the theorems about `Session`; each extends the one before it |
| `ScanProofs`, `UnsubProofs`, `FlowProofs`, `ScreensProofs` | the theorems about the other compositions |

Five compositions are checked: `Session` (mailbox, log, apply, undo), `Scan`, `Unsub`,
`Flow` and `Screens`. They meet at what one leaves for the next: `Session` begins with a
finished scan (`ScannedRows`), `Flow` runs scan, apply and undo as commands that end, fail or
are cancelled, and `Screens` has of the flow only what the accounts and the form need.

### State and code

* `mail[b]` is the set of `[uid, msg, deleted]` in mailbox b. A *copy* is a physical
  message; several copies may share one Message-ID (`IdOf`). `uidnext[b]` is a
  bound above every UID the mailbox has given out. `starred` stands for `\Flagged`
  and `\Answered`, which the code treats alike.
* `mv` is the `MoveUIDs` call in progress: each IMAP command is a step
  (`UidMove`; `UidCopy`, `UidStore`, `UidExpunge`), and each can fail before, after or
  in the middle of what it does. `ImapBatch` and `MoveBatch` are the two batch sizes.
* `audit` is the log: its lines, how many are fsynced, and whether it holds a line
  that was cut short; `auErr` is `Auditor.err`. The encoder of the Go library
  stops writing after its first error, which `Put` models.
* `pc` is the place in `Execute`; `scope`, `targets`, `noSource`, `todo`, `folder`,
  `flagsSeen`, `queue`, `intents` are the locals and runner fields of `deleteAll` and
  `deleteFolder`. One action is one handler between two waits: an IMAP command, a
  database call, an fsync, or the audit line that goes with it.
* `upc`, `blocked`, `ucheck`, `never`, `found` are the locals of `undo.Run`. What it computes
  from the log (`Confirmed`, `Source`, `Recorded`, `Unconfirmed`, `Wanted`) are operators on `audit`.
* `trashed`, `restored` and `steady` are history: what the program put into Trash, what it
  took out, and which messages have been starred since `Execute` began. No action reads them.

* In `Scan`, `rows`, `known` and `senders` are the three tables a scan writes; `known[f]` is the
  UIDVALIDITY and cursor of a folder, zeros when there is no row, which `runFolder` treats
  alike. `job` holds the locals of `runFolder` and `runOpenRange` (`max` is UIDNEXT - 1, `got` the
  messages of the chunk, `seen` the senders), `todo`, `reached`, `missed` those of `Run`. One action
  is one IMAP command or one database transaction; `result` is what `Run` returned, and says
  "db" once a database call has failed.
* `assigned`, `promised`, `noted` and `orphaned` are history of `Scan`: which message ever had which UID
  under which UIDVALIDITY, what each mailbox held when it was selected, which senders the scan came
  across, and which folders have rows of a first scan without a cursor.

* In `Unsub`, `work[t]` is one goroutine: where it stands (`at`) and `runOne`'s locals; `limiters` is the map
  of `hostLimiter` with the next free slot of each bucket, `sem` the number of tokens in the channel.
  A step is what a goroutine does between two waits: the lookup, the reservation under the
  lock, the sleep, the token, the request, the answer. `requests` and `answers` are history;
  `logged` and `recorded` are the caller's loop over the results.
* In `Flow`, `ops` are the commands running beside the loop, each with its context (`live`), and `current` is
  the one `opCancel` stops; `bacct`, `cl`, `sacct`, `opened`, `prepared` are fields of `LiveBackend`, the rest fields of
  `flowModel` and its screens. A key is `Update` on that key; `Step(i)` is one blocking call of a command
  or its end, together with the handler of its message. `plans` and `ran` are history.
* In `Review`, `sel` is the four marks of each sender, `cursor` an item (a header, a row or a member row), and
  `Items` what `rebuild` lists; `Result` is what `result` hands on. In `Form`, `form` is the `setupModel`, and
  `lookups` the sequence numbers of MX lookups under way. In `Token`, `token` is the file and
  `accepted` what the provider takes; `refreshes` are running calls of `AccessToken`, `login` is `Login` with its
  one-shot and result channel.
* In `Accounts`, `file` and `passwords` are on disk, `cfg` is `b.cfg` (the entries of the file as read last), `startup` the
  names in `m.deps.Cfg`, `acct` and `table.rows` are the copies of entries the screens hold, and `commands` the calls
  under way. A save or a removal goes on place by place (`at`): the check of the name against `cfg`, `readDoc`
  (`FileRead`, which keeps what it saw in `seen`), `writeDoc` (`FileWritten`), the password, the token, `config.Load`
  (`FileLoaded`), and the end, which sets `b.cfg`. Between any two of them other commands, keys, and edits by
  hand (`EditFile`) take their steps. `spoiled`, `troubled` and the commands' `alone` are history: what
  overlapped, stopped half-way, or was written by hand.
* `SoftDelete` knows where each letter is, which were discarded and which came back. `Promise` in `Session`
  maps it: a letter's `place` from `mail`, `discarded` from `trashed`, `returned` from `restored`.

### Abstractions

* The plan is given by constants (`Unsubscribe`, `DeleteMatched`, `DeleteAll`, `IncludeKept`),
  like the verdicts of `headers` and `keep` per message (`Bulk`, `Transactional`, `SenderOf`).
* Folders are taken in any order; the code sorts them. Consecutive skip lines, and
  consecutive lines of an undo, are one record: nothing reads them one by one.
* A failed lookup of a special-use mailbox loses any subset of them.
* A crash keeps the server, the database (SQLite commits are durable) and the synced
  lines of the log, and loses any tail of the rest, perhaps with a torn last line.
  `scope` and `targets` are left as they were for the properties to refer to.
* `Scan` has no prefilter: `SearchGmailRaw` always returns an error, so every scan is a full sweep. The
  localized all-mail name, progress and the contents of a sender row are left out. A fetch
  that fails has passed any subset of its messages to the callback.
* A purge that fails changes nothing (one transaction); a rescan request is one transaction per
  folder and may stop after any of them.
* `Unsub`: time is a counter, and a worker that can take a token or send does so before the clock moves. A
  lookup answers in one step; wording, request bytes and addresses are left out. Database errors other
  than the cancelled context are left out, as the caller only warns of them.
* `Flow`: a y/n question and its answer are one key, and a list that is only read and shown has no
  command. A message is handled in the step that ends its command, except that of a prepared plan,
  which may wait in the queue. A command has reached its first blocking call when it is
  started. A `Prepare` or `Load` that is cancelled before its last read of the database fails; past it
  (`Prepare`, then `Store`), the plan is stored whatever happened to the command, as `b.prepared = pd` asks for
  nothing. A dial that has begun ignores its context. The assignment of `b.sacct` belongs to the step of
  `UpsertAccount`. Adding and removing accounts is in `Accounts`.
* `Screens`: a backend call other than a save or a removal takes effect in the step that ends its command, and
  each may fail at every place where it returns an error. A write of the file that fails leaves it as it was, or
  as written if the failure comes later (two writes share one `.tmp` file, so a rename may fail after the other's).
  An account list that is empty is read like any other, as `config.Load` accepts it. Scanned
  data that a removal drops is `Scan`'s. A sign-in waits for the one before it, and a scan that needed a refresh
  ends with it. The provider is external: one that rotates stops taking the token that
  was presented, one that does not returns no new one.
* The confirmation line and its `Sync` are one step: nothing else reads the log in between,
  and the outcomes of a failure in between are the outcomes of the step.

## 3. Properties and runs

The first five runs use `MCSession`; of the others each is named for its module. `FaultKinds` and `MaxFaults` bound what may fail in one
behaviour, `UserActs` and `MaxUserActs` what another client does, `MaxUndos` the undos.

| run | instance | properties |
|---|---|---|
| `session_move` | server with MOVE; two X and a Y in A, a Z in B, the user's own X in Trash; up to 3 of crash, failed MOVE, failed audit write or sync, database error, cancel; one undo | `TypeOK`, `WriteAhead`, `RowsOutliveRecord`, `OnlyOwnCopies`, `RoundTrip`, `OperationsEnd` |
| `session_copy` | server with UIDPLUS and no MOVE; two X and a Y in A, the user's own X in Trash; the same 3 faults; one undo | `NothingLost`, `ConfirmedMeansGone`, `OperationsBounded`, `ImplementsSoftDelete` |
| `session_user` | five messages in A, a folder J the server marks special-use and a folder S with a well-known name; another client stars, unstars, moves and rebuilds twice; one audit, IMAP or database fault or a cancel | `RightMessage`, `NoSteadyStar`, `AllAccounted` |
| `torn_log` | as `session_move`, one crash or audit fault | `UndoKnows` is violated |
| `undo_twice` | as `session_move`, no faults, two undos | `OnlyOwnCopies` is violated |
| `scan` | A with UIDs 1, 2 and 5, B without UIDNEXT, J empty and special-use; chunks of 4, UIDs up to 7; two scans, two failures of any kind, two acts of the server or purges | `TypeOK`, `NoHole`, `ScanCovers`, `RowsCurrent`, `SendersRecorded`, `CursorAdvances`, `ScanBounded`, `ScanTerminates` |
| `scan_stale` | as `scan`, one crash | `RescannedFromZero` is violated |
| `unsub` | a one-click sender and a plain link on one host, a sender to write to; two tokens, slots two ticks apart, one redirect followed, a private host; cancelled at any point | `TypeOK`, `SlotsApart`, `InFlight`, `HonestResult`, `AskedOnce`, `WorkersBounded`, `PhaseEnds` |
| `flow` | two mailboxes, one with a browser sign-in; from every landing screen, six keys, three commands at once, two plans; each command may fail or be cancelled | `TypeOK`, `OneThingToStop`, `SwitchDropsPlan`, `WaitEnds` |
| `flow_switch` | as `flow`, up to eight keys | `OwnConnection` is violated |
| `screens` | three senders, two of one domain; a fresh install, or one account signed in with a browser; five keys, typing included, two lookups, two refreshes, two commands, three refresh tokens, an entry written by hand | `NoProtectedDecision`, `EscalationsAsked`, `SelectAllSpares`, `HandPickKept`, `TokenAccepted`, `NothingLeftBehind`, `AddNeverReplaces`, `FormWaitEnds` |
| `config_overlap` | as `screens` with one sender, one lookup, one refresh and nothing written by hand | `OthersKept` is violated |

* `WriteAhead`: every message ever put into Trash has a durable intent with its folder and
  Message-ID. `RowsOutliveRecord`: a database row goes only when the log durably confirms the move.
* `OnlyOwnCopies`: undo takes out of Trash only what the run put there. `RoundTrip`: an undo
  that ends without an error gives each folder as many copies of each Message-ID as it
  had, however far the run came. It holds when nobody else moved mail, and for
  folders undo may restore into.
* `NothingLost`: a message is always in some mailbox. `ConfirmedMeansGone`: a confirmed UID is
  no longer in its folder, which undo relies on.
* `RightMessage`: whatever is moved is, by folder, UID and Message-ID, what a selected row stands
  for, unstarred, not kept, and not in a well-known protected folder, also when the mailbox
  is rebuilt under the run. `NoSteadyStar`: what is starred before the run and stays so is not moved.
* `AllAccounted`: after a run that ends without an error, each target is confirmed or skipped in the log.
* `OperationsEnd`: a run or an undo that was started ends. `OperationsBounded` (`RunBounded` and `UndoBounded`)
  says why: what it still has to do is a finite set of steps (`RunLeft`, `UndoLeft`: phases, folders, UIDs), and every step
  of it, successful or not, takes something out and puts nothing in. A retry, or an error path that goes
  back, breaks it. An undo adds once: when it has looked up what there is in Trash.
* `NoHole`: while a folder's stored UIDVALIDITY is the server's, each message at or below the cursor that
  yields a row has its row; an incremental scan never looks there again. `ScanCovers`: after a scan
  without an error, what a selected folder held then and still holds is in the database.
* `RowsCurrent`: a row names the message that had its UID under the UIDVALIDITY on record, except in
  folders a first scan left without a cursor. `RescannedFromZero` is the same without the exception.
* `SendersRecorded`: a scan that ends normally, or by a failed or cancelled fetch, has recorded every
  sender it came across. `CursorAdvances`: a cursor goes back only together with the folder's rows.
  `ScanTerminates`: a scan ends. `ScanBounded`: each of its steps leaves fewer to take, and what the
  server does meanwhile leaves no more, so the chunk loop cannot go round over an odd cursor or UIDNEXT.
* `ImplementsSoftDelete`: every step of a run and its undo is one `SoftDelete` allows, or changes nothing there.
  A letter is always somewhere, enters Trash once, and comes back once, into a folder that
  misses one with its Message-ID. The specification says "with its Message-ID" and not "that letter":
  after a crash between COPY and EXPUNGE undo may bring back another copy than the one that
  is missing, because Message-IDs are all it has.
* `SlotsApart`: requests to one host that `Run` starts have slots at least the interval apart, and none goes
  out before its slot. It does not say that they *leave* an interval apart: slots are taken before the
  semaphore, and redirect hops take none (`RequestsApart` is false). `InFlight`: the semaphore counts exactly those who hold a token,
  on every return path. `AskedOnce`: one POST, mail or GET with its redirects per sender, and a GET after
  a POST only when that POST was redirected. `HonestResult`: "ok" needs an accepted POST or mail, "manual"
  means that nobody was contacted, and the database says the same. `PhaseEnds`: every sender gets its line.
  `WorkersBounded`: each step of a goroutine leaves it fewer to take, so redirects and the fallback cannot chain
  without end.
* `OneThingToStop`: of the operations `newOp` starts (scan, load, the end of a review, apply, undo and sign-in) at most
  one has not been told to stop, and it is the one ctrl+c reaches. Purging and rescanning from the menu, and the
  purge of a removed account, run beside it (`WorkAlone` is false). `SwitchDropsPlan`: no step leaves a prepared plan with
  a closed connection where there was none, with one exception: a `Prepare` that was told to stop after its
  last read stores what it made (`PlanConnectionOpen` is false). `WaitEnds`: a screen that only waits is left or shows an error.
* `NoProtectedDecision`, `EscalationsAsked`, `SelectAllSpares`: no decision for a protected sender leaves the review;
  delete-all and include-kept are set only after the session's question; a and A mark nobody protected, and no
  sender of receipts from outside the keep section, however rows are merged and filtered.
* `HandPickKept`: a provider picked by hand survives late lookup answers. `TokenAccepted`: the stored
  refresh token is one the provider takes, except where a replacement was lost before it
  reached the file. `NothingLeftBehind`: what was removed without an error leaves no credential, except when a
  refresh or sign-in of that account was under way. `AddNeverReplaces`: adding an account never changes the entry
  of that name, and no save or removal changes or drops the entry of another account, whatever the form and `b.cfg`
  knew. Both except names that are `troubled`: edited by calls that overlapped, by one that stopped half-way, or by
  hand, since the last call that edited them undisturbed. That nobody else's entry suffers from such an
  overlap is part of the property; what those calls do to each other is `OthersKept` and `AddedNew`, both false.
  `FormWaitEnds`: lookups and sign-ins that the form waits for end.

The bounds: two copies of one Message-ID and one of the user's own is the smallest case in
which counting and "newest first" can go wrong; `MoveBatch = 2` over three messages gives
a full and a partial batch, and `ImapBatch = 1` two commands per batch; three faults
allow a failure, a crash and a cancellation in the same behaviour, so an undo can fail
as well as the run before it. Two acts of another client suffice for a message that is replaced
(filed away, mailbox rebuilt) between two of the run's commands. In `scan`, UIDs 1 to 5 in chunks of 4
give two chunks with a gap between UIDs; with UIDs of 3 bits a chunk bound formed in the
width of a UID wraps, as it would at 2^32; two acts allow a rebuilt mailbox between two scans
and mail that arrives or goes in the middle of one; two failures allow a crash in the
first scan and a failed call in the second. In `unsub`, three senders over two tokens make one
wait, two on one host with slots two ticks apart make one sleep, and the one-click sender can fall back
to a GET on the same host; the clock runs past `Horizon` only while a slot is awaited. In `flow`, six keys
reach a switch of accounts with a plan prepared, a run with its undo, and ctrl+c at each of them; three
commands are an operation, the one it cancelled, and one outside `newOp`. In `screens`, five keys from the list of
accounts or from a form that is filled in suffice to mark, regroup and protect a sender, to ask and confirm an
escalation, to save, sign in and use a second account, and to remove one while a refresh is under
way; two refreshes and two commands are the least that can overlap, and the two commands stop at each of
their seven places for the other. The account of the list has a domain that needs a lookup, so that with two lookups
five keys suffice to leave a form with its lookup under way, open another whose lookup has the same
number, and pick a provider by hand before either answer comes.

Fairness (`FairSpec`; `Spec` in `Screens`): weak fairness of the running
operation's steps (`ScanStep` in `Scan`, each goroutine and the clock in `Unsub`, each command in `Flow`). Each operation runs in a goroutine of its own and waits for the
server and the disk only. That the server answers a command, or the connection
breaks, is an assumption about the server: the IMAP client bounds the rest of a response
once it has begun and not the wait for it, and that wait does not look at the
context, so neither a deadline nor the first ctrl+c ends it. Nothing makes the user start an
operation, and no fault is fair: a cancelled operation ends at its next check. In `Unsub` an http request
ends by the client's timeout, and that the SMTP server answers is assumed. In `Screens` only lookups (a
limit of three seconds) and sign-ins (five minutes) are fair; the browser need not come back.

For each property of a passing run `PROJECT.json` names a mutant, a plausible slip in one
mapped definition, that makes TLC report that property violated.

### Where code and comments part

Five disagreements have a run of their own:

* The write-ahead comment (phases.go:460) says a full disk or a crash never leaves a message
  undo does not know about; a torn line makes `ReadLines` fail, and undo refuses the
  whole run (run `torn_log`). The intents themselves are on disk: that is `WriteAhead`.
* The count per Message-ID (undo.go:42) bounds one call of undo and not all of them: the
  second undo of a run takes the user's own copy out of Trash (run `undo_twice`).
* docs/design.md:125 says the records of a folder are discarded when its UIDVALIDITY changes. A first scan
  that stops between the rows of a chunk and its cursor leaves rows with no UIDVALIDITY on
  record, and `needsReset` trusts a stored zero (run `scan_stale`).
* backend.go:165 says that switching accounts must not reuse the previous mailbox's connection. `Connect` stores
  what it has dialled without looking whether the account changed meanwhile, so a scan that was still
  dialling when the user switched leaves its connection to the other account's scan (run `flow_switch`).
* backend.go:73 says that saving an account never disturbs the others. `UpsertAccount` and `config.RemoveAccount` read the file
  and write it back with nothing in between that would notice another edit; a form that is saving can be left, and
  the second of two overlapping saves drops the first one's account (run `config_overlap`).

Of the others the modules state what the comment says; put in place of the properties of the cfg named, it
gives the counterexample.

* `PlanConnectionOpen` (`flow_switch.cfg`). backend.go:165 says of the prepared plan what it says of the connection. A
  `Prepare` past its last read stores its plan (backend.go:318) after the switch, with the connection that was closed.
* `WorkAlone` (`flow_switch.cfg`). flow_commands.go:265 says that `newOp` cancels whatever was running and that ctrl+c has one
  thing to stop. The menu's maintenance does not go through `newOp` (flow_admin.go:467), so a purge can run beside a
  plan being prepared, and ctrl+c stops only the latter.
* `ShownIsRun` (`flow_switch.cfg`). docs/design.md:65 says that the confirmation screen shows exactly what is about to happen.
  Pressing w twice starts two `Prepare`s; with the first one's plan on screen the second stores its own, which is
  what enter would execute until its message arrives.
* `AddedNew` (`screens.cfg`). flow.go:63 says that the name of an added account must be unused. `AddAccount` checks `b.cfg`
  (backend_admin.go:147), which may be older than the file, and replaces an entry that was written by hand meanwhile.
* `RetryTaken` (`config_overlap.cfg`). The form says "sign-in cancelled; press enter to try again" (flow_commands.go:101). On the
  add form the account is in the file by then, so enter is refused: the name is already configured.
* `RequestsApart` (`unsub.cfg`). unsub.go:131 and docs/design.md:97 promise one request per interval and host. What the limiter keeps
  apart are slots: a redirect is followed at once (unsub.go:325), and requests held up by the semaphore leave together.
* `NeverIntoNeverDest` (`undo_twice.cfg` with `NeverDest = {"Trash"}`). `neverDest` (apply.go:224) promises that a delete never moves
  messages into these folders whatever the config says; it is consulted only for a line of the preview
  (phases.go:194), and the MOVE goes ahead.

## 4. Proofs

Each component's module states its inductive invariant at its end, below the properties it is
for; the proof modules have one lemma per action and collect them over `Next`.

### The run and its undo

`SessionProofs` proves, for all values of the constants (any finite mailboxes, plans,
batch sizes, fault budgets and acts of other clients):

* `TypeCorrect`: `Spec => []TypeOK`
* `WriteAheadHolds`: `Spec => []WriteAhead`
* `RightMessageHolds`: `Spec => []RightMessage`

None of the three is inductive. `IInv` (in `Session`) strengthens them with

* `UidsOK`: UIDs of a mailbox are unique and below `uidnext`, so a UID that is
  given out is never one a row refers to. This is what makes "the UID was
  verified" stay true while other clients work;
* `RowsInv`: targets are scanned rows in the plan's scope, and there are none before `deleteAll`;
* `FolderInv`: during `deleteFolder` the folder is selected and not a protected one. A
  selected mailbox is not rebuilt under the session: `UserRebuilds` says so, as IMAP does;
* `BatchInv`: each queued UID is `Verified`: it stands for a target, and whatever message holds
  it has the target's Message-ID and is not kept. While intents are written those already
  taken out of `intents` are in the log, and while the MOVE is out they are all in its synced part;
* `CallInv`: a MOVE into Trash is out only in `pc = "moving"`, undo runs only after the run is over,
  and nothing is in `trashed` before the delete phase.

`InitHolds`, one lemma per action collected in `StepHolds`, and `Inductive` give
`Spec => []IInv`. `AuditLogProofs` has what the server steps preserve (fresh UIDs, each of
MOVE, COPY, STORE, EXPUNGE, another client's steps), what each
operation of the log keeps (`KeepsLines`, `KeepsSynced`) and that a synced line survives.
The assumptions used are those the modules state about their constants: finiteness of `Copies`
and `Folders`, distinct first UIDs below `FirstNext`, and `SessionAssumption` (apply's and
undo's tables of protected names are the same ones).

`SessionSafetyProofs` adds, each from `IInv` and an invariant of its own:

* `RowsOutliveRecordHolds`: `Spec => []RowsOutliveRecord`. `RecordInv`: at the database delete
  the confirmation of this very batch is in the synced part of the log.
* `NothingLostHolds`: `Spec => []NothingLost`. `LossInv`: between COPY and EXPUNGE each message of the
  chunk is in a mailbox in another place too. That the other place is not the one being emptied needs
  `OwnerInv`: a call that is out is apply's out of its folder or undo's out of Trash, and names only
  UIDs its mailbox has given out, so no copy that arrives meanwhile falls under them.
* `ConfirmedMeansGoneHolds`: `Spec => []ConfirmedMeansGone`, assuming that no mailbox is rebuilt. `GoneInv`: what
  left `todo` without an error, and what was confirmed, is `Vanished`: below `uidnext`, held by nobody. The
  assumption is needed: a rebuilt mailbox gives the same UIDs out again, and the log has no UIDVALIDITY.
* `NoSteadyStarHolds`: `Spec => []NoSteadyStar`. `SteadyInv`: what passed the flags check and what is queued
  stands for no message starred since the start, because the flags are read after the run was confirmed
  and a selected mailbox is not rebuilt.
* `AllAccountedHolds`: `Spec => []AllAccounted`. `AccountInv`: each target is on record, in a folder still to do,
  or in the folder at hand and not dropped from the queue without a line.

### What undo brings back

`SoftDeleteProofs` proves, for any mailboxes, plans, batch sizes, fault budgets and either way of moving:

* `DeleteKeepsPromise`: until an undo moves mail, every step of `Session` is one of `SoftDelete` or changes
  nothing there; nobody else moves mail meanwhile (`"move"` and `"rebuild"` are not in `UserActs`)
* `SoftDeleteImplemented`: `Spec => ImplementsSoftDelete`
* `OnlyOwnCopiesHolds`: `Spec => []OnlyOwnCopies`
* `RoundTripHolds`: `Spec => []RoundTrip`

The last three assume `UndoOnce` and `OneSource`, which `session_move` and `session_copy` satisfy. Each part of
them excludes a case in which the code does not keep the promise: a second undo counts the
copies of the first one again (run `undo_twice`); a source folder that cannot be selected is taken
as emptied (undo.go:181; no `"imap"` in `FaultKinds`); a Message-ID in two folders goes back to the first of
them (undo.go:104; `OneSource`); and other clients may put their own copies on either side. The whole of
crashes, failed moves, audit and database errors and cancellations stays.

The argument has four parts, each an invariant at the end of `Session`:

* `DiscardInv`: before undo moves anything, every entry of a folder is there under its first UID (`HomesOK`),
  Trash holds the run's copies above `FirstNext` and the user's below, each once, and what is still queued
  was not discarded (`WaitingOK`). So each MOVE and COPY is a `Discard`, each EXPUNGE a `Remove`.
* `LedgerInv`: every intent names a message where it was at first, and none is named twice, whatever part of
  the log was lost; with `WriteAhead` the log names every discarded message, once.
* From both, `NothingLost` and `ConfirmedMeansGone`, `CountIs`: recorded intents less those undo finds
  unmoved (`NeverMoved`) are exactly as many as the folder misses. The intents that were never carried out are
  mapped one to one to messages still at home, and the others to messages that are away. `CheckInv` says that
  `never` holds this count, and `NewestAreOwn` that so many of the newest copies in Trash are the run's.
* `ReturnInv`: while undo moves mail, what it has found for a folder and not moved yet (`Owed`) is no more than
  the folder misses, and together with what is there makes up `CountBefore` (`Balanced`). A
  command that puts messages back takes as many from one side as it adds to the other.

`KeptInv` is their conjunction with `IInv`, `GoneInv` and `LossInv`; `KeptStep` shows that every step keeps it and maps to
a step of `SoftDelete` or a stutter. The counting lemmas (`SameCount`, `FewerCount`, `HighestCount`, `HighestAmong`) are at
the beginning of the module.

### Why operations end

`SessionSafetyProofs` closes with `OperationsBoundedHolds`: `Spec => OperationsBounded`, from a lemma for the run and one for the undo,
without an assumption beyond those of the modules, other clients and rebuilt mailboxes included. A step `<<<<box, uid>>, step>>` is left as long
as the code may still have to take it. `RunTurns` reduces apply's actions to a dozen ways in which the run's
place, folders, queue and call can change, `CallMoves` those of `MoveUIDs` to four; `RunLowers`, `CallLowers` and
`UndoLowers` show for each that the set shrinks, and `Fewer` and `FoundFewer` that it does so as a whole when one part
does. A step shrinks it only because no batch and no chunk is ever empty and no folder comes twice: that is
`BusyInv` (`RunBusy`, `CallBusy`, `UndoBusy`, with `OwnerInv`), proved from `IInv`. The sets are finite because there are
finitely many rows, and because what undo has found in Trash is below its `uidnext` (`OwnerInv`).

### The scan

`ScanProofs` proves, for all mailboxes, folders, chunk sizes, word widths and fault budgets:

* `ScanTypeCorrect`: `Spec => []TypeOK`
* `NoHoleHolds`: `Spec => []NoHole`
* `RowsCurrentHolds`: `Spec => []RowsCurrent`
* `CursorAdvancesHolds`: `Spec => CursorAdvances`
* `ScanCoversHolds`: `Spec => []ScanCovers`
* `SendersRecordedHolds`: `Spec => []SendersRecorded`
* `ScanBoundedHolds`: `Spec => ScanBounded`

The first four rest on `ScanInv` (in `Scan`). `NoHole` alone is not inductive: the step that stores a cursor
keeps it only because of what the chunk loop has behind it. `ScanInv` adds

* `UidsOK`: a mailbox's UIDs are unique, below UIDNEXT and on record in `assigned`;
* `KnownOK`: the folders table never runs ahead of the server, so a new message has a UID above
  any cursor that counts, and a rebuilt mailbox a UIDVALIDITY above the stored one;
* `JobOK`: the folder being scanned has the UIDVALIDITY it was selected with (a selected mailbox is
  not rebuilt), and `max` is still below UIDNEXT;
* `LoopOK`: everything below `lo` is stored, and the cursor is below `lo`;
* `ChunkOK`: a fetched chunk together with the rows has everything up to `hi`, and what it has is
  what the mailbox has under these UIDs, so `INSERT OR REPLACE` never replaces a right row by another;
* `RowsOK`: `RowsCurrent` with the one transient exception, the chunk whose cursor is still to come.

`QuietStep`, `ResumeStep`, `OrphansStep`, `AdminStep` and `ServerStep` are what groups of actions have in common; one
lemma per action, `StepHolds` and `Inductive` follow, and `BackStep` for the action property.
`ScanCovers` speaks of the end of a scan and of what each folder held when it was selected. `CoverInv` says
where that is in between: nothing is promised at or above UIDNEXT (`PromiseOK`), the folders behind the
current one are covered, and an open range is covered once its only chunk is stored; for a
closed range `NoHole` at the last cursor gives it. `NotedInv`: a sender the scan came across is
recorded or still in `job.seen`. `ScanBounded` needs of
`ScanInv` that in the chunk loop `lo` is at or below `max`: no chunk is empty, so three steps for each UID from `lo` on suffice.
The assumptions are those of `Scan` on its constants: an initial mailbox with distinct
UIDs below UIDNEXT, a positive chunk size, and a positive largest UID.

### The unsubscribe requests

`UnsubProofs` proves, for any senders, links, hosts, number of tokens, interval and redirect limit:

* `TypesHold`: `Spec => []TypeOK`
* `SlotsApartHolds`: `Spec => []SlotsApart`
* `InFlightHolds`: `Spec => []InFlight`
* `AskedOnceHolds`: `Spec => []AskedOnce`
* `HonestResultHolds`: `Spec => []HonestResult`
* `WorkersBoundedHolds`: `Spec => WorkersBounded`

They rest on `UnsubInv` (in `Unsub`). `SlotsApart` speaks of requests that went out, and a request is apart from the
others because its slot was when it was reserved, with steps of other goroutines in between. So
`UnsubInv` adds: `WorkOK`, the shape of a goroutine's record; `ClockOK`, a reserved or used slot is an interval behind
its bucket's next one, and due once the goroutine is past its timer; `PacedOK`, reserved slots are
apart from each other and from those used; `AskedOK`, what went out for a goroutine given where it
stands (nothing before its first request, only a redirected POST before its GET). `MoveIs` and the
lemmas after it say how a goroutine's record changes, `QuietStep` and `SilentStep` what steps that reserve or send
nothing keep, and `SameHolders`, `OneMore` and `OneLess` count tokens; one lemma per action follows. `HonestResult`
needs `HonestOK` besides: what an "ok", a "probable" and a "manual" result each rest on, that a goroutine on its way
has no result yet and keeps at most a failed POST, and that nothing is recorded before every
goroutine is done; its lemmas are `Ends` (a goroutine returns), `GoesOn` and one per action. `TypeOK` needs both
and `ShapeOK`, the bounds of a goroutine's fields. The assumption is
`UnsubAssumption`: a positive interval and number of tokens, and senders numbered 1 to n, as `Targets` is a slice.

### The session around them

`FlowProofs` proves, for any accounts and any number of commands at once (the budgets of keys and failures
only bound the runs):

* `TypesHold`: `Spec => []TypeOK`
* `OneThingToStopHolds`: `Spec => []OneThingToStop`
* `SwitchDropsPlanHolds`: `Spec => SwitchDropsPlan`

They rest on one another in `FlowInv` (in `Flow`). `OpsInv`: a command that can be stopped and has not been is
the one in `current`, which says more than "at most one". It carries the third property: a connection is
closed only where a scan of another mailbox begins, which drops the prepared plan and stops the command
in flight; a finish command that holds the closed connection has therefore been told to stop (`Sound`), and where its
`Store` comes after that, it is the exception the property names. Maintenance is not among the commands that
`OpsInv` speaks of. `ReviewInv` says
how the review is reached: only past a load of an account's senders. The assumption is
`FlowAssumption`: account names are not the names used for no account, no link and a closed one.

`ScreensProofs` proves, for any senders and grouping, accounts, domains, providers, lookups and refreshes at once:

* `TypesHold`: `Spec => []TypeOK`
* `NoProtectedDecisionHolds`, `EscalationsAskedHolds`, `HandPickKeptHolds`, `TokenAcceptedHolds`,
  `NothingLeftBehindHolds`: `Spec => []` of the property in the name
* `SelectAllSparesHolds`, `AddNeverReplacesHolds`: `Spec =>` the action property in the name

They rest on `IInv` there, the conjunction of what each screen's module states:

* `ReviewInv`: the protected carry no mark (`Unmarked`), and a question about an escalation is only open over
  rows that can be escalated (`AsksUnprotected`), so the answer cannot reach a sender that is protected;
* `FormInv`: a form is saved only with no lookup awaited, and a provider picked by hand is in effect;
* `TokenInv`: a token that was issued and not stored yet is good and nobody else's (`FreshInv`), no two accounts
  share a token (`OwnInv`), without rotation a stored one stays good (`KeptInv`), and with it one that is no
  longer good has its replacement on the way or was lost (`RotatedInv`). This is what two refreshes and a
  sign-in of one account at a time can do to each other;
* `AccountsInv`, about edits of the file that go on place by place. `EditInv`: an edit that runs alone has done what its
  place says (`Progress`: the entry is written, the password dropped, the token gone with no refresh or sign-in left);
  what any edit has read is still the file's, but for its own name and the troubled ones, so writing it back harms
  nobody else; and an add past its check has no entry in the file, unless the name is troubled. `EditsInv` adds that of
  two edits under way neither is alone. `ListedInv`: `b.cfg` has every account of the file but one whose save has yet
  to read it again, which is why the check of an add is enough. `NobodysInv`: a name that is not in the file has nothing
  running that could still store a credential, but while its removal has yet to drop the token; so
  `NothingLeftBehind` holds between the places too. `troubled` excepts names from each of them; a name
  leaves it only when an edit of it ran alone to its end.

The assumptions are those of the modules: finitely many senders, names and refreshes at once, as in the code's slices
and maps; a domain's provider is one the picker offers or none (screen_setup.go:53, config.go:185); "no entry" is
not an entry.

### Only model-checked

The liveness properties (`OperationsEnd`, `ScanTerminates`, `PhaseEnds`, `WaitEnds`, `FormWaitEnds`): fairness and
ENABLED are beyond the prover. For the first three the theorems above have the half that depends on the data: no
operation can take steps for ever. What TLC adds is the other half, that one which has not ended can always
take another step. Every invariant and action property of the passing runs is
proved, those about undo under the assumptions named above.

Two things are proved and not run. The type invariant of `Screens` is the theorem `TypesHold` of `ScreensProofs` and
not an invariant of `screens`. `RoundTrip` is an invariant of `session_move` and not of `session_copy`: `RoundTripHolds`
is for both ways of moving, and the run checks only the half that `ImplementsSoftDelete` has of it, that no message
comes back into a folder that misses none.

## 5. Not modelled

* Rendering, text input, `headers`, `keep`, `text`: pure functions over strings that change no state; their
  verdicts are constants of the modules that use them. The command line and the tools under `src/tools`.
* The text of the config file: parsing, validation, and edits that preserve comments. `Accounts` has the entries.
* The schema, migrations and the grouping queries of `store`; a sender's group is a constant of `Review`.
* The IMAP login exchange, discovery of special-use mailboxes (a lookup that may lose any of them), Gmail labels,
  several Trash mailboxes in one log. The SASL bytes, PKCE and URLs of the sign-in.
* Export, the protected list and run details: they read and show.
* A second process working on the same data directory (`EditFile` has of it only that entries change).
* More than one provider of sign-ins: `Token` has one for all accounts, so an account that is edited to
  another OAuth provider or client, and keeps the old token because the sign-in was left (backend.go:75-103), is
  outside `TokenAccepted`.
* Entries taken out of the file by hand, and more than two edits at once, are in `ScreensProofs` and not in the runs.
* What another client does between an undo's searches and its MOVE is only covered by
  `session_user`, which checks no promise about undo: the code makes none for that case. For the same
  reason `ImplementsSoftDelete` is checked without other clients, and one Message-ID in two scanned
  folders is not in the instance (undo brings both back to the first).
* A run inside `Flow`: what apply and undo do to the mailbox is `Session`'s, and a run that starts while an
  earlier, cancelled one has not ended yet is not composed with it.

## 6. Plan

Modelled and checked: `Session`, `Scan`, `Unsub`, `Flow`, `Screens`, and `SoftDelete` as what `Session` implements. Left:

1. A composition of `Scan` with `Session`: a rescan after a run and after an undo brings the database back to
   the mailbox.
2. Two runs at once (a cancelled one that has not ended, and the next) over one mailbox and database.
3. `filterProtected` and `chunkUIDs` against reference definitions.
