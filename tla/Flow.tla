-------------------------------- MODULE Flow --------------------------------
\* The session: internal/tui's flow, the screens' keys and messages, with the
\* backend it calls (tui/backend.go). Update handles one message at a time;
\* every command runs beside it. A y/n question and its answer are one key, and
\* a list that is only read and shown (accounts, a run's detail, the protected
\* senders) has no command. A command's message is handled in the step that ends
\* the command, but for the one of a prepared plan.
EXTENDS Integers, Sequences, FiniteSets

CONSTANTS
  Accounts,         \* the configured accounts: no two share host and username
  OAuth,            \* those that sign in with a browser
  First,            \* the account the command line names, or the first one
  NoAccount, NoLink, Closed,
  MaxKeys,          \* bound: keys pressed
  MaxOps,           \* bound: commands running at once
  MaxPlans          \* bound: plans written

ASSUME FlowAssumption ==
  /\ First \in Accounts /\ OAuth \subseteq Accounts
  /\ NoAccount \notin Accounts /\ {NoLink, Closed} \cap Accounts = {} /\ NoLink # Closed
  /\ MaxKeys \in Nat /\ MaxOps \in Nat \ {0} /\ MaxPlans \in Nat

VARIABLES
  screen, back,     \* the screen, and where esc returns from a side screen
  acct,             \* m.acct
  groups, review,   \* accounts whose senders m.groups and the review hold
  scan,             \* m.scan: [done, failed]
  setup,            \* m.setup: [first, busy]
  confirm, result,  \* runs on the confirm screen and in m.result
  applied,          \* m.result.Applied
  undoing,          \* side screens with an undo in flight: "results", "history"
  history,          \* m.history: [loading, runs]
  menu,             \* m.menu: [busy, rescan]
  interrupted,
  ops, current,     \* running commands, and the one opCancel stops
  bacct, cl, sacct, \* the backend's account, connection and database account
  opened,           \* the backend has its store
  prepared,         \* the plan Prepare kept, with its connection
  cred,             \* accounts with a stored credential
  plans, ran,       \* history: plans written, and those a run executed
  keys

uiVars == <<screen, back, acct, groups, review>>
screenVars == <<scan, setup, confirm, result, applied, undoing, history, menu, interrupted>>
backendVars == <<bacct, cl, sacct, opened, prepared, cred, plans, ran>>
opVars == <<ops, current>>
vars == <<uiVars, screenVars, backendVars, opVars, keys>>

Slots == 1 .. MaxOps
NoRun == 0
Nothing == [run |-> NoRun, link |-> NoLink]

\* A command: what it does, for which account, how far it is, and what it read.
Kinds == {"scan", "load", "finish", "apply", "undo", "login", "save", "runs", "maintain"}
Idle == [kind |-> "idle", of |-> NoAccount, at |-> "idle", live |-> TRUE,
         run |-> NoRun, link |-> NoLink, row |-> NoAccount]
Command(kind, of, at) == [Idle EXCEPT !.kind = kind, !.of = of, !.at = at]
Running(i) == ops[i] # Idle
Is(i, kind, at) == ops[i].kind = kind /\ ops[i].at = at

Press == screen # "quit" /\ keys < MaxKeys /\ keys' = keys + 1

-----------------------------------------------------------------------------
\* Commands: newOp and tea.Cmd.

Without(i) == [ops EXCEPT ![i] = Idle]
Free(os) == {i \in Slots : os[i] = Idle}
SlotIn(os) == CHOOSE i \in Free(os) : \A j \in Free(os) : i <= j

\* newOp: cancel the operation before, and make this one the one to stop.
\* Mutant of Launch: the operation before goes on.
LaunchBeside(os, c) ==
  /\ Free(os) # {}
  /\ ops' = [os EXCEPT ![SlotIn(os)] = c] /\ current' = SlotIn(os)
Launch(os, c) ==
  /\ Free(os) # {}
  /\ ops' = [i \in Slots |->
               IF i = SlotIn(os) THEN c
               ELSE IF i = current /\ os[i] # Idle THEN [os[i] EXCEPT !.live = FALSE]
               ELSE os[i]]
  /\ current' = SlotIn(os)

\* A command outside newOp runs on the session's context.
Aside(c) ==
  /\ Free(ops) # {}
  /\ ops' = [ops EXCEPT ![SlotIn(ops)] = c]
  /\ current' = IF current # 0 /\ ~Running(current) THEN 0 ELSE current

Ended(i) == ops' = Without(i) /\ current' = IF current = i THEN 0 ELSE current
Goes(i, c) == ops' = [ops EXCEPT ![i] = c] /\ UNCHANGED current

\* The program ends: every command dies with it.
Quit ==
  /\ screen' = "quit" /\ ops' = [i \in Slots |-> Idle] /\ current' = 0
  /\ UNCHANGED <<back, acct, groups, review, screenVars, backendVars>>

-----------------------------------------------------------------------------
\* Screens, reached by a key or by a command that ends.

\* startScan with the head of Connect: when the mailbox changes, the connection
\* is closed and the plan prepared on it is dropped.
\* Mutant of Switched: the prepared plan survives.
Switches(a) == cl # NoLink /\ bacct # a
ClosedWith(a, link) == IF Switches(a) /\ link = cl THEN Closed ELSE link
SwitchedOnlyConnection(a) ==
  /\ cl' = IF Switches(a) THEN NoLink ELSE cl
  /\ prepared' = [prepared EXCEPT !.link = ClosedWith(a, @)]
Switched(a) ==
  /\ cl' = IF Switches(a) THEN NoLink ELSE cl
  /\ prepared' = IF Switches(a) THEN Nothing ELSE prepared
CloseLinks(a, os) == [i \in Slots |-> [os[i] EXCEPT !.link = ClosedWith(a, @)]]
BeginScan(a, os) ==
  /\ screen' = "scan" /\ scan' = [done |-> FALSE, failed |-> FALSE]
  /\ interrupted' = FALSE
  /\ Switched(a) /\ bacct' = a
  /\ Launch(CloseLinks(a, os), Command("scan", a, "secret"))
  /\ UNCHANGED <<sacct, opened, plans, ran>>

\* returnTarget, openAccounts, openHistory, openMenu, openSetup.
ReturnTarget == IF screen \in {"review", "results"} THEN screen ELSE back
CanReturn == (back = "review" /\ groups # NoAccount) \/ (back = "results" /\ applied)
OpenAccounts == screen' = "accounts" /\ back' = ReturnTarget
OpenSetup(first) == screen' = "setup" /\ setup' = [first |-> first, busy |-> "no"]

\* returnBack: esc on a side screen.
ReturnBack ==
  \/ /\ CanReturn /\ screen' = back
     /\ UNCHANGED <<back, acct, groups, review, screenVars, backendVars, opVars>>
  \/ ~CanReturn /\ Quit

-----------------------------------------------------------------------------
\* Keys.

\* useAccount.
UseAccount(a) ==
  /\ screen = "accounts" /\ Press
  /\ acct' = a /\ groups' = NoAccount
  /\ \/ /\ a \in cred /\ BeginScan(a, ops) /\ UNCHANGED <<setup, cred>>
     \/ /\ a \notin cred /\ OpenSetup(FALSE)
        /\ UNCHANGED <<scan, interrupted, backendVars, opVars>>
  /\ UNCHANGED <<back, review, confirm, result, applied, undoing, history, menu>>

EditAccount(a) ==
  /\ screen = "accounts" /\ Press
  /\ acct' = a /\ OpenSetup(FALSE)
  /\ UNCHANGED <<back, groups, review, scan, confirm, result, applied, undoing, history,
                 menu, interrupted, backendVars, opVars>>

\* The form: what it holds is Form's; a second enter waits for the first save.
SubmitSetup ==
  /\ screen = "setup" /\ setup.busy = "no" /\ Press
  /\ setup' = [setup EXCEPT !.busy = "saving"]
  /\ Aside(Command("save", acct, "save"))
  /\ UNCHANGED <<uiVars, scan, confirm, result, applied, undoing, history, menu,
                 interrupted, backendVars>>
LeaveSetup ==
  /\ screen = "setup" /\ setup.busy # "signin" /\ Press
  /\ \/ setup.first /\ Quit
     \/ /\ ~setup.first /\ OpenAccounts
        /\ UNCHANGED <<acct, groups, review, screenVars, backendVars, opVars>>

\* scanKey on a scan that failed: r, s.
RetryScan ==
  /\ screen = "scan" /\ scan.failed /\ Press
  /\ BeginScan(acct, ops)
  /\ UNCHANGED <<back, acct, groups, review, setup, confirm, result, applied, undoing,
                 history, menu, cred>>
ScanToSetup ==
  /\ screen = "scan" /\ scan.failed /\ Press
  /\ OpenSetup(TRUE)
  /\ UNCHANGED <<back, acct, groups, review, scan, confirm, result, applied, undoing,
                 history, menu, interrupted, backendVars, opVars>>

\* Review: w goes on to the plan, and can be pressed again while it is written.
WritePlan ==
  /\ screen = "review" /\ Press
  /\ Launch(ops, Command("finish", NoAccount, "write"))
  /\ UNCHANGED <<uiVars, screenVars, backendVars>>
\* finishReview without decisions: the new protections are stored, then it quits.
LeaveReview ==
  /\ screen = "review" /\ Press
  /\ Launch(ops, Command("finish", NoAccount, "leave"))
  /\ UNCHANGED <<uiVars, screenVars, backendVars>>
ShowAccounts ==
  /\ screen = "review" /\ Press /\ OpenAccounts
  /\ UNCHANGED <<acct, groups, review, screenVars, backendVars, opVars>>
ShowHistory ==
  /\ screen = "review" \/ (screen = "results" /\ "results" \notin undoing)
  /\ Press
  /\ screen' = "history" /\ back' = ReturnTarget
  /\ history' = [loading |-> TRUE, runs |-> {}] /\ undoing' = undoing \ {"history"}
  /\ Aside(Command("runs", acct, "read"))
  /\ UNCHANGED <<acct, groups, review, scan, setup, confirm, result, applied, menu,
                 interrupted, backendVars>>
ShowMenu ==
  /\ screen = "review" /\ Press
  /\ screen' = "menu" /\ back' = ReturnTarget
  /\ menu' = [busy |-> FALSE, rescan |-> FALSE]
  /\ UNCHANGED <<acct, groups, review, scan, setup, confirm, result, applied, undoing,
                 history, interrupted, backendVars, opVars>>

\* confirmKey: enter runs what Prepare kept last.
Apply ==
  /\ screen = "confirm" /\ Press
  /\ screen' = "apply" /\ interrupted' = FALSE
  /\ Launch(ops, [Command("apply", NoAccount, "run") EXCEPT !.run = prepared.run, !.link = prepared.link])
  /\ ran' = ran \cup ({prepared.run} \ {NoRun})
  /\ UNCHANGED <<back, acct, groups, review, scan, setup, confirm, result, applied, undoing,
                 history, menu, bacct, cl, sacct, opened, prepared, cred, plans>>
BackToReview ==
  /\ screen = "confirm" /\ Press
  /\ screen' = "review"
  /\ UNCHANGED <<back, acct, groups, review, screenVars, backendVars, opVars>>

\* resultsKey.
UndoResult ==
  /\ screen = "results" /\ "results" \notin undoing /\ Press
  /\ undoing' = undoing \cup {"results"} /\ interrupted' = FALSE
  /\ Launch(ops, [Command("undo", NoAccount, "run") EXCEPT !.run = result])
  /\ UNCHANGED <<uiVars, scan, setup, confirm, result, applied, history, menu, backendVars>>
AnotherRound ==
  /\ screen = "results" /\ "results" \notin undoing /\ Press
  /\ Launch(ops, Command("load", NoAccount, "read"))
  /\ UNCHANGED <<uiVars, screenVars, backendVars>>

\* historyKey.
HistoryReady == screen = "history" /\ "history" \notin undoing /\ ~history.loading
UndoRun(r) ==
  /\ HistoryReady /\ r \in history.runs /\ Press
  /\ undoing' = undoing \cup {"history"} /\ interrupted' = FALSE
  /\ Launch(ops, [Command("undo", NoAccount, "run") EXCEPT !.run = r])
  /\ UNCHANGED <<uiVars, scan, setup, confirm, result, applied, history, menu, backendVars>>

\* menuKey: purge or rescan, then the question whether to scan again.
Maintain ==
  /\ screen = "menu" /\ ~menu.busy /\ ~menu.rescan /\ Press
  /\ menu' = [menu EXCEPT !.busy = TRUE]
  /\ Aside(Command("maintain", NoAccount, "run"))
  /\ UNCHANGED <<uiVars, scan, setup, confirm, result, applied, undoing, history,
                 interrupted, backendVars>>
Rescan(yes) ==
  /\ screen = "menu" /\ menu.rescan /\ Press
  /\ menu' = [menu EXCEPT !.rescan = FALSE]
  /\ \/ yes /\ BeginScan(acct, ops) /\ UNCHANGED cred
     \/ ~yes /\ UNCHANGED <<screen, scan, interrupted, backendVars, opVars>>
  /\ UNCHANGED <<back, acct, groups, review, setup, confirm, result, applied, undoing, history>>

LeaveSide ==
  /\ \/ screen = "accounts"
     \/ HistoryReady
     \/ screen = "menu" /\ ~menu.busy /\ ~menu.rescan
  /\ Press /\ ReturnBack

\* q, where it does not ask interrupt.
QuitKey ==
  /\ \/ screen \in {"accounts", "confirm"}
     \/ screen = "scan" /\ scan.failed
     \/ screen = "results" /\ "results" \notin undoing
     \/ HistoryReady
     \/ screen = "menu" /\ ~menu.busy /\ ~menu.rescan
  /\ Press /\ Quit

\* interrupt: ctrl+c, c while signing in, q while scanning.
Busy ==
  \/ screen = "setup" /\ setup.busy = "signin"
  \/ screen = "scan" /\ ~scan.done
  \/ screen = "apply"
  \/ undoing # {}
Interrupt ==
  /\ Press
  /\ \/ /\ Busy /\ ~interrupted
        /\ interrupted' = TRUE
        /\ ops' = [i \in Slots |-> IF i = current /\ Running(i)
                                   THEN [ops[i] EXCEPT !.live = FALSE] ELSE ops[i]]
        /\ UNCHANGED <<uiVars, scan, setup, confirm, result, applied, undoing, history, menu,
                       backendVars, current>>
     \/ ~(Busy /\ ~interrupted) /\ Quit

Key ==
  \/ \E a \in Accounts : UseAccount(a) \/ EditAccount(a)
  \/ SubmitSetup \/ LeaveSetup \/ RetryScan \/ ScanToSetup
  \/ WritePlan \/ LeaveReview \/ ShowAccounts \/ ShowHistory \/ ShowMenu
  \/ Apply \/ BackToReview \/ UndoResult \/ AnotherRound
  \/ \E r \in ran : UndoRun(r)
  \/ Maintain \/ (\E yes \in BOOLEAN : Rescan(yes)) \/ LeaveSide \/ QuitKey
  \/ Interrupt

-----------------------------------------------------------------------------
\* Connect and Scan.

\* onScanDone: a cancelled scan counts as one that stopped, and the senders are
\* loaded all the same.
\* Mutant of ScanStopped: a cancelled scan is reported on no screen.
ScanForgotten(i) ==
  /\ Ended(i)
  /\ UNCHANGED <<uiVars, screenVars, backendVars>>
ScanStopped(i) ==
  /\ scan' = [scan EXCEPT !.done = TRUE]
  /\ Launch(Without(i), Command("load", NoAccount, "read"))
  /\ UNCHANGED <<uiVars, setup, confirm, result, applied, undoing, history, menu,
                 interrupted, backendVars>>
ScanFailed(i) ==
  /\ scan' = [done |-> TRUE, failed |-> TRUE]
  /\ Ended(i)
  /\ UNCHANGED <<uiVars, setup, confirm, result, applied, undoing, history, menu,
                 interrupted, backendVars>>

\* resolveSecret and openStore; a connection that is there is used as it is.
Resolve(i) ==
  /\ Is(i, "scan", "secret")
  /\ \/ /\ ops[i].of \in cred /\ (ops[i].live \/ ops[i].of \notin OAuth)
        /\ opened' = TRUE
        /\ Goes(i, [ops[i] EXCEPT !.at = IF cl = NoLink THEN "dial" ELSE "upsert"])
        /\ UNCHANGED <<uiVars, screenVars, bacct, cl, sacct, prepared, cred, plans, ran>>
     \/ ScanFailed(i)
     \/ ~ops[i].live /\ ScanStopped(i)
\* The dial does not look at the context once it has begun.
Dial(i) ==
  /\ Is(i, "scan", "dial")
  /\ \/ /\ cl' = ops[i].of /\ Goes(i, [ops[i] EXCEPT !.at = "upsert"])
        /\ UNCHANGED <<uiVars, screenVars, bacct, sacct, opened, prepared, cred, plans, ran>>
     \/ ScanFailed(i)
     \/ ~ops[i].live /\ ScanStopped(i)
\* UpsertAccount, and the arguments of scan.Run.
Upsert(i) ==
  /\ Is(i, "scan", "upsert")
  /\ \/ /\ ops[i].live /\ sacct' = ops[i].of
        /\ Goes(i, [ops[i] EXCEPT !.at = "run", !.link = cl, !.row = ops[i].of])
        /\ UNCHANGED <<uiVars, screenVars, bacct, cl, opened, prepared, cred, plans, ran>>
     \/ ops[i].live /\ ScanFailed(i)
     \/ ~ops[i].live /\ ScanStopped(i)
ScanEnds(i) ==
  /\ Is(i, "scan", "run")
  /\ ScanStopped(i) \/ ScanFailed(i)

\* Load, and onLoaded: a database row that was never connected has no senders,
\* and a store that was never opened ends the program.
\* Mutant of Loaded: senders are not asked for.
LoadedEmpty(i) == ops[i].live
Loaded(i) == ops[i].live /\ sacct # NoAccount
LoadFails(i) ==
  /\ scan' = [scan EXCEPT !.failed = TRUE] /\ screen' = "scan"
  /\ Ended(i)
  /\ UNCHANGED <<back, acct, groups, review, setup, confirm, result, applied, undoing, history,
                 menu, interrupted, backendVars>>
LoadEnds(i) ==
  /\ Is(i, "load", "read")
  /\ \/ ~opened /\ Quit
     \/ opened /\ LoadFails(i)
     \/ /\ opened /\ Loaded(i)
        /\ groups' = sacct /\ review' = sacct /\ screen' = "review"
        /\ Ended(i)
        /\ UNCHANGED <<back, acct, screenVars, backendVars>>

-----------------------------------------------------------------------------
\* WritePlan and Prepare, Execute, Undo.

\* onPrepared with an error.
PrepareFails(i) ==
  /\ screen' = "review"
  /\ Ended(i)
  /\ UNCHANGED <<back, acct, groups, review, screenVars, backendVars>>

\* RecordDecisions in sacct's rows, and a plan that names bacct.
NewPlan == [names |-> bacct, rows |-> sacct]
Write(i) ==
  /\ Is(i, "finish", "write")
  /\ \/ /\ ops[i].live /\ sacct # NoAccount /\ Len(plans) < MaxPlans
        /\ plans' = Append(plans, NewPlan)
        /\ Goes(i, [ops[i] EXCEPT !.at = "prepare", !.run = Len(plans) + 1, !.link = cl])
        /\ UNCHANGED <<uiVars, screenVars, bacct, cl, sacct, opened, prepared, cred, ran>>
     \/ PrepareFails(i)
LeaveEnds(i) ==
  /\ Is(i, "finish", "leave")
  /\ Quit \/ PrepareFails(i)

\* apply.Prepare reads the database under the context, up to its last read.
Prepare(i) ==
  /\ Is(i, "finish", "prepare")
  /\ \/ /\ ops[i].live /\ Goes(i, [ops[i] EXCEPT !.at = "store"])
        /\ UNCHANGED <<uiVars, screenVars, backendVars>>
     \/ PrepareFails(i)
\* What it made of that is stored, whatever happened to the command since.
Store(i) ==
  /\ Is(i, "finish", "store")
  /\ prepared' = [run |-> ops[i].run, link |-> ops[i].link]
  /\ Goes(i, [ops[i] EXCEPT !.at = "prepared"])
  /\ UNCHANGED <<uiVars, screenVars, bacct, cl, sacct, opened, cred, plans, ran>>
\* preparedMsg in the queue, and onPrepared.
PrepareEnds(i) ==
  /\ Is(i, "finish", "prepared")
  /\ confirm' = ops[i].run /\ result' = ops[i].run /\ screen' = "confirm"
  /\ Ended(i)
  /\ UNCHANGED <<back, acct, groups, review, scan, setup, applied, undoing, history, menu,
                 interrupted, backendVars>>

\* Execute and onApplyDone: done, failed and cancelled all end on the results.
ApplyEnds(i) ==
  /\ Is(i, "apply", "run")
  /\ screen' = "results" /\ applied' = TRUE /\ result' = ops[i].run
  /\ undoing' = undoing \ {"results"}
  /\ Ended(i)
  /\ UNCHANGED <<back, acct, groups, review, scan, setup, confirm, history, menu,
                 interrupted, backendVars>>

UndoEnds(i) ==
  /\ Is(i, "undo", "run")
  /\ undoing' = {}
  /\ Ended(i)
  /\ UNCHANGED <<uiVars, scan, setup, confirm, result, applied, history, menu,
                 interrupted, backendVars>>

-----------------------------------------------------------------------------
\* The form's commands, the history and the maintenance actions.

\* afterSetup: on to the scan on a fresh install, else back to the accounts.
AfterSetup(i, a) ==
  \/ /\ setup.first /\ BeginScan(a, Without(i)) /\ UNCHANGED back
  \/ /\ ~setup.first /\ OpenAccounts /\ Ended(i)
     /\ UNCHANGED <<scan, interrupted, bacct, cl, sacct, opened, prepared, plans, ran>>

\* SaveSetup and onSetupSaved: an OAuth account signs in next.
SaveEnds(i) ==
  /\ Is(i, "save", "save")
  /\ \/ /\ setup' = [setup EXCEPT !.busy = "no"]
        /\ Ended(i)
        /\ UNCHANGED <<screen, back, acct, scan, interrupted, backendVars>>
     \/ /\ ops[i].of \notin OAuth
        /\ acct' = ops[i].of /\ cred' = cred \cup {ops[i].of}
        /\ AfterSetup(i, ops[i].of) /\ UNCHANGED setup
     \/ /\ ops[i].of \in OAuth
        /\ acct' = ops[i].of
        /\ setup' = [setup EXCEPT !.busy = "signin"] /\ interrupted' = FALSE
        /\ Launch(Without(i), Command("login", ops[i].of, "browser"))
        /\ UNCHANGED <<screen, back, scan, backendVars>>
  /\ UNCHANGED <<groups, review, confirm, result, applied, undoing, history, menu>>

\* OAuthLogin and onOAuthDone: the browser, the timeout or ctrl+c.
LoginEnds(i) ==
  /\ Is(i, "login", "browser")
  /\ \/ /\ setup' = [setup EXCEPT !.busy = "no"] /\ interrupted' = FALSE
        /\ Ended(i)
        /\ UNCHANGED <<screen, back, scan, backendVars>>
     \/ /\ cred' = cred \cup {ops[i].of}
        /\ setup' = [setup EXCEPT !.busy = "no"] /\ AfterSetup(i, acct)
  /\ UNCHANGED <<acct, groups, review, confirm, result, applied, undoing, history, menu>>

\* onRunsLoaded, onMaintenanceDone. The database lists the account's own runs.
RunsEnd(i) ==
  /\ Is(i, "runs", "read")
  /\ \/ history' = [loading |-> FALSE, runs |-> {r \in ran : plans[r].rows = ops[i].of}]
     \/ history' = [history EXCEPT !.loading = FALSE]
  /\ Ended(i)
  /\ UNCHANGED <<uiVars, scan, setup, confirm, result, applied, undoing, menu, interrupted,
                 backendVars>>
MaintainEnds(i) ==
  /\ Is(i, "maintain", "run")
  /\ \E ok \in BOOLEAN : menu' = [busy |-> FALSE, rescan |-> ok \/ menu.rescan]
  /\ Ended(i)
  /\ UNCHANGED <<uiVars, scan, setup, confirm, result, applied, undoing, history,
                 interrupted, backendVars>>

Step(i) ==
  /\ \/ Resolve(i) \/ Dial(i) \/ Upsert(i) \/ ScanEnds(i) \/ LoadEnds(i)
     \/ Write(i) \/ LeaveEnds(i) \/ Prepare(i) \/ Store(i) \/ PrepareEnds(i)
     \/ ApplyEnds(i) \/ UndoEnds(i)
     \/ SaveEnds(i) \/ LoginEnds(i) \/ RunsEnd(i) \/ MaintainEnds(i)
  /\ UNCHANGED keys

\* beginScanMsg: the scan a session with a named account opens on.
BeginFirst ==
  /\ screen = "scan" /\ bacct = NoAccount
  /\ BeginScan(acct, ops)
  /\ UNCHANGED <<back, acct, groups, review, setup, confirm, result, applied, undoing,
                 history, menu, cred, keys>>

Over == screen = "quit" \/ (keys = MaxKeys /\ \A i \in Slots : ~Running(i))
Finished == Over /\ UNCHANGED vars

\* newFlowModel and needsSetup: the accounts, the scan of a named account, or
\* the form when that account, or every account, has no credential.
Landings(stored) ==
  (IF stored = {} THEN {} ELSE {"accounts"})
    \cup (IF First \in stored THEN {"scan"} ELSE {"setup"})

Init ==
  /\ cred \in SUBSET Accounts /\ screen \in Landings(cred)
  /\ back = "accounts" /\ acct = First
  /\ groups = NoAccount /\ review = NoAccount
  /\ scan = [done |-> FALSE, failed |-> FALSE]
  /\ setup = [first |-> screen = "setup", busy |-> "no"]
  /\ confirm = NoRun /\ result = NoRun /\ applied = FALSE /\ undoing = {}
  /\ history = [loading |-> FALSE, runs |-> {}] /\ menu = [busy |-> FALSE, rescan |-> FALSE]
  /\ interrupted = FALSE
  /\ ops = [i \in Slots |-> Idle] /\ current = 0
  /\ bacct = NoAccount /\ cl = NoLink /\ sacct = NoAccount /\ prepared = Nothing
  /\ opened = (screen = "accounts")
  /\ plans = << >> /\ ran = {} /\ keys = 0

Next == Key \/ (\E i \in Slots : Step(i)) \/ BeginFirst \/ Finished

\* Every command goes on and ends: servers answer, and the sign-in has a timeout.
Fairness == (\A i \in Slots : WF_vars(Step(i))) /\ WF_vars(BeginFirst)
Spec == Init /\ [][Next]_vars
FairSpec == Spec /\ Fairness

-----------------------------------------------------------------------------
\* Properties.

\* What newOp starts. Purging and forgetting the cursors ("maintain") write the
\* database outside it.
Cancellable == {"scan", "load", "finish", "apply", "undo", "login"}
Live(i) == Running(i) /\ ops[i].live

TypeOK ==
  /\ screen \in {"setup", "scan", "review", "confirm", "apply", "results", "accounts",
                 "history", "menu", "quit"}
  /\ back \in {"accounts", "review", "results"}
  /\ acct \in Accounts /\ {groups, review, bacct, sacct} \subseteq Accounts \cup {NoAccount}
  /\ cl \in Accounts \cup {NoLink} /\ cred \subseteq Accounts
  /\ current \in {0} \cup Slots
  /\ \A i \in Slots : Running(i) => ops[i].kind \in Kinds
  /\ {confirm, result, prepared.run} \subseteq 0 .. Len(plans) /\ ran \subseteq 1 .. Len(plans)
  /\ screen = "review" => review # NoAccount

\* Of the operations newOp starts, at most one has not been told to stop, and it
\* is the one ctrl+c stops (newOp, interrupt). Maintenance is not one of them.
OneThingToStop == \A i \in Slots : Live(i) /\ ops[i].kind \in Cancellable => i = current

\* A switch to another mailbox takes the plan prepared on the connection it
\* closes with it: a plan with a closed connection comes only from a Prepare that
\* was told to stop after its last read (LiveBackend.Connect, Prepare).
StoredStopped ==
  \E i \in Slots : Is(i, "finish", "store") /\ ~ops[i].live /\ ops'[i].at = "prepared"
SwitchDropsPlan ==
  [][prepared'.link = Closed => prepared.link = Closed \/ StoredStopped]_<<prepared, ops>>

\* A screen that only waits for a command is left, or shows the error: no
\* message of an earlier, cancelled command leaves it without one to wait for.
Waits ==
  \/ screen = "scan" /\ ~scan.failed
  \/ screen = "apply"
  \/ screen = "setup" /\ setup.busy # "no"
  \/ screen = "results" /\ "results" \in undoing
  \/ screen = "history" /\ ("history" \in undoing \/ history.loading)
  \/ screen = "menu" /\ menu.busy
WaitEnds == Waits ~> ~Waits

\* What the comment in Connect says: switching accounts never reuses the
\* previous mailbox's connection, so a scan writes an account's rows from that
\* account's own mailbox.
OwnConnection ==
  \A i \in Slots : Is(i, "scan", "run") => ops[i].link \in {ops[i].row, Closed}

\* What the same comment says of the prepared plan: after a switch none is left
\* that holds the previous mailbox's connection.
PlanConnectionOpen == prepared.link # Closed

\* What the comment of newOp says: whatever was running is cancelled, so that one
\* thing at a time works on the mailbox and the database.
WorkAlone ==
  \A i, j \in Slots :
    Live(i) /\ Live(j) /\ {ops[i].kind, ops[j].kind} \subseteq Cancellable \cup {"maintain"} => i = j

\* What the design says of the confirmation screen: it shows exactly what is about
\* to happen, so that enter runs the plan it shows, or none.
ShownIsRun == screen = "confirm" => prepared.run \in {confirm, NoRun}

-----------------------------------------------------------------------------
\* The inductive invariant behind TypeOK, OneThingToStop and SwitchDropsPlan.

Places == {"idle", "secret", "dial", "upsert", "run", "read", "write", "leave",
           "prepare", "store", "prepared", "browser", "save"}
Op(n) == [kind : Kinds \cup {"idle"}, of : Accounts \cup {NoAccount}, at : Places, live : BOOLEAN,
          run : 0 .. n, link : Accounts \cup {NoLink, Closed}, row : Accounts \cup {NoAccount}]

\* A command knows its account, and a review it finishes has senders. A
\* connection is closed under a plan's feet only after its command was told to
\* stop.
Sound(c, reviewed) ==
  /\ c.kind = "idle" => c = Idle
  /\ c.kind \in {"scan", "save", "login"} => c.of \in Accounts
  /\ c.kind = "finish" => reviewed # NoAccount /\ (c.live => c.link # Closed)

Stoppable(c) == c.kind \in Cancellable /\ c.live
OpsInv(os, cur, n, reviewed) ==
  /\ os \in [Slots -> Op(n)] /\ cur \in {0} \cup Slots
  /\ \A i \in Slots : Sound(os[i], reviewed)
  /\ \A i \in Slots : Stoppable(os[i]) => i = cur

BackendInv ==
  /\ plans \in Seq([names : Accounts \cup {NoAccount}, rows : Accounts \cup {NoAccount}])
  /\ prepared \in [run : 0 .. Len(plans), link : Accounts \cup {NoLink, Closed}]

\* Every way to the review leads past a load of an account's senders.
ReviewInv == screen \in {"review", "confirm"} \/ groups # NoAccount => review # NoAccount

FlowInv ==
  TypeOK /\ OpsInv(ops, current, Len(plans), review) /\ BackendInv /\ ReviewInv
=============================================================================
