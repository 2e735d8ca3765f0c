----------------------------- MODULE FlowProofs -----------------------------
\* Theorems about Flow: the types, that ctrl+c has one command to stop, and that
\* the plan that can be executed never holds a closed connection. All rest on
\* FlowInv.
EXTENDS Flow, NaturalsInduction, WellFoundedInduction, TLAPS

-----------------------------------------------------------------------------
\* The slots of the commands.

\* A set of slots has a smallest one.
LEMMA LeastSlot ==
  ASSUME NEW S \in SUBSET Nat, S # {}
  PROVE  \E i \in S : \A j \in S : i <= j
<1> DEFINE R == OpToRel(<, Nat)
<1>1. IsWellFoundedOn(R, Nat)
  BY NatLessThanWellFounded
<1>2. PICK i \in S : \A j \in S : ~(<<j, i>> \in R)
  <2> HIDE DEF R
  <2> QED BY <1>1, WFMin
<1>3. \A j \in S : ~(j < i)
  BY <1>2 DEF OpToRel
<1> QED BY <1>3

LEMMA SlotInFree ==
  ASSUME NEW os, Free(os) # {}
  PROVE  SlotIn(os) \in Slots /\ os[SlotIn(os)] = Idle
<1>1. Free(os) \in SUBSET Nat
  BY FlowAssumption DEF Free, Slots
<1>2. \E i \in Free(os) : \A j \in Free(os) : i <= j
  BY <1>1, LeastSlot
<1>3. SlotIn(os) \in Free(os)
  BY <1>2 DEF SlotIn
<1> QED BY <1>3 DEF Free

\* No slot is number zero, and an idle command is well formed.
LEMMA ZeroIsNoSlot == 0 \notin Slots
BY FlowAssumption DEF Slots

LEMMA IdleSound ==
  ASSUME NEW n \in Nat, NEW reviewed
  PROVE  Idle \in Op(n) /\ Sound(Idle, reviewed) /\ ~Stoppable(Idle)
BY DEF Idle, NoRun, Op, Sound, Stoppable, Cancellable, Places

\* A fresh command.
LEMMA CommandTyped ==
  ASSUME NEW n \in Nat, NEW kind \in Kinds, NEW of \in Accounts \cup {NoAccount},
         NEW at \in Places
  PROVE  /\ Command(kind, of, at) \in Op(n)
         /\ Command(kind, of, at).kind = kind /\ Command(kind, of, at).of = of
         /\ Command(kind, of, at).link = NoLink
<1> DEFINE c == [Idle EXCEPT !.kind = kind, !.of = of, !.at = at]
<1>1. Idle \in Op(n)
  BY IdleSound
<1>2. c \in Op(n) /\ c.kind = kind /\ c.of = of /\ c.link = Idle.link
  BY <1>1 DEF Op
<1>3. Idle.link = NoLink
  BY DEF Idle
<1>4. c = Command(kind, of, at)
  BY DEF Command
<1> HIDE DEF c
<1> QED BY <1>2, <1>3, <1>4

LEMMA CommandSound ==
  ASSUME NEW kind \in Kinds, NEW of \in Accounts \cup {NoAccount}, NEW at \in Places,
         NEW reviewed,
         kind \in {"scan", "save", "login"} => of \in Accounts,
         kind = "finish" => reviewed # NoAccount
  PROVE  Sound(Command(kind, of, at), reviewed)
<1>1. kind # "idle" /\ NoLink # Closed
  BY FlowAssumption DEF Kinds
<1>2. 0 \in Nat
  OBVIOUS
<1> QED BY <1>1, <1>2, CommandTyped DEF Sound

-----------------------------------------------------------------------------
\* What each way of changing the commands does to OpsInv.

\* A command that was told to stop is as well formed as before, and one whose
\* links are closed too, once it does not go on.
LEMMA StoppedSound ==
  ASSUME NEW n \in Nat, NEW c \in Op(n), NEW reviewed, Sound(c, reviewed), c # Idle
  PROVE  LET d == [c EXCEPT !.live = FALSE]
         IN  d \in Op(n) /\ Sound(d, reviewed) /\ ~Stoppable(d)
BY DEF Op, Sound, Stoppable

LEMMA LaunchInv ==
  ASSUME NEW n \in Nat, NEW reviewed, NEW os, OpsInv(os, current, n, reviewed),
         NEW c \in Op(n), Sound(c, reviewed), Launch(os, c)
  PROVE  OpsInv(ops', current', n, reviewed)
<1> DEFINE s == SlotIn(os)
<1>1. s \in Slots /\ os[s] = Idle /\ current' = s
  BY SlotInFree DEF Launch
<1>2. ASSUME NEW i \in Slots
      PROVE  ops'[i] \in Op(n) /\ Sound(ops'[i], reviewed) /\ (Stoppable(ops'[i]) => i = s)
  <2>1. os[i] \in Op(n) /\ Sound(os[i], reviewed) /\ (Stoppable(os[i]) => i = current)
    BY DEF OpsInv
  <2>2. CASE i = s
    BY <2>2 DEF Launch
  <2>3. CASE i # s /\ i = current /\ os[i] # Idle
    <3>1. ops'[i] = [os[i] EXCEPT !.live = FALSE]
      BY <2>3 DEF Launch
    <3> QED BY <2>1, <2>3, <3>1, StoppedSound
  <2>4. CASE i # s /\ ~(i = current /\ os[i] # Idle)
    <3>1. ops'[i] = os[i]
      BY <2>4 DEF Launch
    <3>2. ~Stoppable(os[i])
      BY <2>1, <2>4, IdleSound
    <3> QED BY <2>1, <3>1, <3>2
  <2> QED BY <2>2, <2>3, <2>4
<1>3. ops' = [i \in Slots |-> ops'[i]]
  BY DEF Launch
<1> QED BY <1>1, <1>2, <1>3 DEF OpsInv

LEMMA AsideInv ==
  ASSUME NEW n \in Nat, NEW reviewed, OpsInv(ops, current, n, reviewed),
         NEW c \in Op(n), Sound(c, reviewed), ~Stoppable(c), Aside(c)
  PROVE  OpsInv(ops', current', n, reviewed)
<1> DEFINE s == SlotIn(ops)
<1>1. s \in Slots /\ ops[s] = Idle /\ ops' = [ops EXCEPT ![s] = c]
  BY SlotInFree DEF Aside
<1>2. current' \in {0} \cup Slots
  BY DEF Aside, OpsInv
<1>3. ASSUME NEW i \in Slots, Stoppable(ops'[i]) PROVE i = current'
  <2>1. i # s /\ ops'[i] = ops[i]
    BY <1>1, <1>3 DEF OpsInv
  <2>2. i = current /\ ops[i] # Idle
    BY <1>3, <2>1, IdleSound DEF OpsInv
  <2> QED BY <2>2 DEF Aside, Running
<1> QED BY <1>1, <1>2, <1>3 DEF OpsInv

\* A command that goes on stays stoppable only where it was.
LEMMA GoesInv ==
  ASSUME NEW n \in Nat, NEW reviewed, OpsInv(ops, current, n, reviewed), NEW i \in Slots,
         NEW c \in Op(n), Sound(c, reviewed), Stoppable(c) => Stoppable(ops[i]), Goes(i, c)
  PROVE  OpsInv(ops', current', n, reviewed)
<1>1. ops' = [ops EXCEPT ![i] = c] /\ current' = current
  BY DEF Goes
<1> QED BY <1>1 DEF OpsInv

LEMMA WithoutInv ==
  ASSUME NEW n \in Nat, NEW reviewed, OpsInv(ops, current, n, reviewed), NEW i \in Slots
  PROVE  OpsInv(Without(i), current, n, reviewed)
<1>1. Idle \in Op(n) /\ Sound(Idle, reviewed) /\ ~Stoppable(Idle)
  BY IdleSound
<1> QED BY <1>1 DEF OpsInv, Without

LEMMA EndedInv ==
  ASSUME NEW n \in Nat, NEW reviewed, OpsInv(ops, current, n, reviewed), NEW i \in Slots,
         Ended(i)
  PROVE  OpsInv(ops', current', n, reviewed)
<1>1. OpsInv(Without(i), current, n, reviewed) /\ ops' = Without(i)
  BY WithoutInv DEF Ended
<1>2. ~Stoppable(Without(i)[i])
  BY IdleSound DEF Without, OpsInv
<1>3. current' \in {0} \cup Slots /\ (current # i => current' = current)
  BY <1>1 DEF Ended, OpsInv
<1> QED BY <1>1, <1>2, <1>3 DEF OpsInv

LEMMA QuitInv ==
  ASSUME NEW n \in Nat, NEW reviewed, Quit
  PROVE  OpsInv(ops', current', n, reviewed)
<1>1. Idle \in Op(n) /\ Sound(Idle, reviewed) /\ ~Stoppable(Idle)
  BY IdleSound
<1> QED BY <1>1 DEF Quit, OpsInv

\* A scan that begins stops the one command that may hold the connection it
\* closes.
LEMMA BeginScanInv ==
  ASSUME NEW n \in Nat, NEW reviewed, NEW os, OpsInv(os, current, n, reviewed),
         NEW a \in Accounts, BeginScan(a, os), cl \in Accounts \cup {NoLink}
  PROVE  OpsInv(ops', current', n, reviewed)
<1> DEFINE c == Command("scan", a, "secret")
           cs == CloseLinks(a, os)
           s == SlotIn(cs)
<1>1. c \in Op(n) /\ Sound(c, reviewed)
  <2>1. "scan" \in Kinds /\ "secret" \in Places /\ a \in Accounts \cup {NoAccount}
    BY DEF Kinds, Places
  <2> QED BY <2>1, CommandTyped, CommandSound
<1>2. Launch(cs, c)
  BY DEF BeginScan
<1>3. s \in Slots /\ cs[s] = Idle /\ current' = s
  BY <1>2, SlotInFree DEF Launch
<1>4. ASSUME NEW i \in Slots
      PROVE  /\ cs[i] \in Op(n) /\ (cs[i].kind = "idle" => cs[i] = Idle)
             /\ cs[i].kind \in {"scan", "save", "login"} => cs[i].of \in Accounts
             /\ cs[i].kind = "finish" => reviewed # NoAccount
             /\ Stoppable(cs[i]) => i = current /\ cs[i] # Idle
  <2>1. os[i] \in Op(n) /\ Sound(os[i], reviewed) /\ (Stoppable(os[i]) => i = current)
    BY DEF OpsInv
  <2>2. cs[i] = [os[i] EXCEPT !.link = ClosedWith(a, os[i].link)]
    BY DEF CloseLinks
  <2>3. ClosedWith(a, os[i].link) \in Accounts \cup {NoLink, Closed}
    BY <2>1 DEF ClosedWith, Op
  <2>4. cs[i] \in Op(n) /\ cs[i].kind = os[i].kind /\ cs[i].of = os[i].of /\ cs[i].live = os[i].live
    BY <2>1, <2>2, <2>3 DEF Op
  <2>5. os[i] = Idle => cs[i] = Idle
    <3>1. ClosedWith(a, NoLink) = NoLink
      BY DEF ClosedWith, Switches
    <3>2. Idle \in Op(n) /\ Idle.link = NoLink
      BY IdleSound DEF Idle
    <3>3. [Idle EXCEPT !.link = NoLink] = Idle
      BY <3>2 DEF Op
    <3> QED BY <2>2, <3>1, <3>2, <3>3
  <2>6. Stoppable(cs[i]) => cs[i] # Idle
    BY IdleSound
  <2> QED BY <2>1, <2>4, <2>5, <2>6 DEF Sound, Stoppable
<1>5. ASSUME NEW i \in Slots
      PROVE  ops'[i] \in Op(n) /\ Sound(ops'[i], reviewed) /\ (Stoppable(ops'[i]) => i = s)
  <2>1. CASE i = s
    BY <1>1, <1>2, <2>1 DEF Launch
  <2>2. CASE i # s /\ i = current /\ cs[i] # Idle
    <3>1. ops'[i] = [cs[i] EXCEPT !.live = FALSE]
      BY <1>2, <2>2 DEF Launch
    <3> HIDE DEF cs
    <3> QED BY <1>4, <2>2, <3>1 DEF Op, Sound, Stoppable
  <2>3. CASE i # s /\ ~(i = current /\ cs[i] # Idle)
    <3>1. ops'[i] = cs[i]
      BY <1>2, <2>3 DEF Launch
    <3>2. ~Stoppable(cs[i])
      BY <1>4, <2>3
    <3> HIDE DEF cs
    <3> QED BY <1>4, <3>1, <3>2 DEF Sound, Stoppable, Cancellable
  <2> QED BY <2>1, <2>2, <2>3
<1>6. ops' = [i \in Slots |-> ops'[i]]
  BY <1>2 DEF Launch
<1> QED BY <1>3, <1>5, <1>6 DEF OpsInv

-----------------------------------------------------------------------------

\* What FlowInv says of everything but the commands.

RestInv ==
  /\ screen \in {"setup", "scan", "review", "confirm", "apply", "results", "accounts",
                 "history", "menu", "quit"}
  /\ back \in {"accounts", "review", "results"}
  /\ acct \in Accounts /\ {groups, review, bacct, sacct} \subseteq Accounts \cup {NoAccount}
  /\ cl \in Accounts \cup {NoLink} /\ cred \subseteq Accounts
  /\ {confirm, result} \subseteq 0 .. Len(plans) /\ ran \subseteq 1 .. Len(plans)
  /\ BackendInv /\ ReviewInv

CommandsOK == OpsInv(ops, current, Len(plans), review)

LEMMA PlansCounted ==
  ASSUME RestInv
  PROVE  Len(plans) \in Nat
BY DEF RestInv, BackendInv

LEMMA FlowInvIs == FlowInv <=> CommandsOK /\ RestInv
<1>1. FlowInv => CommandsOK /\ RestInv
  BY DEF FlowInv, TypeOK, CommandsOK, RestInv
<1>2. ASSUME CommandsOK, RestInv PROVE FlowInv
  <2>1. prepared.run \in 0 .. Len(plans)
    BY <1>2 DEF RestInv, BackendInv
  <2>2. screen = "review" => review # NoAccount
    BY <1>2 DEF RestInv, ReviewInv
  <2>3. \A i \in Slots : Running(i) => ops[i].kind \in Kinds
    BY <1>2 DEF CommandsOK, OpsInv, Sound, Running, Op
  <2>4. current \in {0} \cup Slots
    BY <1>2 DEF CommandsOK, OpsInv
  <2>5. TypeOK
    BY <1>2, <2>1, <2>2, <2>3, <2>4 DEF TypeOK, RestInv
  <2> QED BY <1>2, <2>5 DEF FlowInv, CommandsOK, RestInv
<1> QED BY <1>1, <1>2

\* The commands' part of a step that leaves plans and review alone.
LEMMA CommandsKept ==
  ASSUME OpsInv(ops', current', Len(plans), review), UNCHANGED <<plans, review>>
  PROVE  CommandsOK'
BY DEF CommandsOK, OpsInv, Sound

LEMMA IdleStep ==
  ASSUME CommandsOK, UNCHANGED <<opVars, plans, review>>
  PROVE  CommandsOK'
BY DEF CommandsOK, OpsInv, Sound, opVars

LEMMA QuitStep ==
  ASSUME CommandsOK, RestInv, Quit
  PROVE  CommandsOK' /\ RestInv'
<1>1. CommandsOK'
  <2>1. OpsInv(ops', current', Len(plans), review)
    BY PlansCounted, QuitInv
  <2>2. UNCHANGED <<plans, review>>
    BY DEF Quit, backendVars
  <2> QED BY <2>1, <2>2, CommandsKept
<1>2. RestInv'
  BY DEF Quit, RestInv, BackendInv, ReviewInv, screenVars, backendVars
<1> QED BY <1>1, <1>2

\* What a scan that begins does to the backend: the plan prepared on a
\* connection it closes is dropped.
LEMMA BeginScanBackend ==
  ASSUME RestInv, NEW a \in Accounts, NEW os, BeginScan(a, os)
  PROVE  /\ cl' \in Accounts \cup {NoLink} /\ bacct' = a /\ screen' = "scan"
         /\ prepared' \in [run : 0 .. Len(plans), link : Accounts \cup {NoLink, Closed}]
         /\ UNCHANGED <<plans, ran, sacct>>
<1>1. Nothing \in [run : 0 .. Len(plans), link : Accounts \cup {NoLink, Closed}]
  BY PlansCounted DEF Nothing, NoRun
<1> QED BY <1>1 DEF BeginScan, Switched, RestInv, BackendInv

LEMMA BeginScanStep ==
  ASSUME CommandsOK, RestInv, NEW a \in Accounts, BeginScan(a, ops), UNCHANGED review
  PROVE  CommandsOK'
<1>1. UNCHANGED plans /\ cl \in Accounts \cup {NoLink}
  BY BeginScanBackend DEF RestInv
<1>2. OpsInv(ops', current', Len(plans), review)
  BY <1>1, PlansCounted, BeginScanInv DEF CommandsOK
<1> QED BY <1>1, <1>2, CommandsKept

\* A fresh command beside the others, and one in place of the current one.
LEMMA LaunchStep ==
  ASSUME CommandsOK, RestInv, NEW c \in Op(Len(plans)), Sound(c, review), Launch(ops, c),
         UNCHANGED <<plans, review>>
  PROVE  CommandsOK'
<1>1. OpsInv(ops', current', Len(plans), review)
  BY PlansCounted, LaunchInv DEF CommandsOK
<1> QED BY <1>1, CommandsKept

LEMMA AsideStep ==
  ASSUME CommandsOK, RestInv, NEW kind \in {"save", "runs", "maintain"},
         NEW of \in Accounts \cup {NoAccount}, kind = "save" => of \in Accounts,
         NEW at \in Places, Aside(Command(kind, of, at)), UNCHANGED <<plans, review>>
  PROVE  CommandsOK'
<1> DEFINE c == Command(kind, of, at)
<1>1. kind \in Kinds /\ kind # "scan" /\ kind # "login" /\ kind # "finish" /\ kind \notin Cancellable
  BY DEF Kinds, Cancellable
<1>2. c \in Op(Len(plans)) /\ Sound(c, review) /\ c.kind = kind
  BY <1>1, PlansCounted, CommandTyped, CommandSound
<1>3. ~Stoppable(c)
  BY <1>1, <1>2 DEF Stoppable
<1> HIDE DEF c
<1>4. OpsInv(ops', current', Len(plans), review)
  BY <1>2, <1>3, PlansCounted, AsideInv DEF CommandsOK, c
<1> QED BY <1>4, CommandsKept

-----------------------------------------------------------------------------
\* Keys.

LEMMA UseAccountStep ==
  ASSUME CommandsOK, RestInv, NEW a \in Accounts, UseAccount(a)
  PROVE  CommandsOK' /\ RestInv'
<1>1. CASE a \in cred /\ BeginScan(a, ops) /\ UNCHANGED <<setup, cred>>
  <2>1. CommandsOK'
    BY <1>1, BeginScanStep DEF UseAccount
  <2>2. RestInv'
    BY <1>1, BeginScanBackend DEF UseAccount, RestInv, BackendInv, ReviewInv
  <2> QED BY <2>1, <2>2
<1>2. CASE OpenSetup(FALSE) /\ UNCHANGED <<scan, interrupted, backendVars, opVars>>
  <2>1. CommandsOK'
    BY <1>2, IdleStep DEF UseAccount, backendVars
  <2>2. RestInv'
    BY <1>2 DEF UseAccount, OpenSetup, RestInv, BackendInv, ReviewInv, backendVars
  <2> QED BY <2>1, <2>2
<1> QED BY <1>1, <1>2 DEF UseAccount

\* Keys that open or close a screen and start nothing.
LEMMA ScanToSetupStep ==
  ASSUME CommandsOK, RestInv, ScanToSetup
  PROVE  CommandsOK' /\ RestInv'
<1>1. CommandsOK'
  BY IdleStep DEF ScanToSetup, backendVars
<1>2. RestInv'
  BY DEF ScanToSetup, OpenSetup, RestInv, BackendInv, ReviewInv, screenVars, backendVars
<1> QED BY <1>1, <1>2

LEMMA ShowAccountsStep ==
  ASSUME CommandsOK, RestInv, ShowAccounts
  PROVE  CommandsOK' /\ RestInv'
<1>1. CommandsOK'
  BY IdleStep DEF ShowAccounts, backendVars
<1>2. RestInv'
  BY DEF ShowAccounts, OpenAccounts, ReturnTarget, RestInv, BackendInv, ReviewInv, screenVars, backendVars
<1> QED BY <1>1, <1>2

LEMMA ShowMenuStep ==
  ASSUME CommandsOK, RestInv, ShowMenu
  PROVE  CommandsOK' /\ RestInv'
<1>1. CommandsOK'
  BY IdleStep DEF ShowMenu, backendVars
<1>2. RestInv'
  BY DEF ShowMenu, ReturnTarget, RestInv, BackendInv, ReviewInv, screenVars, backendVars
<1> QED BY <1>1, <1>2

LEMMA BackToReviewStep ==
  ASSUME CommandsOK, RestInv, BackToReview
  PROVE  CommandsOK' /\ RestInv'
<1>1. CommandsOK'
  BY IdleStep DEF BackToReview, backendVars
<1>2. RestInv'
  BY DEF BackToReview, RestInv, BackendInv, ReviewInv, screenVars, backendVars
<1> QED BY <1>1, <1>2

LEMMA EditAccountStep ==
  ASSUME CommandsOK, RestInv, NEW a \in Accounts, EditAccount(a)
  PROVE  CommandsOK' /\ RestInv'
<1>1. CommandsOK'
  BY IdleStep DEF EditAccount, backendVars
<1>2. RestInv'
  BY DEF EditAccount, OpenSetup, RestInv, BackendInv, ReviewInv, backendVars
<1> QED BY <1>1, <1>2

LEMMA LeaveSetupStep ==
  ASSUME CommandsOK, RestInv, LeaveSetup
  PROVE  CommandsOK' /\ RestInv'
<1>1. CASE Quit
  BY <1>1, QuitStep
<1>2. CASE OpenAccounts /\ UNCHANGED <<acct, groups, review, screenVars, backendVars, opVars>>
  <2>1. CommandsOK'
    BY <1>2, IdleStep DEF backendVars
  <2>2. RestInv'
    BY <1>2 DEF OpenAccounts, ReturnTarget, RestInv, BackendInv, ReviewInv, screenVars, backendVars
  <2> QED BY <2>1, <2>2
<1> QED BY <1>1, <1>2 DEF LeaveSetup

LEMMA LeaveSideStep ==
  ASSUME CommandsOK, RestInv, LeaveSide
  PROVE  CommandsOK' /\ RestInv'
<1>1. CASE Quit
  BY <1>1, QuitStep
<1>2. CASE CanReturn /\ screen' = back
             /\ UNCHANGED <<back, acct, groups, review, screenVars, backendVars, opVars>>
  <2>1. CommandsOK'
    BY <1>2, IdleStep DEF backendVars
  <2>2. RestInv'
    BY <1>2 DEF CanReturn, RestInv, BackendInv, ReviewInv, screenVars, backendVars
  <2> QED BY <2>1, <2>2
<1> QED BY <1>1, <1>2 DEF LeaveSide, ReturnBack

LEMMA QuitKeyStep ==
  ASSUME CommandsOK, RestInv, QuitKey
  PROVE  CommandsOK' /\ RestInv'
BY QuitStep DEF QuitKey

\* Keys that start a command beside the others.
LEMMA AsideKeyStep ==
  ASSUME CommandsOK, RestInv, SubmitSetup \/ ShowHistory \/ Maintain
  PROVE  CommandsOK' /\ RestInv'
<1>1. acct \in Accounts /\ NoAccount \in Accounts \cup {NoAccount} /\ {"save", "read", "run"} \subseteq Places
  BY DEF RestInv, Places
<1>2. CASE SubmitSetup
  <2>1. Aside(Command("save", acct, "save")) /\ UNCHANGED <<plans, review>>
    BY <1>2 DEF SubmitSetup, uiVars, backendVars
  <2>2. RestInv'
    BY <1>2 DEF SubmitSetup, RestInv, BackendInv, ReviewInv, uiVars, backendVars
  <2> QED BY <1>1, <2>1, <2>2, AsideStep
<1>3. CASE ShowHistory
  <2>1. Aside(Command("runs", acct, "read")) /\ UNCHANGED <<plans, review>>
    BY <1>3 DEF ShowHistory, backendVars
  <2>2. RestInv'
    BY <1>3 DEF ShowHistory, ReturnTarget, RestInv, BackendInv, ReviewInv, backendVars
  <2> QED BY <1>1, <2>1, <2>2, AsideStep
<1>4. CASE Maintain
  <2>1. Aside(Command("maintain", NoAccount, "run")) /\ UNCHANGED <<plans, review>>
    BY <1>4 DEF Maintain, uiVars, backendVars
  <2>2. RestInv'
    BY <1>4 DEF Maintain, RestInv, BackendInv, ReviewInv, uiVars, backendVars
  <2> QED BY <1>1, <2>1, <2>2, AsideStep
<1> QED BY <1>2, <1>3, <1>4

LEMMA RetryScanStep ==
  ASSUME CommandsOK, RestInv, RetryScan
  PROVE  CommandsOK' /\ RestInv'
<1>1. acct \in Accounts /\ BeginScan(acct, ops) /\ UNCHANGED <<back, acct, groups, review, confirm, result, cred>>
  BY DEF RetryScan, RestInv
<1>2. RestInv'
  BY <1>1, BeginScanBackend DEF RestInv, BackendInv, ReviewInv
<1> QED BY <1>1, <1>2, BeginScanStep

LEMMA RescanStep ==
  ASSUME CommandsOK, RestInv, NEW yes \in BOOLEAN, Rescan(yes)
  PROVE  CommandsOK' /\ RestInv'
<1>1. UNCHANGED <<back, acct, groups, review, confirm, result>>
  BY DEF Rescan
<1>2. CASE BeginScan(acct, ops) /\ UNCHANGED cred
  <2>1. acct \in Accounts
    BY DEF RestInv
  <2>2. RestInv'
    BY <1>1, <1>2, <2>1, BeginScanBackend DEF RestInv, BackendInv, ReviewInv
  <2> QED BY <1>1, <1>2, <2>1, <2>2, BeginScanStep
<1>3. CASE UNCHANGED <<screen, scan, interrupted, backendVars, opVars>>
  <2>1. RestInv'
    BY <1>1, <1>3 DEF RestInv, BackendInv, ReviewInv, backendVars
  <2> QED BY <1>1, <1>3, <2>1, IdleStep DEF backendVars
<1> QED BY <1>2, <1>3 DEF Rescan

\* The commands of w and of q, from the review.
LEMMA FinishSound ==
  ASSUME NEW n \in Nat, NEW at \in Places, NEW reviewed, reviewed # NoAccount
  PROVE  LET c == Command("finish", NoAccount, at)
         IN  c \in Op(n) /\ Sound(c, reviewed)
<1>1. "finish" \in Kinds /\ NoAccount \in Accounts \cup {NoAccount}
  BY DEF Kinds
<1>2. "finish" \notin {"scan", "save", "login"}
  OBVIOUS
<1> QED BY <1>1, <1>2, CommandTyped, CommandSound

\* Keys that start a command in place of the current one.
LEMMA LaunchKeyStep ==
  ASSUME CommandsOK, RestInv, NEW kind \in {"finish", "load"}, NEW at \in Places,
         kind = "finish" => screen = "review",
         Launch(ops, Command(kind, NoAccount, at)), UNCHANGED <<uiVars, screenVars, backendVars>>
  PROVE  CommandsOK' /\ RestInv'
<1> DEFINE c == Command(kind, NoAccount, at)
<1>1. kind = "finish" => review # NoAccount
  BY DEF RestInv, ReviewInv
<1>2. kind \in Kinds /\ kind # "scan" /\ kind # "save" /\ kind # "login" /\ NoAccount \in Accounts \cup {NoAccount}
  BY DEF Kinds
<1>3. c \in Op(Len(plans)) /\ Sound(c, review)
  <2>1. CASE kind = "finish"
    BY <1>1, <2>1, PlansCounted, FinishSound
  <2>2. CASE kind = "load"
    BY <1>2, <2>2, PlansCounted, CommandTyped, CommandSound
  <2> QED BY <2>1, <2>2
<1>4. CommandsOK'
  BY <1>3, LaunchStep DEF uiVars, backendVars
<1>5. RestInv'
  BY DEF RestInv, BackendInv, ReviewInv, uiVars, screenVars, backendVars
<1> QED BY <1>4, <1>5

LEMMA ReviewKeyStep ==
  ASSUME CommandsOK, RestInv, WritePlan \/ LeaveReview \/ AnotherRound
  PROVE  CommandsOK' /\ RestInv'
<1>1. {"write", "leave", "read"} \subseteq Places
  BY DEF Places
<1>2. CASE WritePlan
  BY <1>1, <1>2, LaunchKeyStep DEF WritePlan
<1>3. CASE LeaveReview
  BY <1>1, <1>3, LaunchKeyStep DEF LeaveReview
<1>4. CASE AnotherRound
  BY <1>1, <1>4, LaunchKeyStep DEF AnotherRound
<1> QED BY <1>2, <1>3, <1>4

\* A run's command carries the number of its plan.
LEMMA RunCommandSound ==
  ASSUME NEW n \in Nat, NEW kind \in {"apply", "undo"}, NEW r \in 0 .. n
  PROVE  LET c == [Command(kind, NoAccount, "run") EXCEPT !.run = r]
         IN  c \in Op(n) /\ Sound(c, review)
<1>1. kind \in Kinds /\ kind # "scan" /\ kind # "save" /\ kind # "login" /\ kind # "finish"
      /\ "run" \in Places
      /\ NoAccount \in Accounts \cup {NoAccount}
  BY DEF Kinds, Places
<1>2. /\ Command(kind, NoAccount, "run") \in Op(n)
      /\ Command(kind, NoAccount, "run").kind = kind
  <2>1. CASE kind = "apply"
    BY <1>1, <2>1, CommandTyped
  <2>2. CASE kind = "undo"
    BY <1>1, <2>2, CommandTyped
  <2> QED BY <2>1, <2>2
<1> QED BY <1>1, <1>2 DEF Op, Sound, Kinds

LEMMA UndoKeyStep ==
  ASSUME CommandsOK, RestInv, NEW r \in 0 .. Len(plans),
         Launch(ops, [Command("undo", NoAccount, "run") EXCEPT !.run = r]),
         UNCHANGED <<uiVars, confirm, result, backendVars>>
  PROVE  CommandsOK' /\ RestInv'
<1> DEFINE c == [Command("undo", NoAccount, "run") EXCEPT !.run = r]
<1>1. c \in Op(Len(plans)) /\ Sound(c, review)
  BY PlansCounted, RunCommandSound
<1>2. CommandsOK'
  BY <1>1, LaunchStep DEF uiVars, backendVars
<1>3. RestInv'
  BY DEF RestInv, BackendInv, ReviewInv, uiVars, backendVars
<1> QED BY <1>2, <1>3

LEMMA UndoResultStep ==
  ASSUME CommandsOK, RestInv, UndoResult
  PROVE  CommandsOK' /\ RestInv'
<1>1. result \in 0 .. Len(plans)
  BY DEF RestInv
<1> QED BY <1>1, UndoKeyStep DEF UndoResult

LEMMA UndoRunStep ==
  ASSUME CommandsOK, RestInv, NEW r \in ran, UndoRun(r)
  PROVE  CommandsOK' /\ RestInv'
<1>1. r \in 0 .. Len(plans)
  BY PlansCounted DEF RestInv
<1> QED BY <1>1, UndoKeyStep DEF UndoRun

LEMMA ApplyStep ==
  ASSUME CommandsOK, RestInv, Apply
  PROVE  CommandsOK' /\ RestInv'
<1> DEFINE c == [Command("apply", NoAccount, "run") EXCEPT !.run = prepared.run, !.link = prepared.link]
<1>1. prepared.run \in 0 .. Len(plans) /\ prepared.link \in Accounts \cup {NoLink, Closed}
  BY DEF RestInv, BackendInv
<1>2. c \in Op(Len(plans)) /\ Sound(c, review)
  <2>1. /\ "apply" \in Kinds /\ "run" \in Places /\ NoAccount \in Accounts \cup {NoAccount}
    BY DEF Kinds, Places
  <2>2. Command("apply", NoAccount, "run") \in Op(Len(plans)) /\ Command("apply", NoAccount, "run").kind = "apply"
    BY <2>1, PlansCounted, CommandTyped, CommandSound
  <2>3. c \in Op(Len(plans)) /\ c.kind = "apply"
    BY <1>1, <2>2 DEF Op
  <2> HIDE DEF c
  <2> QED BY <2>3 DEF Sound
<1>3. CommandsOK'
  BY <1>2, LaunchStep DEF Apply
<1>4. ran' \subseteq 1 .. Len(plans)
  BY <1>1, PlansCounted DEF Apply, RestInv, NoRun
<1>5. RestInv'
  BY <1>4 DEF Apply, RestInv, BackendInv, ReviewInv
<1> QED BY <1>3, <1>5

\* interrupt stops the current command, or leaves the program.
LEMMA InterruptStep ==
  ASSUME CommandsOK, RestInv, Interrupt
  PROVE  CommandsOK' /\ RestInv'
<1>1. CASE Quit
  BY <1>1, QuitStep
<1>2. CASE /\ ops' = [i \in Slots |-> IF i = current /\ Running(i)
                                      THEN [ops[i] EXCEPT !.live = FALSE] ELSE ops[i]]
           /\ UNCHANGED <<uiVars, scan, setup, confirm, result, applied, undoing, history, menu,
                          backendVars, current>>
  <2>1. ASSUME NEW i \in Slots
        PROVE  /\ ops'[i] \in Op(Len(plans)) /\ Sound(ops'[i], review)
               /\ Stoppable(ops'[i]) => i = current
    <3>1. ops[i] \in Op(Len(plans)) /\ Sound(ops[i], review) /\ (Stoppable(ops[i]) => i = current)
      BY DEF CommandsOK, OpsInv
    <3>2. CASE i = current /\ ops[i] # Idle
      <4>1. ops'[i] = [ops[i] EXCEPT !.live = FALSE]
        BY <1>2, <3>2 DEF Running
      <4> QED BY <3>1, <3>2, <4>1, PlansCounted, StoppedSound
    <3>3. CASE ~(i = current /\ ops[i] # Idle)
      BY <1>2, <3>1, <3>3 DEF Running
    <3> QED BY <3>2, <3>3
  <2>2. current' \in {0} \cup Slots /\ ops' = [i \in Slots |-> ops'[i]]
    BY <1>2 DEF CommandsOK, OpsInv
  <2>3. OpsInv(ops', current', Len(plans), review)
    BY <1>2, <2>1, <2>2 DEF OpsInv
  <2>4. CommandsOK'
    BY <1>2, <2>3, CommandsKept DEF uiVars, backendVars
  <2>5. RestInv'
    BY <1>2 DEF RestInv, BackendInv, ReviewInv, uiVars, backendVars
  <2> QED BY <2>4, <2>5
<1> QED BY <1>1, <1>2 DEF Interrupt

LEMMA KeyStep ==
  ASSUME CommandsOK, RestInv, Key
  PROVE  CommandsOK' /\ RestInv'
BY UseAccountStep, EditAccountStep, ScanToSetupStep, ShowAccountsStep, ShowMenuStep,
   BackToReviewStep, LeaveSetupStep, LeaveSideStep, QuitKeyStep, AsideKeyStep, RetryScanStep,
   RescanStep, ReviewKeyStep, UndoResultStep, UndoRunStep, ApplyStep, InterruptStep DEF Key

-----------------------------------------------------------------------------
\* The steps of a command. Ended, gone on, or followed by a load.

LEMMA EndedStep ==
  ASSUME CommandsOK, RestInv, NEW i \in Slots, Ended(i), UNCHANGED plans,
         review' = review \/ review' # NoAccount
  PROVE  CommandsOK'
<1>1. OpsInv(ops', current', Len(plans), review)
  BY PlansCounted, EndedInv DEF CommandsOK
<1> QED BY <1>1 DEF CommandsOK, OpsInv, Sound

LEMMA GoesStep ==
  ASSUME CommandsOK, RestInv, NEW i \in Slots, NEW c \in Op(Len(plans)), Sound(c, review),
         Stoppable(c) => Stoppable(ops[i]), Goes(i, c), UNCHANGED <<plans, review>>
  PROVE  CommandsOK'
<1>1. OpsInv(ops', current', Len(plans), review)
  BY PlansCounted, GoesInv DEF CommandsOK
<1> QED BY <1>1, CommandsKept

LEMMA ScanStoppedStep ==
  ASSUME CommandsOK, RestInv, NEW i \in Slots, ScanStopped(i)
  PROVE  CommandsOK' /\ RestInv'
<1> DEFINE c == Command("load", NoAccount, "read")
<1>1. "load" \in Kinds /\ "read" \in Places /\ NoAccount \in Accounts \cup {NoAccount}
  BY DEF Kinds, Places
<1>2. c \in Op(Len(plans)) /\ Sound(c, review)
  BY <1>1, PlansCounted, CommandTyped, CommandSound
<1>3. OpsInv(Without(i), current, Len(plans), review)
  BY PlansCounted, WithoutInv DEF CommandsOK
<1>4. Launch(Without(i), c)
  BY DEF ScanStopped
<1> HIDE DEF c
<1>5. OpsInv(ops', current', Len(plans), review)
  BY <1>2, <1>3, <1>4, PlansCounted, LaunchInv
<1>6. CommandsOK'
  BY <1>5, CommandsKept DEF ScanStopped, uiVars, backendVars
<1>7. RestInv'
  BY DEF ScanStopped, RestInv, BackendInv, ReviewInv, uiVars, backendVars
<1> QED BY <1>6, <1>7

LEMMA ScanFailedStep ==
  ASSUME CommandsOK, RestInv, NEW i \in Slots, ScanFailed(i)
  PROVE  CommandsOK' /\ RestInv'
<1>1. CommandsOK'
  BY EndedStep DEF ScanFailed, uiVars, backendVars
<1>2. RestInv'
  BY DEF ScanFailed, RestInv, BackendInv, ReviewInv, uiVars, backendVars
<1> QED BY <1>1, <1>2

\* What is known of a command that runs.
LEMMA CommandIs ==
  ASSUME CommandsOK, NEW i \in Slots
  PROVE  /\ ops[i] \in Op(Len(plans)) /\ Sound(ops[i], review)
         /\ ops[i].kind \in {"scan", "save", "login"} => ops[i].of \in Accounts
BY DEF CommandsOK, OpsInv, Sound

\* A command that only moves on.
LEMMA PlaceStep ==
  ASSUME CommandsOK, RestInv, NEW i \in Slots, NEW at \in Places, ops[i].kind # "idle",
         Goes(i, [ops[i] EXCEPT !.at = at]), UNCHANGED <<plans, review>>
  PROVE  CommandsOK'
<1> DEFINE c == [ops[i] EXCEPT !.at = at]
<1>1. c \in Op(Len(plans)) /\ c.kind = ops[i].kind /\ c.live = ops[i].live /\ c.of = ops[i].of
      /\ c.link = ops[i].link
  BY CommandIs DEF Op
<1>2. Sound(c, review) /\ (Stoppable(c) => Stoppable(ops[i]))
  <2> HIDE DEF c
  <2> QED BY <1>1, CommandIs DEF Sound, Stoppable
<1> QED BY <1>1, <1>2, GoesStep

LEMMA ResolveStep ==
  ASSUME CommandsOK, RestInv, NEW i \in Slots, Resolve(i)
  PROVE  CommandsOK' /\ RestInv'
<1>1. CASE /\ opened' = TRUE
           /\ Goes(i, [ops[i] EXCEPT !.at = IF cl = NoLink THEN "dial" ELSE "upsert"])
           /\ UNCHANGED <<uiVars, screenVars, bacct, cl, sacct, prepared, cred, plans, ran>>
  <2>1. (IF cl = NoLink THEN "dial" ELSE "upsert") \in Places /\ ops[i].kind # "idle"
    BY DEF Places, Resolve, Is
  <2>2. CommandsOK'
    BY <1>1, <2>1, PlaceStep DEF uiVars
  <2>3. RestInv'
    BY <1>1 DEF RestInv, BackendInv, ReviewInv, uiVars, screenVars
  <2> QED BY <2>2, <2>3
<1> QED BY <1>1, ScanFailedStep, ScanStoppedStep DEF Resolve

LEMMA DialStep ==
  ASSUME CommandsOK, RestInv, NEW i \in Slots, Dial(i)
  PROVE  CommandsOK' /\ RestInv'
<1>1. CASE /\ cl' = ops[i].of /\ Goes(i, [ops[i] EXCEPT !.at = "upsert"])
           /\ UNCHANGED <<uiVars, screenVars, bacct, sacct, opened, prepared, cred, plans, ran>>
  <2>1. "upsert" \in Places /\ ops[i].kind # "idle" /\ ops[i].of \in Accounts
    BY CommandIs DEF Places, Dial, Is
  <2>2. CommandsOK'
    BY <1>1, <2>1, PlaceStep DEF uiVars
  <2>3. RestInv'
    BY <1>1, <2>1 DEF RestInv, BackendInv, ReviewInv, uiVars, screenVars
  <2> QED BY <2>2, <2>3
<1> QED BY <1>1, ScanFailedStep, ScanStoppedStep DEF Dial

LEMMA UpsertStep ==
  ASSUME CommandsOK, RestInv, NEW i \in Slots, Upsert(i)
  PROVE  CommandsOK' /\ RestInv'
<1>1. CASE /\ sacct' = ops[i].of
           /\ Goes(i, [ops[i] EXCEPT !.at = "run", !.link = cl, !.row = ops[i].of])
           /\ UNCHANGED <<uiVars, screenVars, bacct, cl, opened, prepared, cred, plans, ran>>
  <2> DEFINE c == [ops[i] EXCEPT !.at = "run", !.link = cl, !.row = ops[i].of]
  <2>1. "run" \in Places /\ ops[i].kind = "scan" /\ ops[i].of \in Accounts
        /\ cl \in Accounts \cup {NoLink}
    BY CommandIs DEF Places, Upsert, Is, RestInv
  <2>2. c \in Op(Len(plans)) /\ c.kind = ops[i].kind /\ c.live = ops[i].live /\ c.of = ops[i].of
    BY <2>1, CommandIs DEF Op
  <2>3. Sound(c, review) /\ (Stoppable(c) => Stoppable(ops[i])) /\ Goes(i, c)
    <3>1. Goes(i, c)
      BY <1>1
    <3> HIDE DEF c
    <3> QED BY <2>1, <2>2, <3>1 DEF Sound, Stoppable
  <2>4. CommandsOK'
    <3> HIDE DEF c
    <3> QED BY <1>1, <2>2, <2>3, GoesStep DEF uiVars
  <2>5. RestInv'
    BY <1>1, <2>1 DEF RestInv, BackendInv, ReviewInv, uiVars, screenVars
  <2> QED BY <2>4, <2>5
<1> QED BY <1>1, ScanFailedStep, ScanStoppedStep DEF Upsert

LEMMA ScanEndsStep ==
  ASSUME CommandsOK, RestInv, NEW i \in Slots, ScanEnds(i)
  PROVE  CommandsOK' /\ RestInv'
BY ScanFailedStep, ScanStoppedStep DEF ScanEnds

LEMMA LoadEndsStep ==
  ASSUME CommandsOK, RestInv, NEW i \in Slots, LoadEnds(i)
  PROVE  CommandsOK' /\ RestInv'
<1>1. CASE Quit
  BY <1>1, QuitStep
<1>2. CASE LoadFails(i)
  <2>1. CommandsOK'
    BY <1>2, EndedStep DEF LoadFails, backendVars
  <2>2. RestInv'
    BY <1>2 DEF LoadFails, RestInv, BackendInv, ReviewInv, backendVars
  <2> QED BY <2>1, <2>2
<1>3. CASE /\ opened /\ Loaded(i)
           /\ groups' = sacct /\ review' = sacct /\ screen' = "review"
           /\ Ended(i)
           /\ UNCHANGED <<back, acct, screenVars, backendVars>>
  <2>1. sacct \in Accounts
    BY <1>3 DEF Loaded, RestInv
  <2>2. CommandsOK'
    BY <1>3, <2>1, FlowAssumption, EndedStep DEF backendVars
  <2>3. RestInv'
    BY <1>3, <2>1, FlowAssumption DEF RestInv, BackendInv, ReviewInv, screenVars, backendVars
  <2> QED BY <2>2, <2>3
<1> QED BY <1>1, <1>2, <1>3 DEF LoadEnds

LEMMA PrepareFailsStep ==
  ASSUME CommandsOK, RestInv, NEW i \in Slots, ops[i].kind = "finish", PrepareFails(i)
  PROVE  CommandsOK' /\ RestInv'
<1>1. review # NoAccount
  BY CommandIs DEF Sound
<1>2. CommandsOK'
  BY EndedStep DEF PrepareFails, backendVars
<1>3. RestInv'
  BY <1>1 DEF PrepareFails, RestInv, BackendInv, ReviewInv, screenVars, backendVars
<1> QED BY <1>2, <1>3

\* Commands whose plan is one of more plans are as they were.
LEMMA MorePlans ==
  ASSUME NEW n \in Nat, NEW reviewed, OpsInv(ops, current, n, reviewed)
  PROVE  OpsInv(ops, current, n + 1, reviewed)
<1>1. Op(n) \subseteq Op(n + 1)
  BY DEF Op
<1> QED BY <1>1 DEF OpsInv

LEMMA WriteStep ==
  ASSUME CommandsOK, RestInv, NEW i \in Slots, Write(i)
  PROVE  CommandsOK' /\ RestInv'
<1>1. ops[i].kind = "finish"
  BY DEF Write, Is
<1>2. CASE /\ ops[i].live
           /\ plans' = Append(plans, NewPlan)
           /\ Goes(i, [ops[i] EXCEPT !.at = "prepare", !.run = Len(plans) + 1, !.link = cl])
           /\ UNCHANGED <<uiVars, screenVars, bacct, cl, sacct, opened, prepared, cred, ran>>
  <2> DEFINE c == [ops[i] EXCEPT !.at = "prepare", !.run = Len(plans) + 1, !.link = cl]
             n == Len(plans)
  <2>1. /\ n \in Nat /\ n + 1 \in 0 .. n + 1 /\ "prepare" \in Places
        /\ cl \in Accounts \cup {NoLink} /\ NewPlan \in [names : Accounts \cup {NoAccount}, rows : Accounts \cup {NoAccount}]
    BY PlansCounted DEF Places, RestInv, NewPlan
  <2>2. /\ plans' \in Seq([names : Accounts \cup {NoAccount}, rows : Accounts \cup {NoAccount}])
        /\ Len(plans') = n + 1
    BY <1>2, <2>1 DEF RestInv, BackendInv
  <2>3. OpsInv(ops, current, n + 1, review)
    BY <2>1, MorePlans DEF CommandsOK
  <2>4. ops[i] \in Op(n + 1) /\ Sound(ops[i], review)
    BY <2>3 DEF OpsInv
  <2>5. c \in Op(n + 1) /\ c.kind = ops[i].kind /\ c.live = ops[i].live /\ c.link = cl
    BY <2>1, <2>4 DEF Op
  <2>6. Sound(c, review) /\ (Stoppable(c) => Stoppable(ops[i])) /\ Goes(i, c)
    <3>1. Goes(i, c)
      BY <1>2
    <3>2. cl # Closed
      BY <2>1, FlowAssumption
    <3> HIDE DEF c
    <3> QED BY <1>1, <2>4, <2>5, <3>1, <3>2 DEF Sound, Stoppable
  <2>7. OpsInv(ops', current', n + 1, review)
    <3> HIDE DEF c
    <3>1. n + 1 \in Nat
      BY <2>1
    <3> QED BY <2>3, <2>5, <2>6, <3>1, GoesInv
  <2>8. CommandsOK'
    BY <1>2, <2>2, <2>7 DEF CommandsOK, OpsInv, Sound, uiVars
  <2>9. RestInv'
    BY <1>2, <2>1, <2>2 DEF RestInv, BackendInv, ReviewInv, uiVars, screenVars
  <2> QED BY <2>8, <2>9
<1>3. CASE PrepareFails(i)
  BY <1>1, <1>3, PrepareFailsStep
<1> QED BY <1>2, <1>3 DEF Write

LEMMA LeaveEndsStep ==
  ASSUME CommandsOK, RestInv, NEW i \in Slots, LeaveEnds(i)
  PROVE  CommandsOK' /\ RestInv'
BY QuitStep, PrepareFailsStep DEF LeaveEnds, Is

LEMMA PrepareStep ==
  ASSUME CommandsOK, RestInv, NEW i \in Slots, Prepare(i)
  PROVE  CommandsOK' /\ RestInv'
<1>1. ops[i].kind = "finish"
  BY DEF Prepare, Is
<1>2. CASE /\ Goes(i, [ops[i] EXCEPT !.at = "store"])
           /\ UNCHANGED <<uiVars, screenVars, backendVars>>
  <2>1. "store" \in Places /\ ops[i].kind # "idle"
    BY <1>1 DEF Places
  <2>2. CommandsOK'
    BY <1>2, <2>1, PlaceStep DEF uiVars, backendVars
  <2>3. RestInv'
    BY <1>2 DEF RestInv, BackendInv, ReviewInv, uiVars, screenVars, backendVars
  <2> QED BY <2>2, <2>3
<1>3. CASE PrepareFails(i)
  BY <1>1, <1>3, PrepareFailsStep
<1> QED BY <1>2, <1>3 DEF Prepare

\* The connection that is stored with the plan may have been closed by then.
LEMMA StoreStep ==
  ASSUME CommandsOK, RestInv, NEW i \in Slots, Store(i)
  PROVE  CommandsOK' /\ RestInv'
<1>1. /\ ops[i].kind # "idle" /\ "prepared" \in Places
      /\ prepared' = [run |-> ops[i].run, link |-> ops[i].link]
      /\ Goes(i, [ops[i] EXCEPT !.at = "prepared"])
      /\ UNCHANGED <<uiVars, screenVars, bacct, cl, sacct, opened, cred, plans, ran>>
  BY DEF Store, Is, Places
<1>2. CommandsOK'
  BY <1>1, PlaceStep DEF uiVars
<1>3. ops[i].run \in 0 .. Len(plans) /\ ops[i].link \in Accounts \cup {NoLink, Closed}
  BY <1>1, CommandIs DEF Op
<1>4. RestInv'
  BY <1>1, <1>3 DEF RestInv, BackendInv, ReviewInv, uiVars, screenVars
<1> QED BY <1>2, <1>4

LEMMA PrepareEndsStep ==
  ASSUME CommandsOK, RestInv, NEW i \in Slots, PrepareEnds(i)
  PROVE  CommandsOK' /\ RestInv'
<1>1. review # NoAccount /\ ops[i].run \in 0 .. Len(plans)
  BY CommandIs DEF PrepareEnds, Is, Sound, Op
<1>2. CommandsOK'
  BY EndedStep DEF PrepareEnds, backendVars
<1>3. RestInv'
  BY <1>1 DEF PrepareEnds, RestInv, BackendInv, ReviewInv, backendVars
<1> QED BY <1>2, <1>3

LEMMA ApplyEndsStep ==
  ASSUME CommandsOK, RestInv, NEW i \in Slots, ApplyEnds(i)
  PROVE  CommandsOK' /\ RestInv'
<1>1. ops[i].run \in 0 .. Len(plans)
  BY CommandIs DEF Op
<1>2. CommandsOK'
  BY EndedStep DEF ApplyEnds, backendVars
<1>3. RestInv'
  BY <1>1 DEF ApplyEnds, RestInv, BackendInv, ReviewInv, backendVars
<1> QED BY <1>2, <1>3

LEMMA UndoEndsStep ==
  ASSUME CommandsOK, RestInv, NEW i \in Slots, UndoEnds(i)
  PROVE  CommandsOK' /\ RestInv'
<1>1. CommandsOK'
  BY EndedStep DEF UndoEnds, uiVars, backendVars
<1>2. RestInv'
  BY DEF UndoEnds, RestInv, BackendInv, ReviewInv, uiVars, backendVars
<1> QED BY <1>1, <1>2

LEMMA RunsEndStep ==
  ASSUME CommandsOK, RestInv, NEW i \in Slots, RunsEnd(i)
  PROVE  CommandsOK' /\ RestInv'
<1>1. CommandsOK'
  BY EndedStep DEF RunsEnd, uiVars, backendVars
<1>2. RestInv'
  BY DEF RunsEnd, RestInv, BackendInv, ReviewInv, uiVars, backendVars
<1> QED BY <1>1, <1>2

LEMMA MaintainEndsStep ==
  ASSUME CommandsOK, RestInv, NEW i \in Slots, MaintainEnds(i)
  PROVE  CommandsOK' /\ RestInv'
<1>1. CommandsOK'
  BY EndedStep DEF MaintainEnds, uiVars, backendVars
<1>2. RestInv'
  BY DEF MaintainEnds, RestInv, BackendInv, ReviewInv, uiVars, backendVars
<1> QED BY <1>1, <1>2

-----------------------------------------------------------------------------
\* The form's commands, and the end of the proof.

LEMMA AfterSetupStep ==
  ASSUME CommandsOK, RestInv, NEW i \in Slots, NEW a \in Accounts, AfterSetup(i, a),
         acct' \in Accounts, cred' \subseteq Accounts,
         UNCHANGED <<groups, review, confirm, result>>
  PROVE  CommandsOK' /\ RestInv'
<1>1. CASE BeginScan(a, Without(i)) /\ UNCHANGED back
  <2>1. UNCHANGED plans /\ cl \in Accounts \cup {NoLink}
    BY <1>1, BeginScanBackend DEF RestInv
  <2>2. OpsInv(Without(i), current, Len(plans), review)
    BY PlansCounted, WithoutInv DEF CommandsOK
  <2>3. OpsInv(ops', current', Len(plans), review)
    BY <1>1, <2>1, <2>2, PlansCounted, BeginScanInv
  <2>4. CommandsOK'
    BY <2>1, <2>3, CommandsKept
  <2>5. RestInv'
    BY <1>1, BeginScanBackend DEF RestInv, BackendInv, ReviewInv
  <2> QED BY <2>4, <2>5
<1>2. CASE /\ OpenAccounts /\ Ended(i)
           /\ UNCHANGED <<scan, interrupted, bacct, cl, sacct, opened, prepared, plans, ran>>
  <2>1. CommandsOK'
    BY <1>2, EndedStep
  <2>2. RestInv'
    BY <1>2 DEF OpenAccounts, ReturnTarget, RestInv, BackendInv, ReviewInv
  <2> QED BY <2>1, <2>2
<1> QED BY <1>1, <1>2 DEF AfterSetup

LEMMA SaveEndsStep ==
  ASSUME CommandsOK, RestInv, NEW i \in Slots, SaveEnds(i)
  PROVE  CommandsOK' /\ RestInv'
<1>1. ops[i].of \in Accounts /\ UNCHANGED <<groups, review, confirm, result>>
  BY CommandIs DEF SaveEnds, Is
<1>2. CASE /\ Ended(i)
           /\ UNCHANGED <<screen, back, acct, scan, interrupted, backendVars>>
  <2>1. CommandsOK'
    BY <1>1, <1>2, EndedStep DEF backendVars
  <2>2. RestInv'
    BY <1>1, <1>2 DEF RestInv, BackendInv, ReviewInv, backendVars
  <2> QED BY <2>1, <2>2
<1>3. CASE /\ acct' = ops[i].of /\ cred' = cred \cup {ops[i].of}
           /\ AfterSetup(i, ops[i].of)
  <2>1. acct' \in Accounts /\ cred' \subseteq Accounts
    BY <1>1, <1>3 DEF RestInv
  <2> QED BY <1>1, <1>3, <2>1, AfterSetupStep
<1>4. CASE /\ acct' = ops[i].of
           /\ Launch(Without(i), Command("login", ops[i].of, "browser"))
           /\ UNCHANGED <<screen, back, scan, backendVars>>
  <2> DEFINE c == Command("login", ops[i].of, "browser")
  <2>1. "login" \in Kinds /\ "browser" \in Places /\ ops[i].of \in Accounts \cup {NoAccount}
    BY <1>1 DEF Kinds, Places
  <2>2. c \in Op(Len(plans)) /\ Sound(c, review)
    BY <1>1, <2>1, PlansCounted, CommandTyped, CommandSound
  <2>3. OpsInv(Without(i), current, Len(plans), review) /\ Launch(Without(i), c)
    BY <1>4, PlansCounted, WithoutInv DEF CommandsOK
  <2>4. OpsInv(ops', current', Len(plans), review)
    <3> HIDE DEF c
    <3> QED BY <2>2, <2>3, PlansCounted, LaunchInv
  <2>5. CommandsOK'
    BY <1>1, <1>4, <2>4, CommandsKept DEF backendVars
  <2>6. RestInv'
    BY <1>1, <1>4 DEF RestInv, BackendInv, ReviewInv, backendVars
  <2> QED BY <2>5, <2>6
<1> QED BY <1>2, <1>3, <1>4 DEF SaveEnds

LEMMA LoginEndsStep ==
  ASSUME CommandsOK, RestInv, NEW i \in Slots, LoginEnds(i)
  PROVE  CommandsOK' /\ RestInv'
<1>1. ops[i].of \in Accounts /\ UNCHANGED <<acct, groups, review, confirm, result>>
  BY CommandIs DEF LoginEnds, Is
<1>2. CASE Ended(i) /\ UNCHANGED <<screen, back, scan, backendVars>>
  <2>1. CommandsOK'
    BY <1>1, <1>2, EndedStep DEF backendVars
  <2>2. RestInv'
    BY <1>1, <1>2 DEF RestInv, BackendInv, ReviewInv, backendVars
  <2> QED BY <2>1, <2>2
<1>3. CASE cred' = cred \cup {ops[i].of} /\ AfterSetup(i, acct)
  <2>1. acct \in Accounts /\ acct' \in Accounts /\ cred' \subseteq Accounts
    BY <1>1, <1>3 DEF RestInv
  <2> QED BY <1>1, <1>3, <2>1, AfterSetupStep
<1> QED BY <1>2, <1>3 DEF LoginEnds

LEMMA CommandStep ==
  ASSUME CommandsOK, RestInv, NEW i \in Slots, Step(i)
  PROVE  CommandsOK' /\ RestInv'
BY ResolveStep, DialStep, UpsertStep, ScanEndsStep, LoadEndsStep, WriteStep, LeaveEndsStep,
   PrepareStep, StoreStep, PrepareEndsStep, ApplyEndsStep, UndoEndsStep, SaveEndsStep,
   LoginEndsStep, RunsEndStep, MaintainEndsStep DEF Step

LEMMA BeginFirstStep ==
  ASSUME CommandsOK, RestInv, BeginFirst
  PROVE  CommandsOK' /\ RestInv'
<1>1. acct \in Accounts /\ BeginScan(acct, ops)
      /\ UNCHANGED <<back, acct, groups, review, confirm, result, cred>>
  BY DEF BeginFirst, RestInv
<1>2. RestInv'
  BY <1>1, BeginScanBackend DEF RestInv, BackendInv, ReviewInv
<1> QED BY <1>1, <1>2, BeginScanStep

LEMMA InitInv == Init => FlowInv
<1> SUFFICES ASSUME Init PROVE CommandsOK /\ RestInv
  BY FlowInvIs
<1>1. Len(plans) = 0 /\ << >> \in Seq([names : Accounts \cup {NoAccount}, rows : Accounts \cup {NoAccount}])
  BY DEF Init
<1>2. CommandsOK
  <2>1. Idle \in Op(0) /\ Sound(Idle, review) /\ ~Stoppable(Idle)
    BY IdleSound
  <2> QED BY <1>1, <2>1 DEF CommandsOK, OpsInv, Init
<1>3. RestInv
  <2>1. Nothing \in [run : 0 .. Len(plans), link : Accounts \cup {NoLink, Closed}]
    BY <1>1 DEF Nothing, NoRun
  <2>2. {confirm, result} \subseteq 0 .. Len(plans) /\ ran \subseteq 1 .. Len(plans)
    BY <1>1 DEF Init, NoRun
  <2> QED BY <1>1, <2>1, <2>2, FlowAssumption DEF RestInv, BackendInv, ReviewInv, Init, Landings
<1> QED BY <1>2, <1>3

LEMMA StepInv == FlowInv /\ [Next]_vars => FlowInv'
<1> SUFFICES ASSUME CommandsOK, RestInv, [Next]_vars PROVE CommandsOK' /\ RestInv'
  <2>1. FlowInv' <=> CommandsOK' /\ RestInv'
    BY FlowInvIs, PTL
  <2> QED BY <2>1, FlowInvIs
<1>1. CASE Key
  BY <1>1, KeyStep
<1>2. ASSUME NEW i \in Slots, Step(i) PROVE CommandsOK' /\ RestInv'
  BY <1>2, CommandStep
<1>3. CASE BeginFirst
  BY <1>3, BeginFirstStep
<1>4. CASE UNCHANGED vars
  <2>1. CommandsOK'
    BY <1>4, IdleStep DEF vars, uiVars, backendVars
  <2>2. RestInv'
    BY <1>4 DEF vars, uiVars, screenVars, backendVars, RestInv, BackendInv, ReviewInv
  <2> QED BY <2>1, <2>2
<1> QED BY <1>1, <1>2, <1>3, <1>4 DEF Next, Finished

\* The prepared plan changes when a scan that begins drops it and when Prepare
\* stores one, and never otherwise.
LEMMA PlanMoves ==
  ASSUME [Next]_vars
  PROVE  prepared' \in {prepared, Nothing} \/ \E i \in Slots : Store(i)
<1>1. ASSUME NEW a, NEW os, BeginScan(a, os) PROVE prepared' \in {prepared, Nothing}
  BY <1>1 DEF BeginScan, Switched
<1>2. ASSUME Quit PROVE prepared' = prepared
  BY <1>2 DEF Quit, backendVars
<1>3. ASSUME ReturnBack PROVE prepared' = prepared
  BY <1>2, <1>3 DEF ReturnBack, backendVars
<1>4. ASSUME NEW i, NEW a, AfterSetup(i, a) PROVE prepared' \in {prepared, Nothing}
  BY <1>1, <1>4 DEF AfterSetup
<1>5. ASSUME NEW i, ScanStopped(i) \/ ScanFailed(i) \/ LoadFails(i) \/ PrepareFails(i)
      PROVE  prepared' = prepared
  BY <1>5 DEF ScanStopped, ScanFailed, LoadFails, PrepareFails, backendVars
<1>6. CASE Key
  <2>1. CASE \E a \in Accounts : UseAccount(a) \/ EditAccount(a)
    BY <1>1, <2>1 DEF UseAccount, EditAccount, backendVars
  <2>2. CASE SubmitSetup \/ LeaveSetup \/ RetryScan \/ ScanToSetup
    BY <1>1, <1>2, <2>2 DEF SubmitSetup, LeaveSetup, RetryScan, ScanToSetup, backendVars
  <2>3. CASE WritePlan \/ LeaveReview \/ ShowAccounts \/ ShowHistory \/ ShowMenu
    BY <2>3 DEF WritePlan, LeaveReview, ShowAccounts, ShowHistory, ShowMenu, backendVars
  <2>4. CASE Apply \/ BackToReview \/ UndoResult \/ AnotherRound
    BY <2>4 DEF Apply, BackToReview, UndoResult, AnotherRound, backendVars
  <2>5. CASE \/ \E r \in ran : UndoRun(r)
             \/ Maintain
             \/ \E yes \in BOOLEAN : Rescan(yes)
    BY <1>1, <2>5 DEF UndoRun, Maintain, Rescan, backendVars
  <2>6. CASE LeaveSide \/ QuitKey \/ Interrupt
    BY <1>2, <1>3, <2>6 DEF LeaveSide, QuitKey, Interrupt, backendVars
  <2> QED BY <1>6, <2>1, <2>2, <2>3, <2>4, <2>5, <2>6 DEF Key
<1>7. ASSUME NEW i \in Slots, Step(i)
      PROVE  prepared' \in {prepared, Nothing} \/ Store(i)
  <2>1. CASE Resolve(i) \/ Dial(i) \/ Upsert(i) \/ ScanEnds(i)
    BY <1>5, <2>1 DEF Resolve, Dial, Upsert, ScanEnds
  <2>2. CASE LoadEnds(i) \/ Write(i) \/ LeaveEnds(i)
    BY <1>2, <1>5, <2>2 DEF LoadEnds, Write, LeaveEnds, backendVars
  <2>3. CASE Prepare(i) \/ PrepareEnds(i) \/ ApplyEnds(i) \/ UndoEnds(i)
    BY <1>5, <2>3 DEF Prepare, PrepareEnds, ApplyEnds, UndoEnds, backendVars
  <2>4. CASE SaveEnds(i) \/ LoginEnds(i) \/ RunsEnd(i) \/ MaintainEnds(i)
    BY <1>4, <2>4 DEF SaveEnds, LoginEnds, RunsEnd, MaintainEnds, backendVars
  <2> QED BY <1>7, <2>1, <2>2, <2>3, <2>4 DEF Step
<1>8. CASE BeginFirst
  BY <1>1, <1>8 DEF BeginFirst
<1>9. CASE Finished \/ UNCHANGED vars
  BY <1>9 DEF Finished, vars, backendVars
<1> QED BY <1>6, <1>7, <1>8, <1>9 DEF Next

\* A Prepare that has not been told to stop holds a connection that is open, so
\* the one that stores a closed one has been.
LEMMA ClosedStored ==
  ASSUME FlowInv, [Next]_vars, prepared'.link = Closed, prepared.link # Closed
  PROVE  StoredStopped
<1>1. CommandsOK
  BY FlowInvIs
<1>2. Nothing.link # Closed
  BY FlowAssumption DEF Nothing
<1>3. PICK i \in Slots : Store(i)
  BY <1>2, PlanMoves
<1>4. /\ ops[i].kind = "finish" /\ Is(i, "finish", "store") /\ ops[i].link = Closed
      /\ ops' = [ops EXCEPT ![i] = [ops[i] EXCEPT !.at = "prepared"]]
  BY <1>3 DEF Store, Is, Goes
<1>5. ~ops[i].live
  BY <1>1, <1>4 DEF CommandsOK, OpsInv, Sound
<1>6. ops'[i].at = "prepared"
  <2>1. ops \in [Slots -> Op(Len(plans))] /\ ops[i] \in Op(Len(plans))
    BY <1>1 DEF CommandsOK, OpsInv
  <2>2. [ops[i] EXCEPT !.at = "prepared"].at = "prepared"
    BY <2>1 DEF Op
  <2> QED BY <1>4, <2>1, <2>2
<1> QED BY <1>4, <1>5, <1>6 DEF StoredStopped

LEMMA FlowInvHolds == Spec => []FlowInv
BY InitInv, StepInv, PTL DEF Spec

\* The types: among others, the review is shown only when an account's senders
\* were loaded into it, and a run belongs to a plan that was written.
THEOREM TypesHold == Spec => []TypeOK
<1>1. FlowInv => TypeOK
  BY DEF FlowInv
<1> QED BY <1>1, FlowInvHolds, PTL

\* However keys, commands that end late and scans that begin over them follow
\* one another: of the operations newOp started, at most one has not been told
\* to stop, and it is the one ctrl+c stops (newOp, interrupt). Maintenance runs
\* outside newOp and is no part of this.
THEOREM OneThingToStopHolds == Spec => []OneThingToStop
<1>1. FlowInv => OneThingToStop
  BY DEF FlowInv, OpsInv, OneThingToStop, Stoppable, Live
<1> QED BY <1>1, FlowInvHolds, PTL

\* The prepared plan comes to hold a connection that a switch has closed in one
\* way only: a Prepare that had been told to stop stores it (Connect, Prepare).
THEOREM SwitchDropsPlanHolds == Spec => SwitchDropsPlan
<1>1. FlowInv /\ [Next]_vars =>
        [prepared'.link = Closed => prepared.link = Closed \/ StoredStopped]_<<prepared, ops>>
  BY ClosedStored
<1> QED BY <1>1, FlowInvHolds, PTL DEF Spec, SwitchDropsPlan
=============================================================================
