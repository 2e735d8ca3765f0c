------------------------------ MODULE Screens ------------------------------
\* The review, the accounts screen and its form in one session, with the
\* commands, the MX lookups, the sign-in and the token refreshes beside them.
\* Which command cancels which, and the run itself, are Flow's.
EXTENDS Review, Accounts

CONSTANTS
  Files,            \* config files a session starts with: [Names -> entry]
  MaxKeys           \* bound: keys pressed on the review and the accounts screen

ASSUME ScreensAssumption ==
  /\ Files \subseteq [Names -> Entries \cup {NoEntry}]
  /\ MaxKeys \in Nat

VARIABLE keys
vars == <<reviewVars, formVars, tokenVars, accountsVars, keys>>

Press == keys < MaxKeys /\ keys' = keys + 1

\* On the review, the review's own keys; a opens the accounts, esc there returns.
OnReview ==
  /\ screen = "review" /\ ReviewKey
  /\ UNCHANGED <<formVars, tokenVars, acct, diskVars, startup, table, commands, failed, loaded>>
  /\ screen' = IF left' = "quit" THEN "quit" ELSE screen
ShowAccounts ==
  /\ screen = "review" /\ Free /\ OpenAccounts(commands)
  /\ UNCHANGED <<reviewVars, formVars, tokenVars, acct, diskVars, startup, failed, loaded>>
LeaveAccounts ==
  /\ screen = "accounts" /\ ~Asking
  /\ screen' = IF loaded THEN "review" ELSE "quit"
  /\ UNCHANGED <<reviewVars, formVars, tokenVars, acct, diskVars, startup, table, commands,
                 failed, loaded>>
Key ==
  /\ Press
  /\ \/ OnReview \/ ShowAccounts \/ LeaveAccounts
     \/ (AccountsKey \/ FormKeys) /\ UNCHANGED reviewVars
     \/ /\ screen # "quit" /\ UNCHANGED reviewVars
        /\ \E n \in Names, e \in Handwritten : EditFile(n, e)

\* The senders of the account that was scanned come to a review of their own.
ScanAnswered ==
  /\ (\E i \in DOMAIN commands : ScanEnds(i)) \/ (\E w \in Workers : RefreshEnds(w))
  /\ IF failed' THEN UNCHANGED reviewVars ELSE NewReview
Beside ==
  /\ screen # "quit" /\ UNCHANGED keys
  /\ \/ (LookupAnswered \/ CommandStep \/ ProviderAnswers
           \/ BrowserReturns \/ LoginStep) /\ UNCHANGED reviewVars
     \/ ScanAnswered

Over == screen = "quit" \/ keys = MaxKeys
Finished == Over /\ UNCHANGED vars

\* A fresh install starts with the form. A session with accounts is taken up on
\* their list, or with an add form filled in. Whatever has a browser sign-in has
\* signed in, and the rest has its password.
Filled(n, d) == [NewForm("add", "", d, FALSE, InFile) EXCEPT !.name = n]
OAuthNames(f) == {n \in Names : f[n] # NoEntry /\ f[n].oauth}
Init ==
  /\ file \in Files
  /\ cfg = file /\ startup = InFile /\ troubled = {}
  /\ passwords = InFile \ OAuthNames(file)
  /\ LET signedIn == SetToSeq(OAuthNames(file))
     IN  /\ token = [n \in Names |-> IF n \in OAuthNames(file)
                                     THEN CHOOSE i \in DOMAIN signedIn : signedIn[i] = n
                                     ELSE NoFile]
         /\ issued = Len(signedIn) /\ accepted = DOMAIN signedIn
  /\ spoiled = {} /\ refreshes = [w \in Workers |-> Idle] /\ login = NoLogin
  /\ lookups = << >> /\ failed = FALSE /\ loaded = FALSE
  /\ \/ /\ InFile = {} /\ screen = "form" /\ acct = NoAccount /\ commands = << >>
        /\ form = NewForm("first", "", "", FALSE, {}) /\ table = NoTable
     \/ /\ InFile # {} /\ screen = "accounts" /\ \E n \in InFile : acct = Account(n, file)
        /\ form = NewForm("first", "", "", FALSE, {}) /\ table = NoTable
        /\ commands = <<Command("list", NoRow)>>
     \/ /\ InFile # {} /\ screen = "form" /\ commands = << >>
        /\ \E n \in InFile :
             /\ acct = Account(n, file)
             /\ table = [rows |-> file, cursor |-> n, question |-> "none"]
        /\ \E n \in Names, d \in Domains \ {""} : form = Filled(n, d)
  /\ ReviewInit /\ keys = 0

Next == Key \/ Beside \/ Finished

\* A lookup has three seconds, a sign-in five minutes; the browser may stay away.
Fairness ==
  /\ WF_vars(screen # "quit" /\ LookupAnswered /\ UNCHANGED <<reviewVars, keys>>)
  /\ WF_vars(screen # "quit" /\ LoginStep /\ UNCHANGED <<reviewVars, keys>>)
Spec == Init /\ [][Next]_vars /\ Fairness

-----------------------------------------------------------------------------
TypeOK == ReviewTypeOK /\ FormTypeOK /\ TokenTypeOK /\ AccountsTypeOK

\* What the form waits for comes, unless the program is left: enter pressed while
\* a lookup runs is answered, also when the answer no longer matters, and a
\* sign-in ends whether or not the browser ever comes back (submit, mxResult,
\* loginTimeout).
FormWaitEnds ==
  /\ form.looking ~> ~form.looking \/ screen = "quit"
  /\ login.at # "none" ~> login.at = "none" \/ screen = "quit"
=============================================================================
