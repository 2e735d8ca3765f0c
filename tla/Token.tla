------------------------------- MODULE Token -------------------------------
\* Signing in with a browser and refreshing the stored token: internal/oauth and
\* creds/token.go. A token is its refresh token, a number the provider issued;
\* Unusable stands for what the file's expiry says. The provider is external.
EXTENDS Integers, FiniteSets

CONSTANTS
  Names,            \* account names, as the credential files carry them
  Rotating,         \* those whose provider issues a new refresh token each time
  Workers,          \* refreshes that can be under way at once
  MaxIssued         \* bound: refresh tokens issued

ASSUME TokenAssumption ==
  /\ Rotating \subseteq Names /\ IsFiniteSet(Names) /\ IsFiniteSet(Workers) /\ MaxIssued \in Nat
  /\ "none" \notin Names

VARIABLES
  token,            \* [Names -> refresh token stored], NoFile, or Blank in the file
  accepted, issued, \* the provider: refresh tokens it takes, and how many it issued
  spoiled,          \* history: names whose newest token never reached the file
  refreshes,        \* [Workers -> [of, at, had, got]], a running AccessToken
  login             \* the running Login, its one-shot and its result channel

tokenVars == <<token, accepted, issued, spoiled, refreshes, login>>

NoFile == -1
Blank == 0
Idle == [of |-> "none", at |-> "idle", had |-> Blank, got |-> Blank]
NoLogin ==
  [of |-> "none", at |-> "none", once |-> FALSE, handled |-> "none", chan |-> "none", got |-> Blank]

RefreshOf(n) == \E w \in Workers : refreshes[w].of = n
Goes(w, r) == refreshes' = [refreshes EXCEPT ![w] = r]
Issue(old) == issued' = issued + 1 /\ accepted' = (accepted \ old) \cup {issued + 1}

-----------------------------------------------------------------------------
\* AccessToken with an expired token: LoadToken, Refresh, SaveToken.

StartRefresh(w, n) ==
  /\ refreshes[w] = Idle /\ token[n] # NoFile
  /\ Goes(w, [of |-> n, at |-> "sent", had |-> token[n], got |-> Blank])
  /\ UNCHANGED <<token, accepted, issued, spoiled, login>>

\* The provider takes the refresh token, and where it rotates replaces it.
Served(w) ==
  LET r == refreshes[w]
  IN  /\ r.at = "sent" /\ r.had \in accepted
      /\ \/ r.of \notin Rotating /\ Goes(w, [r EXCEPT !.at = "served"])
            /\ UNCHANGED <<accepted, issued>>
         \/ /\ r.of \in Rotating /\ issued < MaxIssued
            /\ Issue({r.had}) /\ Goes(w, [r EXCEPT !.at = "served", !.got = issued + 1])
      /\ UNCHANGED <<token, spoiled, login>>

\* The answer is lost (the connection, the context), or the file cannot be
\* written: the provider may have replaced the token that stays on disk.
RefreshFails(w) ==
  LET r == refreshes[w]
  IN  /\ r.at \in {"sent", "served"} /\ Goes(w, Idle)
      /\ spoiled' = IF r.got # Blank /\ token[r.of] = r.had THEN spoiled \cup {r.of} ELSE spoiled
      /\ UNCHANGED <<token, accepted, issued, login>>

\* Refresh keeps the old refresh token when none came back.
\* Mutant of Carried: what came back is stored as it is.
CarriedNever(r) == r.got
Carried(r) == IF r.got = Blank THEN r.had ELSE r.got
Refreshed(w) ==
  LET r == refreshes[w]
  IN  /\ r.at = "served" /\ Goes(w, Idle)
      /\ token' = [token EXCEPT ![r.of] = Carried(r)]
      /\ UNCHANGED <<accepted, issued, spoiled, login>>

-----------------------------------------------------------------------------
\* Login: the loopback listener, the browser, and the code's exchange.

StartLogin(n) ==
  /\ login.at = "none"
  /\ login' = [NoLogin EXCEPT !.of = n, !.at = "listening"]
  /\ UNCHANGED <<token, accepted, issued, spoiled, refreshes>>

\* A request with this session's state: the first one is handled, the rest get
\* 410. A request with another state is answered 400 and changes nothing.
Callback(kind) ==
  /\ login.at = "listening"
  /\ login' = IF login.once THEN login ELSE [login EXCEPT !.once = TRUE, !.handled = kind]
  /\ UNCHANGED <<token, accepted, issued, spoiled, refreshes>>
\* The page is flushed before the result is handed over.
Deliver ==
  /\ login.at = "listening" /\ login.handled # "none"
  /\ login' = [login EXCEPT !.chan = login.handled, !.handled = "none"]
  /\ UNCHANGED <<token, accepted, issued, spoiled, refreshes>>

LoginOver == login' = NoLogin /\ UNCHANGED <<token, accepted, issued, spoiled, refreshes>>
Exchange ==
  /\ login.at = "listening" /\ login.chan = "code" /\ issued < MaxIssued
  /\ Issue({}) /\ login' = [login EXCEPT !.at = "issued", !.got = issued + 1]
  /\ UNCHANGED <<token, spoiled, refreshes>>
\* An error in the callback or in the exchange, five minutes without an answer,
\* or a cancelled context.
\* Mutant of Expires: the listener waits for the browser alone.
ExpiresNever == login.chan # "none"
Expires == login.at = "listening"
LoginFails == (Expires \/ login.at = "issued") /\ LoginOver
\* SaveToken.
LoginSaved ==
  /\ login.at = "issued"
  /\ token' = [token EXCEPT ![login.of] = login.got]
  /\ spoiled' = spoiled \ {login.of}
  /\ login' = NoLogin
  /\ UNCHANGED <<accepted, issued, refreshes>>

\* DeleteToken.
Deleted(n) == [token EXCEPT ![n] = NoFile]

-----------------------------------------------------------------------------
\* Properties.

TokenTypeOK ==
  /\ \A n \in Names : token[n] \in NoFile .. issued
  /\ accepted \subseteq 1 .. issued /\ spoiled \subseteq Names
  /\ \A w \in Workers : refreshes[w] # Idle => refreshes[w].of \in Names
  /\ login # NoLogin => login.of \in Names

\* The refresh token on disk is one the provider takes, whatever other refreshes
\* and sign-ins of the same account were under way, except while the answer that
\* replaces it has yet to be written, and when it never is (AccessToken, Refresh).
Replaced(n) == \E w \in Workers : refreshes[w].of = n /\ refreshes[w].got # Blank
TokenAccepted ==
  \A n \in Names \ spoiled : token[n] # NoFile /\ ~Replaced(n) => token[n] \in accepted

-----------------------------------------------------------------------------
\* What TokenAccepted rests on.

TokenRecords ==
  /\ issued \in Nat /\ accepted \subseteq 1 .. issued /\ spoiled \subseteq Names
  /\ token \in [Names -> {NoFile} \cup 1 .. issued]
  /\ refreshes \in [Workers -> [of : Names \cup {"none"}, at : {"idle", "sent", "served"},
                                had : 0 .. issued, got : 0 .. issued]]
  /\ \A w \in Workers :
       \/ refreshes[w] = Idle
       \/ refreshes[w].of \in Names /\ refreshes[w].had # Blank
  /\ login \in [of : Names \cup {"none"}, at : {"none", "listening", "issued"}, once : BOOLEAN,
                handled : {"none", "code", "error"}, chan : {"none", "code", "error"},
                got : 0 .. issued]
  /\ login = NoLogin \/ login.of \in Names
  /\ login.at = "issued" <=> login.got # Blank

\* A token that came back and is not stored yet is good, and nobody else's.
Unwritten(t) ==
  /\ t \in accepted /\ \A n \in Names : token[n] # t
  /\ \A w \in Workers : refreshes[w].had # t
FreshInv ==
  /\ \A w \in Workers : refreshes[w].got # Blank =>
       /\ Unwritten(refreshes[w].got) /\ login.got # refreshes[w].got
       /\ \A v \in Workers \ {w} : refreshes[v].got # refreshes[w].got
  /\ login.got # Blank => Unwritten(login.got)

\* No two accounts have a token in common, in a file or in a request.
OwnInv ==
  /\ \A m, n \in Names : m # n /\ token[m] # NoFile => token[n] # token[m]
  /\ \A w \in Workers : \A n \in Names \ {refreshes[w].of} : token[n] # refreshes[w].had
  /\ \A v, w \in Workers :
       refreshes[v].of # refreshes[w].of => refreshes[v].had # refreshes[w].had

\* Without rotation what was issued stays good. With it, the token on disk stops
\* being good when the answer that replaces it is on its way, or was lost.
KeptInv ==
  /\ \A n \in Names \ Rotating : token[n] # NoFile => token[n] \in accepted
  /\ \A w \in Workers : refreshes[w] # Idle /\ refreshes[w].of \notin Rotating =>
       refreshes[w].had \in accepted /\ refreshes[w].got = Blank
RotatedInv ==
  /\ \A w \in Workers :
       refreshes[w].of \in Rotating => (refreshes[w].got # Blank <=> refreshes[w].at = "served")
  /\ \A n \in Rotating \ spoiled : token[n] # NoFile /\ token[n] \notin accepted =>
       \E w \in Workers :
         refreshes[w].of = n /\ refreshes[w].got # Blank /\ refreshes[w].had = token[n]
TokenInv == TokenRecords /\ FreshInv /\ OwnInv /\ KeptInv /\ RotatedInv
=============================================================================
