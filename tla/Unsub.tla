------------------------------- MODULE Unsub -------------------------------
\* The unsubscribe phase of a run: internal/unsub, one goroutine per selected
\* sender, and the part of internal/apply that calls it and records the results.
\* Time is a counter; a result's wording, the bytes of a request and the
\* resolver's answers are left out.
EXTENDS Integers, Sequences, FiniteSets

CONSTANTS
  Targets,            \* 1 .. n, the senders to unsubscribe from, in plan order
  Planned,            \* [Targets -> [uris, oneClick]], the plan's copy
  Stored,             \* [Targets -> Seq([uris, oneClick])], stored messages, newest first
  Hosts,              \* every host a link or a redirect may name
  Literal,            \* those written as an IP address
  Private,            \* those that resolve into the local network
  HTTPGet, FollowRedirects, MaxInFlight, AllowPrivateHosts,
  Interval,           \* ticks between two slots of one host, 1 / PerHostRPS
  HasSMTP,
  Horizon             \* the clock runs this far by itself

ASSUME UnsubAssumption ==
  /\ MaxInFlight \in Nat \ {0} /\ Interval \in Nat \ {0}
  /\ FollowRedirects \in Nat /\ Horizon \in Nat
  /\ IsFiniteSet(Targets) /\ Targets = 1 .. Cardinality(Targets)

VARIABLES
  now,                \* the clock
  cancelled,          \* the run's context
  work,               \* where each goroutine stands
  results,            \* the slice Run returns
  limiters,           \* the next free slot of each rate-limit bucket
  sem,                \* tokens in the semaphore channel
  requests,           \* history: every request that went out
  answers,            \* history: every answer that came back
  logged,             \* results written to the audit log and offered to the database
  recorded            \* unsub_status of each sender's row

phaseVars == <<logged, recorded>>
vars == <<now, cancelled, work, results, limiters, sem, requests, answers, phaseVars>>

-----------------------------------------------------------------------------
\* Targets and links.

\* The newest stored message that carries links, or the plan's copy.
TargetOf(t) ==
  LET carrying == SelectSeq(Stored[t], LAMBDA m : m.uris # << >>)
  IN  IF carrying = << >> THEN Planned[t] ELSE Head(carrying)

OfScheme(uris, scheme) == SelectSeq(uris, LAMBDA u : u.scheme = scheme)

\* The web links in order of preference, and the mailto links.
Web(t) == OfScheme(TargetOf(t).uris, "https") \o OfScheme(TargetOf(t).uris, "http")
Mailto(t) == OfScheme(TargetOf(t).uris, "mailto")

\* The rate-limit bucket of a request: the port counts for an IP literal only.
SmtpKey == <<"smtp:">>
HostKey(u) == IF u.host \in Literal THEN <<u.host, u.port>> ELSE <<u.host>>
KeyOf(w) == IF w.how = "mailto" THEN SmtpKey ELSE HostKey(w.uri)

NoUri == [scheme |-> "none", host |-> "none", port |-> 0]
Result(status, how, code) == [status |-> status, how |-> how, code |-> code]
NoResult == Result("none", "none", "none")

\* A goroutine's steps in order: an http request looks its host up, every
\* request reserves a slot, sleeps until it, takes a token of the semaphore and
\* goes out. post is the failed one-click result that a GET may replace.
Stages == {"start", "check", "throttle", "sleep", "acquire", "send", "sent", "done"}
NotStarted ==
  [at |-> "start", how |-> "none", uri |-> NoUri, slot |-> 0, hops |-> 0, post |-> NoResult]

At(t, stage) == work[t].at = stage
Goto(t, stage) == work' = [work EXCEPT ![t].at = stage] /\ UNCHANGED results
Holders == {t \in Targets : work[t].at \in {"send", "sent"}}

\* runOne returns r, and the goroutine stores it.
Return(t, r) ==
  /\ work' = [work EXCEPT ![t] = [NotStarted EXCEPT !.at = "done"]]
  /\ results' = [results EXCEPT ![t] = r]

\* A redirected one-click request is tried again as a GET, whose result counts
\* only when it is not a failure.
\* Mutant of FallsBack: every failed one-click request is tried again.
FallsBackAlways(t, r) == r.how = "oneclick" /\ r.status = "failed" /\ HTTPGet
FallsBack(t, r) == r.how = "oneclick" /\ r.code = "3xx" /\ HTTPGet
Attempted(t, r) ==
  \/ /\ FallsBack(t, r)
     /\ work' = [work EXCEPT ![t].at = "check", ![t].how = "http", ![t].post = r]
     /\ UNCHANGED results
  \/ ~FallsBack(t, r) /\ work[t].post # NoResult /\ r.status = "failed" /\ Return(t, work[t].post)
  \/ ~FallsBack(t, r) /\ (work[t].post = NoResult \/ r.status # "failed") /\ Return(t, r)

Failed(t, code) == Attempted(t, Result("failed", work[t].how, code))

-----------------------------------------------------------------------------
\* One goroutine.

Begin(t, how, uri, stage) ==
  /\ work' = [work EXCEPT ![t].at = stage, ![t].how = how, ![t].uri = uri]
  /\ UNCHANGED results

\* doMailto up to the request. An address that does not parse has no host.
StartMail(t) ==
  \/ ~HasSMTP /\ Return(t, Result("manual", "mailto", "none"))
  \/ HasSMTP /\ Head(Mailto(t)).host = "" /\ Return(t, Result("failed", "mailto", "none"))
  \/ HasSMTP /\ Head(Mailto(t)).host # "" /\ Begin(t, "mailto", Head(Mailto(t)), "throttle")

\* runOne up to the request: the method, or a result without one.
Start(t) ==
  /\ At(t, "start")
  /\ \/ cancelled /\ Return(t, Result("failed", "none", "none"))
     \/ /\ ~cancelled /\ Web(t) # << >> /\ TargetOf(t).oneClick
        /\ Begin(t, "oneclick", Head(Web(t)), "check")
     \/ /\ ~cancelled /\ Web(t) # << >> /\ ~TargetOf(t).oneClick
        /\ \/ HTTPGet /\ Begin(t, "http", Head(Web(t)), "check")
           \/ ~HTTPGet /\ Return(t, Result("manual", "http", "none"))
     \/ /\ ~cancelled /\ Web(t) = << >> /\ Mailto(t) # << >>
        /\ StartMail(t)
     \/ /\ ~cancelled /\ Web(t) = << >> /\ Mailto(t) = << >>
        /\ Return(t, Result("manual", "none", "none"))
  /\ UNCHANGED <<now, cancelled, limiters, sem, requests, answers, phaseVars>>

\* checkHost: the lookup may fail, also because the context is done; a host
\* inside the local network is refused.
CheckHost(t) ==
  /\ At(t, "check")
  /\ \/ (AllowPrivateHosts \/ work[t].uri.host \notin Private) /\ Goto(t, "throttle")
     \/ ~AllowPrivateHosts /\ Failed(t, "none")
  /\ UNCHANGED <<now, cancelled, limiters, sem, requests, answers, phaseVars>>

\* throttle and the head of hostLimiter.wait: the slot is reserved under the
\* lock. A slot that is due already needs no timer.
NextSlot(key) == IF key \in DOMAIN limiters THEN limiters[key] ELSE 0
SlotFor(key) == IF NextSlot(key) > now THEN NextSlot(key) ELSE now
\* Mutant of Taken: the next slot is counted from the clock, not from the slot taken.
TakenFromNow(key) ==
  [k \in DOMAIN limiters \cup {key} |-> IF k = key THEN now + Interval ELSE limiters[k]]
Taken(key) ==
  [k \in DOMAIN limiters \cup {key} |->
     IF k = key THEN SlotFor(key) + Interval ELSE limiters[k]]
Reserve(t) ==
  LET key == KeyOf(work[t]) IN
  /\ ~cancelled
  /\ limiters' = Taken(key)
  /\ work' = [work EXCEPT ![t].at = IF SlotFor(key) > now THEN "sleep" ELSE "acquire",
                          ![t].slot = SlotFor(key)]
  /\ UNCHANGED results
Throttle(t) ==
  /\ At(t, "throttle")
  /\ \/ Reserve(t)
     \/ cancelled /\ Failed(t, "none") /\ UNCHANGED limiters
  /\ UNCHANGED <<now, cancelled, sem, requests, answers, phaseVars>>

\* The end of hostLimiter.wait: the timer or the context, whichever select takes.
Sleep(t) ==
  /\ At(t, "sleep")
  /\ \/ now >= work[t].slot /\ Goto(t, "acquire")
     \/ cancelled /\ Failed(t, "none")
  /\ UNCHANGED <<now, cancelled, limiters, sem, requests, answers, phaseVars>>

\* acquireSem: a free token or the context, whichever select takes.
AcquireSem(t) ==
  /\ At(t, "acquire")
  /\ \/ sem < MaxInFlight /\ sem' = sem + 1 /\ Goto(t, "send")
     \/ cancelled /\ Failed(t, "none") /\ UNCHANGED sem
  /\ UNCHANGED <<now, cancelled, limiters, requests, answers, phaseVars>>

ReleaseSem == sem' = sem - 1

Request(t, hop, key) ==
  [target |-> t, how |-> work[t].how, hop |-> hop, key |-> key, slot |-> work[t].slot, at |-> now]

\* client.Do and defaultSendMail look at the context before anything goes out.
Send(t) ==
  /\ At(t, "send")
  /\ \/ /\ ~cancelled
        /\ requests' = requests \cup {Request(t, 0, KeyOf(work[t]))}
        /\ Goto(t, "sent") /\ UNCHANGED sem
     \/ cancelled /\ Failed(t, "none") /\ ReleaseSem /\ UNCHANGED requests
  /\ UNCHANGED <<now, cancelled, limiters, answers, phaseVars>>

Answer(t, code) == answers' = answers \cup {[target |-> t, how |-> work[t].how, code |-> code]}

\* doOneClick and doGet: a 2xx or 3xx answer. A GET that succeeds is only probable.
\* Mutant of Accepted: a GET is as good as a one-click request.
AcceptedOk(how) == "ok"
Accepted(how) == IF how = "http" THEN "probable" ELSE "ok"
Answered(t, code) ==
  /\ At(t, "sent") /\ work[t].how # "mailto"
  /\ Answer(t, code)
  /\ \/ code = "2xx" /\ Attempted(t, Result(Accepted(work[t].how), work[t].how, code))
     \/ code = "3xx" /\ Failed(t, code)
  /\ ReleaseSem
  /\ UNCHANGED <<now, cancelled, limiters, requests, phaseVars>>

\* Any other answer, or an error of client.Do: the timeout, the connection, the
\* context, or a redirect of a GET that is one too many or to a refused host.
\* Mutant of NoAnswer: the error path keeps the token.
NoAnswerLeaks(t) ==
  /\ At(t, "sent") /\ work[t].how # "mailto"
  /\ Failed(t, "none") /\ UNCHANGED sem
  /\ UNCHANGED <<now, cancelled, limiters, requests, answers, phaseVars>>
\* Mutant of NoAnswer: a request without an answer is sent again.
NoAnswerRetried(t) ==
  /\ At(t, "sent") /\ work[t].how # "mailto"
  /\ Goto(t, "send")
  /\ UNCHANGED <<now, cancelled, limiters, sem, requests, answers, phaseVars>>
NoAnswer(t) ==
  /\ At(t, "sent") /\ work[t].how # "mailto"
  /\ Failed(t, "none") /\ ReleaseSem
  /\ UNCHANGED <<now, cancelled, limiters, requests, answers, phaseVars>>

\* A redirect of a GET is followed at once: it waits for no slot of its own.
\* Mutant of MayFollow: off by one.
MayFollowOneMore(hops) == hops <= FollowRedirects
MayFollow(hops) == hops < FollowRedirects
Redirected(t, host) ==
  /\ At(t, "sent") /\ work[t].how = "http" /\ ~cancelled
  /\ MayFollow(work[t].hops)
  /\ AllowPrivateHosts \/ host \notin Private
  /\ work' = [work EXCEPT ![t].hops = @ + 1]
  /\ requests' = requests \cup {Request(t, work[t].hops + 1, HostKey([host |-> host, port |-> 443]))}
  /\ UNCHANGED <<now, cancelled, results, limiters, sem, answers, phaseVars>>

\* defaultSendMail: the server takes the message or the conversation fails
\* before that; a failed QUIT turns an accepted mail into a failure too. The
\* context is not looked at again.
MailAnswered(t) ==
  /\ At(t, "sent") /\ work[t].how = "mailto"
  /\ \/ Answer(t, "2xx") /\ Attempted(t, Result("ok", "mailto", "none"))
     \/ Answer(t, "2xx") /\ Failed(t, "none")
     \/ UNCHANGED answers /\ Failed(t, "none")
  /\ ReleaseSem
  /\ UNCHANGED <<now, cancelled, limiters, requests, phaseVars>>

Worker(t) ==
  \/ Start(t) \/ CheckHost(t) \/ Throttle(t) \/ Sleep(t) \/ AcquireSem(t) \/ Send(t)
  \/ \E code \in {"2xx", "3xx"} : Answered(t, code)
  \/ NoAnswer(t) \/ MailAnswered(t)
  \/ \E host \in Hosts : Redirected(t, host)

-----------------------------------------------------------------------------
\* The caller: once every goroutine is done, one audit line and one database
\* write per result, in order. A cancelled context fails the write, and that is a
\* warning; other database errors are left out.
AllDone == \A t \in Targets : At(t, "done")
Record ==
  LET t == logged + 1 IN
  /\ AllDone /\ t \in Targets
  /\ logged' = t
  /\ recorded' = IF cancelled THEN recorded ELSE [recorded EXCEPT ![t] = results[t].status]
  /\ UNCHANGED <<now, cancelled, work, results, limiters, sem, requests, answers>>
Over == AllDone /\ logged + 1 \notin Targets

Cancel ==
  /\ ~cancelled /\ ~Over
  /\ cancelled' = TRUE
  /\ UNCHANGED <<now, work, results, limiters, sem, requests, answers, phaseVars>>

\* Time passes while goroutines sleep, wait for a token, a lookup or an answer;
\* what they do in between takes no time.
Urgent(t) == At(t, "send") \/ (At(t, "acquire") /\ sem < MaxInFlight)
Tick ==
  /\ ~AllDone /\ \A t \in Targets : ~Urgent(t)
  /\ now < Horizon \/ \E t \in Targets : At(t, "sleep") /\ work[t].slot > now
  /\ now' = now + 1
  /\ UNCHANGED <<cancelled, work, results, limiters, sem, requests, answers, phaseVars>>

Finished == Over /\ UNCHANGED vars

Init ==
  /\ now = 0 /\ cancelled = FALSE
  /\ work = [t \in Targets |-> NotStarted]
  /\ results = [t \in Targets |-> NoResult]
  /\ limiters = << >> /\ sem = 0
  /\ requests = {} /\ answers = {}
  /\ logged = 0 /\ recorded = [t \in Targets |-> "none"]

Next == (\E t \in Targets : Worker(t)) \/ Record \/ Cancel \/ Tick \/ Finished

\* Every goroutine is scheduled and time passes. That an http request ends is
\* the client's timeout; that the SMTP server answers is assumed.
Fairness == (\A t \in Targets : WF_vars(Worker(t))) /\ WF_vars(Record) /\ WF_vars(Tick)
Spec == Init /\ [][Next]_vars
FairSpec == Spec /\ Fairness

-----------------------------------------------------------------------------
\* Properties.

TypeOK ==
  /\ now \in Nat /\ cancelled \in BOOLEAN
  /\ \A t \in Targets :
       /\ work[t].at \in Stages /\ work[t].slot \in Nat
       /\ work[t].how \in {"none", "oneclick", "http", "mailto"}
       /\ work[t].hops \in 0 .. FollowRedirects
       /\ results[t] # NoResult <=> At(t, "done")
  /\ sem \in 0 .. MaxInFlight

\* No request that Run starts goes out before its slot, and two slots of one
\* host are at least the interval apart, whichever goroutine took them, also
\* when one link is requested twice (hostLimiter.wait, throttle).
SlotsApart ==
  /\ \A r \in requests : r.at >= r.slot
  /\ \A r, s \in {q \in requests : q.hop = 0} :
       r # s /\ r.key = s.key => r.slot - s.slot >= Interval \/ s.slot - r.slot >= Interval

\* At most MaxInFlight requests are out at once, and no return path keeps or
\* gives back a token it should not: the semaphore counts who holds one.
InFlight == sem = Cardinality(Holders) /\ sem <= MaxInFlight

\* A result says what happened to that sender: ok only for an accepted POST or
\* mail, probable only for an answered GET, and a sender that is reported for
\* a manual unsubscribe was not contacted. The database says the same, unless
\* the run was cancelled.
HonestResult ==
  \A t \in Targets :
    LET r == results[t]
        Got(hows) == \E a \in answers : a.target = t /\ a.how \in hows /\ a.code = "2xx"
        Sent == \E q \in requests : q.target = t
    IN  /\ r.status = "ok" => Got({"oneclick", "mailto"})
        /\ r.status = "probable" => Got({"http"})
        /\ r.status = "manual" => ~Sent
        /\ Got({"oneclick"}) => r.status \in {"none", "ok"}
        /\ Over /\ ~cancelled => recorded[t] = r.status

\* A sender is asked once: one POST, or one mail, or one GET with its
\* redirects, and a GET after a POST only when that POST was redirected.
AskedOnce ==
  /\ \A r, s \in requests :
       r.target = s.target /\ r.how = s.how /\ r.hop = s.hop => r = s
  /\ \A r, s \in requests :
       r.target = s.target /\ r.how # s.how =>
         [target |-> r.target, how |-> "oneclick", code |-> "3xx"] \in answers

\* The phase ends, cancelled or not, with a line for every sender.
PhaseEnds == <>(Over /\ \A t \in Targets : t <= logged)

\* What the comment of Run and the design say of the rate: one request for each
\* interval and host, of those that go out and not of their slots.
RequestsApart ==
  \A r, s \in requests :
    r # s /\ r.key = s.key => r.at - s.at >= Interval \/ s.at - r.at >= Interval

\* The steps a goroutine may still take: the rest of its request, then the
\* redirects of a GET, and for a POST that may be redirected one more request.
Round == FollowRedirects + 7
BeforeAnswer(stage) ==
  CASE stage = "check" -> 6
    [] stage = "throttle" -> 5
    [] stage = "sleep" -> 4
    [] stage = "acquire" -> 3
    [] stage = "send" -> 2
    [] OTHER -> 1
Rank(w) ==
  CASE w.at = "done" -> 0
    [] w.at = "start" -> 2 * Round
    [] OTHER -> BeforeAnswer(w.at) + (FollowRedirects - w.hops)
                  + IF w.how = "oneclick" THEN Round ELSE 0

\* A goroutine never goes back without using up a redirect or its one fallback:
\* each of its steps leaves fewer to take, whatever the servers answer and
\* whenever the run is cancelled (runOne, doOneClick, checkRedirect).
WorkersBounded ==
  [][\A t \in Targets :
       work'[t] # work[t] => Rank(work[t])' \in 0 .. Rank(work[t]) - 1]_vars

-----------------------------------------------------------------------------
\* The inductive invariant of UnsubProofs.

\* Every goroutine's state is a record of the six fields.
WorkOK ==
  work = [t \in Targets |->
            [at |-> work[t].at, how |-> work[t].how, uri |-> work[t].uri,
             slot |-> work[t].slot, hops |-> work[t].hops, post |-> work[t].post]]

Apart(x, y) == x - y >= Interval \/ y - x >= Interval

\* A slot that is reserved and not used yet.
Reserved(t) == work[t].at \in {"sleep", "acquire", "send"}
FirstHops == {r \in requests : r.hop = 0}

\* A slot is behind its bucket's next one, and due once the timer is behind it.
ClockOK ==
  /\ now \in Nat
  /\ \A k \in DOMAIN limiters : limiters[k] \in Nat
  /\ \A t \in Targets :
       /\ Reserved(t) \/ At(t, "sent") => work[t].slot \in Nat
       /\ work[t].at \in {"acquire", "send", "sent"} => work[t].slot <= now
       /\ Reserved(t) => /\ KeyOf(work[t]) \in DOMAIN limiters
                         /\ work[t].slot + Interval <= limiters[KeyOf(work[t])]
  /\ \A r \in requests : r.slot \in Nat /\ r.at \in Nat
  /\ \A r \in FirstHops : r.key \in DOMAIN limiters /\ r.slot + Interval <= limiters[r.key]

\* Reserved slots are as far apart as those that were used.
PacedOK ==
  /\ \A t, u \in Targets :
       Reserved(t) /\ Reserved(u) /\ t # u /\ KeyOf(work[t]) = KeyOf(work[u])
         => Apart(work[t].slot, work[u].slot)
  /\ \A t \in Targets, r \in FirstHops :
       Reserved(t) /\ KeyOf(work[t]) = r.key => Apart(work[t].slot, r.slot)

\* What went out for a goroutine at the place where it stands.
Own(t) == {r \in requests : r.target = t}
AsksAgain(t) ==
  work[t].how = "http" /\ [target |-> t, how |-> "oneclick", code |-> "3xx"] \in answers
AskedAt(t) ==
  /\ At(t, "start") => Own(t) = {} /\ work[t].hops = 0
  /\ work[t].at \in {"check", "throttle", "sleep", "acquire", "send"} =>
       work[t].hops = 0 /\ \A r \in Own(t) : r.how = "oneclick" /\ AsksAgain(t)
  /\ At(t, "sent") =>
       /\ work[t].hops \in Nat /\ (work[t].how # "http" => work[t].hops = 0)
       /\ \A r \in Own(t) : \/ r.how = work[t].how /\ r.hop <= work[t].hops
                            \/ r.how = "oneclick" /\ AsksAgain(t)
AskedOK ==
  /\ \A r \in requests : r.target \in Targets /\ r.hop \in Nat
  /\ \A t \in Targets : AskedAt(t)

UnsubInv == WorkOK /\ ClockOK /\ PacedOK /\ AskedOK /\ SlotsApart /\ AskedOnce /\ InFlight

\* What a result rests on, and what is kept of a request that failed. Nothing
\* is recorded before every result is there.
GotFrom(t, hows) == \E a \in answers : a.target = t /\ a.how \in hows /\ a.code = "2xx"
HonestAt(t) ==
  /\ work[t].at \notin {"start", "done"} => work[t].how \in {"oneclick", "http", "mailto"}
  /\ work[t].post = NoResult \/ work[t].post.status = "failed"
  /\ ~At(t, "done") => results[t].status = "none"
  /\ At(t, "done") => results[t].status \in {"ok", "probable", "failed", "manual"}
  /\ results[t].status = "ok" => GotFrom(t, {"oneclick", "mailto"})
  /\ results[t].status = "probable" => GotFrom(t, {"http"})
  /\ results[t].status = "manual" => Own(t) = {}
  /\ GotFrom(t, {"oneclick"}) => results[t].status = "ok"
  /\ t <= logged /\ ~cancelled => recorded[t] = results[t].status
HonestOK ==
  /\ results = [t \in Targets |-> results[t]] /\ recorded = [t \in Targets |-> recorded[t]]
  /\ logged \in Nat /\ (logged > 0 => AllDone)
  /\ \A t \in Targets : HonestAt(t)
=============================================================================
