---------------------------- MODULE UnsubProofs ----------------------------
\* Theorems about Unsub: its types, the pace of the requests to one host, how many
\* are out at once, that a sender is asked once, what a result says, and that no
\* goroutine goes round for ever. All rest on UnsubInv; HonestOK and ShapeOK add
\* the results and the types to it.
EXTENDS Unsub, FiniteSetTheorems, TLAPS

-----------------------------------------------------------------------------
\* How a goroutine moves.

Others(t) == \A u \in Targets \ {t} : work'[u] = work[u]

\* Replacing a goroutine's record moves that one only.
LEMMA MoveIs ==
  ASSUME WorkOK, NEW t \in Targets, NEW at, NEW how, NEW uri, NEW slot, NEW hops, NEW post,
         work' = [u \in Targets |->
                    IF u = t
                    THEN [at |-> at, how |-> how, uri |-> uri, slot |-> slot, hops |-> hops, post |-> post]
                    ELSE work[u]]
  PROVE  /\ WorkOK' /\ Others(t)
         /\ work'[t] = [at |-> at, how |-> how, uri |-> uri, slot |-> slot, hops |-> hops, post |-> post]
<1>1. ASSUME NEW u \in Targets
      PROVE  work'[u] = [at |-> work'[u].at, how |-> work'[u].how, uri |-> work'[u].uri,
                         slot |-> work'[u].slot, hops |-> work'[u].hops, post |-> work'[u].post]
  <2>1. CASE u = t
    BY <2>1
  <2>2. CASE u # t
    <3>1. work'[u] = work[u]
      BY <2>2
    <3>2. work[u] = [at |-> work[u].at, how |-> work[u].how, uri |-> work[u].uri,
                     slot |-> work[u].slot, hops |-> work[u].hops, post |-> work[u].post]
      BY DEF WorkOK
    <3> QED BY <3>1, <3>2
  <2> QED BY <2>1, <2>2
<1>2. WorkOK'
  BY <1>1 DEF WorkOK
<1> QED BY <1>2 DEF Others

\* Updates of a goroutine's record, one field at a time.
LEMMA SetAt ==
  ASSUME NEW w, NEW x,
         w = [at |-> w.at, how |-> w.how, uri |-> w.uri, slot |-> w.slot, hops |-> w.hops, post |-> w.post]
  PROVE  [w EXCEPT !.at = x]
           = [at |-> x, how |-> w.how, uri |-> w.uri, slot |-> w.slot, hops |-> w.hops, post |-> w.post]
OBVIOUS

LEMMA SetHow ==
  ASSUME NEW w, NEW x,
         w = [at |-> w.at, how |-> w.how, uri |-> w.uri, slot |-> w.slot, hops |-> w.hops, post |-> w.post]
  PROVE  [w EXCEPT !.how = x]
           = [at |-> w.at, how |-> x, uri |-> w.uri, slot |-> w.slot, hops |-> w.hops, post |-> w.post]
OBVIOUS

LEMMA SetUri ==
  ASSUME NEW w, NEW x,
         w = [at |-> w.at, how |-> w.how, uri |-> w.uri, slot |-> w.slot, hops |-> w.hops, post |-> w.post]
  PROVE  [w EXCEPT !.uri = x]
           = [at |-> w.at, how |-> w.how, uri |-> x, slot |-> w.slot, hops |-> w.hops, post |-> w.post]
OBVIOUS

LEMMA SetPost ==
  ASSUME NEW w, NEW x,
         w = [at |-> w.at, how |-> w.how, uri |-> w.uri, slot |-> w.slot, hops |-> w.hops, post |-> w.post]
  PROVE  [w EXCEPT !.post = x]
           = [at |-> w.at, how |-> w.how, uri |-> w.uri, slot |-> w.slot, hops |-> w.hops, post |-> x]
OBVIOUS

LEMMA SetSlot ==
  ASSUME NEW w, NEW x,
         w = [at |-> w.at, how |-> w.how, uri |-> w.uri, slot |-> w.slot, hops |-> w.hops, post |-> w.post]
  PROVE  [w EXCEPT !.slot = x]
           = [at |-> w.at, how |-> w.how, uri |-> w.uri, slot |-> x, hops |-> w.hops, post |-> w.post]
OBVIOUS

LEMMA GotoIs ==
  ASSUME WorkOK, NEW t \in Targets, NEW stage, Goto(t, stage)
  PROVE  /\ WorkOK' /\ Others(t)
         /\ work'[t].at = stage /\ work'[t].how = work[t].how /\ work'[t].uri = work[t].uri
         /\ work'[t].slot = work[t].slot /\ work'[t].hops = work[t].hops
         /\ work'[t].post = work[t].post
<1> DEFINE w == work[t]
<1>1. work = [u \in Targets |-> work[u]]
      /\ w = [at |-> w.at, how |-> w.how, uri |-> w.uri, slot |-> w.slot, hops |-> w.hops, post |-> w.post]
  BY DEF WorkOK
<1>2. work' = [u \in Targets |->
                 IF u = t
                 THEN [at |-> stage, how |-> w.how, uri |-> w.uri, slot |-> w.slot,
                       hops |-> w.hops, post |-> w.post]
                 ELSE work[u]]
  BY <1>1 DEF Goto
<1> HIDE DEF w
<1>3. /\ WorkOK' /\ Others(t)
      /\ work'[t] = [at |-> stage, how |-> w.how, uri |-> w.uri, slot |-> w.slot,
                     hops |-> w.hops, post |-> w.post]
  BY <1>2, MoveIs
<1> QED BY <1>3 DEF w

LEMMA ReturnIs ==
  ASSUME WorkOK, NEW t \in Targets, NEW r, Return(t, r)
  PROVE  /\ WorkOK' /\ Others(t) /\ work'[t].at = "done" /\ work'[t].post = NoResult
         /\ work'[t].how = "none" /\ work'[t].slot = 0 /\ work'[t].hops = 0
<1>1. work = [u \in Targets |-> work[u]]
  BY DEF WorkOK
<1>2. work' = [u \in Targets |->
                 IF u = t
                 THEN [at |-> "done", how |-> "none", uri |-> NoUri, slot |-> 0, hops |-> 0, post |-> NoResult]
                 ELSE work[u]]
  BY <1>1 DEF Return, NotStarted
<1>3. /\ WorkOK' /\ Others(t)
      /\ work'[t] = [at |-> "done", how |-> "none", uri |-> NoUri, slot |-> 0, hops |-> 0, post |-> NoResult]
  BY <1>2, MoveIs
<1> QED BY <1>3

LEMMA BeginIs ==
  ASSUME WorkOK, NEW t \in Targets, NEW how, NEW uri, NEW stage, Begin(t, how, uri, stage)
  PROVE  /\ WorkOK' /\ Others(t)
         /\ work'[t].at = stage /\ work'[t].how = how /\ work'[t].slot = work[t].slot
         /\ work'[t].hops = work[t].hops /\ work'[t].post = work[t].post
<1> DEFINE w == work[t]
<1>1. work = [u \in Targets |-> work[u]]
      /\ w = [at |-> w.at, how |-> w.how, uri |-> w.uri, slot |-> w.slot, hops |-> w.hops, post |-> w.post]
  BY DEF WorkOK
<1>2. work' = [u \in Targets |->
                 IF u = t
                 THEN [at |-> stage, how |-> how, uri |-> uri, slot |-> w.slot,
                       hops |-> w.hops, post |-> w.post]
                 ELSE work[u]]
  <2> DEFINE v1 == [w EXCEPT !.at = stage]
             v2 == [v1 EXCEPT !.how = how]
             v3 == [v2 EXCEPT !.uri = uri]
  <2>1. work' = [work EXCEPT ![t] = v3]
    BY <1>1 DEF Begin
  <2> HIDE DEF w
  <2>2. v1 = [at |-> stage, how |-> w.how, uri |-> w.uri, slot |-> w.slot, hops |-> w.hops, post |-> w.post]
    BY <1>1, SetAt
  <2> HIDE DEF v1
  <2>3. v2 = [at |-> stage, how |-> how, uri |-> w.uri, slot |-> w.slot, hops |-> w.hops, post |-> w.post]
    BY <2>2, SetHow
  <2> HIDE DEF v2
  <2>4. v3 = [at |-> stage, how |-> how, uri |-> uri, slot |-> w.slot, hops |-> w.hops, post |-> w.post]
    BY <2>3, SetUri
  <2> HIDE DEF v3
  <2> QED BY <1>1, <2>1, <2>4
<1> HIDE DEF w
<1>3. /\ WorkOK' /\ Others(t)
      /\ work'[t] = [at |-> stage, how |-> how, uri |-> uri, slot |-> w.slot,
                     hops |-> w.hops, post |-> w.post]
  BY <1>2, MoveIs
<1> QED BY <1>3 DEF w

\* An attempt ends the goroutine, or is a redirected POST that a GET follows.
LEMMA AttemptedIs ==
  ASSUME WorkOK, NEW t \in Targets, NEW r, Attempted(t, r)
  PROVE  /\ WorkOK' /\ Others(t)
         /\ \/ /\ work'[t].at = "done" /\ work'[t].post = NoResult
               /\ work'[t].how = "none" /\ work'[t].slot = 0 /\ work'[t].hops = 0
               /\ \/ results' = [results EXCEPT ![t] = r]
                  \/ /\ work[t].post # NoResult /\ r.status = "failed"
                     /\ results' = [results EXCEPT ![t] = work[t].post]
            \/ /\ r.how = "oneclick" /\ r.code = "3xx" /\ UNCHANGED results
               /\ work'[t].at = "check" /\ work'[t].how = "http" /\ work'[t].hops = work[t].hops
               /\ work'[t].slot = work[t].slot /\ work'[t].post = r
<1>1. CASE \/ Return(t, r)
           \/ work[t].post # NoResult /\ r.status = "failed" /\ Return(t, work[t].post)
  BY <1>1, ReturnIs DEF Return
<1>2. CASE FallsBack(t, r) /\ UNCHANGED results /\ work' = [work EXCEPT ![t].at = "check", ![t].how = "http", ![t].post = r]
  <2> DEFINE w == work[t]
  <2>1. work = [u \in Targets |-> work[u]]
        /\ w = [at |-> w.at, how |-> w.how, uri |-> w.uri, slot |-> w.slot, hops |-> w.hops, post |-> w.post]
    BY DEF WorkOK
  <2>2. work' = [u \in Targets |->
                   IF u = t
                   THEN [at |-> "check", how |-> "http", uri |-> w.uri, slot |-> w.slot,
                         hops |-> w.hops, post |-> r]
                   ELSE work[u]]
    <3> DEFINE v1 == [w EXCEPT !.at = "check"]
               v2 == [v1 EXCEPT !.how = "http"]
               v3 == [v2 EXCEPT !.post = r]
    <3>1. work' = [work EXCEPT ![t] = v3]
      BY <1>2, <2>1
    <3> HIDE DEF w
    <3>2. v1 = [at |-> "check", how |-> w.how, uri |-> w.uri, slot |-> w.slot, hops |-> w.hops, post |-> w.post]
      BY <2>1, SetAt
    <3> HIDE DEF v1
    <3>3. v2 = [at |-> "check", how |-> "http", uri |-> w.uri, slot |-> w.slot, hops |-> w.hops, post |-> w.post]
      BY <3>2, SetHow
    <3> HIDE DEF v2
    <3>4. v3 = [at |-> "check", how |-> "http", uri |-> w.uri, slot |-> w.slot, hops |-> w.hops, post |-> r]
      BY <3>3, SetPost
    <3> HIDE DEF v3
    <3> QED BY <2>1, <3>1, <3>4
  <2> HIDE DEF w
  <2>3. /\ WorkOK' /\ Others(t)
        /\ work'[t] = [at |-> "check", how |-> "http", uri |-> w.uri, slot |-> w.slot,
                       hops |-> w.hops, post |-> r]
    BY <2>2, MoveIs
  <2> QED BY <1>2, <2>3 DEF w, FallsBack
<1> QED BY <1>1, <1>2 DEF Attempted

LEMMA FailedIs ==
  ASSUME WorkOK, NEW t \in Targets, NEW code, Failed(t, code)
  PROVE  /\ WorkOK' /\ Others(t)
         /\ \/ work'[t].at = "done"
            \/ /\ work[t].how = "oneclick" /\ code = "3xx"
               /\ work'[t].at = "check" /\ work'[t].how = "http" /\ work'[t].hops = work[t].hops
<1>1. Attempted(t, Result("failed", work[t].how, code))
  BY DEF Failed
<1>2. /\ Result("failed", work[t].how, code).how = work[t].how
      /\ Result("failed", work[t].how, code).code = code
  BY DEF Result
<1> QED BY <1>1, <1>2, AttemptedIs

TakesSlot(t, stage, slot) == work' = [work EXCEPT ![t].at = stage, ![t].slot = slot]
LEMMA ReserveIs ==
  ASSUME WorkOK, NEW t \in Targets, NEW stage, NEW slot, TakesSlot(t, stage, slot)
  PROVE  /\ WorkOK' /\ Others(t)
         /\ work'[t].at = stage /\ work'[t].how = work[t].how /\ work'[t].uri = work[t].uri
         /\ work'[t].slot = slot /\ work'[t].hops = work[t].hops /\ work'[t].post = work[t].post
<1> DEFINE w == work[t]
           v1 == [w EXCEPT !.at = stage]
           v2 == [v1 EXCEPT !.slot = slot]
<1>1. work = [u \in Targets |-> work[u]]
      /\ w = [at |-> w.at, how |-> w.how, uri |-> w.uri, slot |-> w.slot, hops |-> w.hops, post |-> w.post]
  BY DEF WorkOK
<1>2. work' = [work EXCEPT ![t] = v2]
  BY <1>1 DEF TakesSlot
<1> HIDE DEF w
<1>3. v1 = [at |-> stage, how |-> w.how, uri |-> w.uri, slot |-> w.slot, hops |-> w.hops, post |-> w.post]
  BY <1>1, SetAt
<1> HIDE DEF v1
<1>4. v2 = [at |-> stage, how |-> w.how, uri |-> w.uri, slot |-> slot, hops |-> w.hops, post |-> w.post]
  BY <1>3, SetSlot
<1> HIDE DEF v2
<1>5. work' = [u \in Targets |->
                 IF u = t
                 THEN [at |-> stage, how |-> w.how, uri |-> w.uri, slot |-> slot,
                       hops |-> w.hops, post |-> w.post]
                 ELSE work[u]]
  BY <1>1, <1>2, <1>4
<1>6. /\ WorkOK' /\ Others(t)
      /\ work'[t] = [at |-> stage, how |-> w.how, uri |-> w.uri, slot |-> slot,
                     hops |-> w.hops, post |-> w.post]
  BY <1>5, MoveIs
<1> QED BY <1>6 DEF w

Hops(t) == work' = [work EXCEPT ![t].hops = @ + 1]
LEMMA HopIs ==
  ASSUME WorkOK, NEW t \in Targets, Hops(t)
  PROVE  /\ WorkOK' /\ Others(t)
         /\ work'[t].at = work[t].at /\ work'[t].how = work[t].how /\ work'[t].uri = work[t].uri
         /\ work'[t].slot = work[t].slot /\ work'[t].hops = work[t].hops + 1
         /\ work'[t].post = work[t].post
<1> DEFINE w == work[t]
<1>1. work = [u \in Targets |-> work[u]]
      /\ w = [at |-> w.at, how |-> w.how, uri |-> w.uri, slot |-> w.slot, hops |-> w.hops, post |-> w.post]
  BY DEF WorkOK
<1>2. work' = [u \in Targets |->
                 IF u = t
                 THEN [at |-> w.at, how |-> w.how, uri |-> w.uri, slot |-> w.slot,
                       hops |-> w.hops + 1, post |-> w.post]
                 ELSE work[u]]
  BY <1>1 DEF Hops
<1> HIDE DEF w
<1>3. /\ WorkOK' /\ Others(t)
      /\ work'[t] = [at |-> w.at, how |-> w.how, uri |-> w.uri, slot |-> w.slot,
                     hops |-> w.hops + 1, post |-> w.post]
  BY <1>2, MoveIs
<1> QED BY <1>3 DEF w

LEMMA KeySame ==
  ASSUME NEW v, NEW w, v.how = w.how, v.uri = w.uri
  PROVE  KeyOf(v) = KeyOf(w)
BY DEF KeyOf, HostKey

-----------------------------------------------------------------------------
\* What groups of steps have in common.

Frame == UNCHANGED <<now, limiters, requests>>

\* A step that reserves nothing and sends nothing.
LEMMA QuietStep ==
  ASSUME ClockOK, PacedOK, SlotsApart, NEW t \in Targets, Others(t), Frame,
         Reserved(t)' => /\ Reserved(t) /\ KeyOf(work'[t]) = KeyOf(work[t])
                         /\ work'[t].slot = work[t].slot,
         work'[t].at # "sent", work'[t].at \in {"acquire", "send"} => work'[t].slot <= now
  PROVE  ClockOK' /\ PacedOK' /\ SlotsApart'
<1>1. ASSUME NEW u \in Targets, u # t
      PROVE  work'[u] = work[u]
  BY <1>1 DEF Others
<1>2. UNCHANGED <<now, limiters, requests, FirstHops>>
  BY DEF Frame, FirstHops
<1>3. ASSUME NEW u \in Targets, Reserved(u)'
      PROVE  Reserved(u) /\ KeyOf(work'[u]) = KeyOf(work[u]) /\ work'[u].slot = work[u].slot
  BY <1>1, <1>3 DEF Reserved
<1>4. PacedOK'
  BY <1>2, <1>3 DEF PacedOK
<1>5. SlotsApart'
  BY <1>2 DEF SlotsApart
<1>6. ASSUME NEW u \in Targets
      PROVE  /\ (Reserved(u) \/ At(u, "sent"))' => work'[u].slot \in Nat
             /\ work'[u].at \in {"acquire", "send", "sent"} => work'[u].slot <= now
             /\ Reserved(u)' => /\ KeyOf(work'[u]) \in DOMAIN limiters
                               /\ work'[u].slot + Interval <= limiters[KeyOf(work'[u])]
  <2>1. CASE u # t
    BY <1>1, <2>1 DEF ClockOK, Reserved, At
  <2>2. CASE u = t
    BY <1>3, <2>2 DEF ClockOK, Reserved, At
  <2> QED BY <2>1, <2>2
<1>7. ClockOK'
  BY <1>2, <1>6 DEF ClockOK
<1> QED BY <1>4, <1>5, <1>7

\* A step that sends nothing.
LEMMA SilentStep ==
  ASSUME AskedOK, AskedOnce, NEW t \in Targets, Others(t), UNCHANGED requests,
         answers \subseteq answers', AskedAt(t)'
  PROVE  AskedOK' /\ AskedOnce'
<1>1. ASSUME NEW u \in Targets, u # t
      PROVE  AskedAt(u)'
  <2>1. work'[u] = work[u] /\ AskedAt(u)
    BY <1>1 DEF Others, AskedOK
  <2> QED BY <2>1 DEF AskedAt, At, Own, AsksAgain
<1>2. AskedOK'
  BY <1>1 DEF AskedOK
<1>3. AskedOnce'
  BY DEF AskedOnce
<1> QED BY <1>2, <1>3

\* Tokens: nobody, one more or one less goroutine holds one.
LEMMA HoldersFinite ==
  ASSUME InFlight
  PROVE  IsFiniteSet(Holders) /\ sem \in Nat /\ MaxInFlight \in Nat
<1>1. Holders \in SUBSET Targets
  BY DEF Holders
<1>2. IsFiniteSet(Holders)
  BY <1>1, UnsubAssumption, FS_Subset
<1> QED BY <1>2, FS_CardinalityType, UnsubAssumption DEF InFlight

LEMMA SameHolders ==
  ASSUME InFlight, NEW t \in Targets, Others(t), UNCHANGED sem,
         work[t].at \in {"send", "sent"} <=> work'[t].at \in {"send", "sent"}
  PROVE  InFlight'
<1>1. Holders' = Holders
  BY DEF Holders, Others
<1> QED BY <1>1 DEF InFlight

LEMMA OneMore ==
  ASSUME InFlight, NEW t \in Targets, Others(t), sem < MaxInFlight, sem' = sem + 1,
         work[t].at \notin {"send", "sent"}, work'[t].at \in {"send", "sent"}
  PROVE  InFlight'
<1>1. Holders' = Holders \cup {t} /\ t \notin Holders
  BY DEF Holders, Others
<1>2. Cardinality(Holders') = Cardinality(Holders) + 1
  BY <1>1, HoldersFinite, FS_AddElement
<1> QED BY <1>2, HoldersFinite DEF InFlight

LEMMA OneLess ==
  ASSUME InFlight, NEW t \in Targets, Others(t), sem' = sem - 1,
         work[t].at \in {"send", "sent"}, work'[t].at \notin {"send", "sent"}
  PROVE  InFlight'
<1>1. Holders' = Holders \ {t} /\ t \in Holders
  BY DEF Holders, Others
<1>2. Cardinality(Holders') = Cardinality(Holders) - 1
  BY <1>1, HoldersFinite, FS_RemoveElement
<1> QED BY <1>2, HoldersFinite DEF InFlight

-----------------------------------------------------------------------------
\* One lemma per action.

Calm == WorkOK /\ ClockOK /\ PacedOK /\ AskedOK /\ SlotsApart /\ AskedOnce

\* A goroutine that is done.
LEMMA DoneStep ==
  ASSUME Calm, NEW t \in Targets, WorkOK', Others(t), Frame, answers \subseteq answers',
         work'[t].at = "done"
  PROVE  Calm'
<1>1. AskedAt(t)'
  BY DEF AskedAt, At
<1>2. UNCHANGED requests
  BY DEF Frame
<1>3. ~Reserved(t)'
  BY DEF Reserved
<1>4. ClockOK' /\ PacedOK' /\ SlotsApart'
  BY <1>3, QuietStep DEF Calm
<1>5. AskedOK' /\ AskedOnce'
  BY <1>1, <1>2, SilentStep DEF Calm
<1> QED BY <1>4, <1>5 DEF Calm

\* Steps of a goroutine before its request, that keep the slot it has.
LEMMA NextStage ==
  ASSUME Calm, NEW t \in Targets, WorkOK', Others(t), Frame, UNCHANGED answers,
         work[t].at \in {"check", "throttle", "sleep", "acquire"},
         work'[t].at \in {"check", "throttle", "acquire", "send"},
         work'[t].how = work[t].how, work'[t].uri = work[t].uri,
         work'[t].slot = work[t].slot, work'[t].hops = work[t].hops,
         Reserved(t)' => Reserved(t) /\ work[t].slot <= now
  PROVE  Calm'
<1>1. UNCHANGED requests
  BY DEF Frame
<1>2. AskedAt(t)'
  <2>1. AskedAt(t)
    BY DEF Calm, AskedOK
  <2> QED BY <1>1, <2>1 DEF AskedAt, At, Own, AsksAgain
<1>3. KeyOf(work'[t]) = KeyOf(work[t])
  BY KeySame
<1>4. work'[t].at \in {"acquire", "send"} => work'[t].slot <= now
  BY DEF Reserved
<1>5. ClockOK' /\ PacedOK' /\ SlotsApart'
  BY <1>3, <1>4, QuietStep DEF Calm
<1>6. AskedOK' /\ AskedOnce'
  BY <1>1, <1>2, SilentStep DEF Calm
<1> QED BY <1>5, <1>6 DEF Calm

LEMMA StartStep ==
  ASSUME UnsubInv, NEW t \in Targets, Start(t)
  PROVE  UnsubInv'
<1>1. Calm /\ InFlight /\ WorkOK
  BY DEF UnsubInv, Calm
<1>2. Frame /\ UNCHANGED <<answers, sem>> /\ work[t].at = "start" /\ ~Reserved(t)
  BY DEF Start, Frame, At, Reserved
<1>3. CASE \E r : Return(t, r)
  <2>1. WorkOK' /\ Others(t) /\ work'[t].at = "done"
    BY <1>1, <1>3, ReturnIs
  <2>2. Calm'
    BY <1>1, <1>2, <2>1, DoneStep
  <2>3. InFlight'
    BY <1>1, <1>2, <2>1, SameHolders
  <2> QED BY <2>2, <2>3 DEF UnsubInv, Calm
<1>4. CASE \E how, uri : \E stage \in {"check", "throttle"} : Begin(t, how, uri, stage)
  <2>1. /\ WorkOK' /\ Others(t) /\ work'[t].hops = work[t].hops
        /\ work'[t].at \in {"check", "throttle"}
    BY <1>1, <1>4, BeginIs
  <2>2. AskedAt(t)'
    <3>1. AskedAt(t)
      BY <1>1 DEF Calm, AskedOK
    <3>2. Own(t)' = {} /\ work'[t].hops = 0
      BY <1>2, <2>1, <3>1 DEF AskedAt, At, Own, Frame
    <3> QED BY <2>1, <3>2 DEF AskedAt, At
  <2>3. ClockOK' /\ PacedOK' /\ SlotsApart'
    <3>1. ~Reserved(t)' /\ work'[t].at \notin {"acquire", "send", "sent"}
      BY <2>1 DEF Reserved
    <3> QED BY <1>1, <1>2, <2>1, <3>1, QuietStep DEF Calm
  <2>4. AskedOK' /\ AskedOnce'
    BY <1>1, <1>2, <2>1, <2>2, SilentStep DEF Calm, Frame
  <2>5. InFlight'
    BY <1>1, <1>2, <2>1, SameHolders
  <2> QED BY <2>1, <2>3, <2>4, <2>5 DEF UnsubInv
<1> QED BY <1>3, <1>4 DEF Start, StartMail

LEMMA CheckHostStep ==
  ASSUME UnsubInv, NEW t \in Targets, CheckHost(t)
  PROVE  UnsubInv'
<1>1. Calm /\ InFlight /\ WorkOK
  BY DEF UnsubInv, Calm
<1>2. Frame /\ UNCHANGED <<answers, sem>> /\ work[t].at = "check"
  BY DEF CheckHost, Frame, At
<1>3. CASE Goto(t, "throttle")
  <2>1. WorkOK' /\ Others(t) /\ work'[t].at = "throttle"
    BY <1>1, <1>3, GotoIs
  <2>2. Calm'
    BY <1>1, <1>2, <1>3, <2>1, GotoIs, NextStage DEF Reserved
  <2> QED BY <1>1, <1>2, <2>1, <2>2, SameHolders DEF UnsubInv, Calm
<1>4. CASE Failed(t, "none")
  <2>1. WorkOK' /\ Others(t) /\ work'[t].at = "done"
    BY <1>1, <1>4, FailedIs
  <2>2. Calm'
    BY <1>1, <1>2, <2>1, DoneStep
  <2> QED BY <1>1, <1>2, <2>1, <2>2, SameHolders DEF UnsubInv, Calm
<1> QED BY <1>3, <1>4 DEF CheckHost

\* The end of a goroutine that holds no token.
LEMMA FailsOutside ==
  ASSUME UnsubInv, NEW t \in Targets, Failed(t, "none"), Frame, UNCHANGED <<answers, sem>>,
         work[t].at \notin {"send", "sent"}
  PROVE  UnsubInv'
<1>1. Calm /\ InFlight /\ WorkOK
  BY DEF UnsubInv, Calm
<1>2. WorkOK' /\ Others(t) /\ work'[t].at = "done"
  BY <1>1, FailedIs
<1>3. Calm'
  BY <1>1, <1>2, DoneStep
<1> QED BY <1>1, <1>2, <1>3, SameHolders DEF UnsubInv, Calm

LEMMA SleepStep ==
  ASSUME UnsubInv, NEW t \in Targets, Sleep(t)
  PROVE  UnsubInv'
<1>1. Calm /\ InFlight /\ WorkOK
  BY DEF UnsubInv, Calm
<1>2. Frame /\ UNCHANGED <<answers, sem>> /\ work[t].at = "sleep"
  BY DEF Sleep, Frame, At
<1>3. CASE now >= work[t].slot /\ Goto(t, "acquire")
  <2>1. WorkOK' /\ Others(t) /\ work'[t].at = "acquire"
    BY <1>1, <1>3, GotoIs
  <2>2. now \in Nat /\ work[t].slot \in Nat /\ Reserved(t)
    BY <1>1, <1>2 DEF Calm, ClockOK, Reserved
  <2>3. work[t].slot <= now
    BY <1>3, <2>2
  <2>4. Calm'
    BY <1>1, <1>2, <1>3, <2>1, <2>2, <2>3, GotoIs, NextStage
  <2> QED BY <1>1, <1>2, <2>1, <2>4, SameHolders DEF UnsubInv, Calm
<1>4. CASE Failed(t, "none")
  BY <1>2, <1>4, FailsOutside
<1> QED BY <1>3, <1>4 DEF Sleep

LEMMA AcquireStep ==
  ASSUME UnsubInv, NEW t \in Targets, AcquireSem(t)
  PROVE  UnsubInv'
<1>1. Calm /\ InFlight /\ WorkOK
  BY DEF UnsubInv, Calm
<1>2. Frame /\ UNCHANGED answers /\ work[t].at = "acquire"
  BY DEF AcquireSem, Frame, At
<1>3. CASE sem < MaxInFlight /\ sem' = sem + 1 /\ Goto(t, "send")
  <2>1. WorkOK' /\ Others(t) /\ work'[t].at = "send"
    BY <1>1, <1>3, GotoIs
  <2>2. work[t].slot <= now /\ Reserved(t)
    BY <1>1, <1>2 DEF Calm, ClockOK, Reserved
  <2>3. Calm'
    BY <1>1, <1>2, <1>3, <2>1, <2>2, GotoIs, NextStage
  <2> QED BY <1>1, <1>2, <1>3, <2>1, <2>3, OneMore DEF UnsubInv, Calm
<1>4. CASE Failed(t, "none") /\ UNCHANGED sem
  BY <1>2, <1>4, FailsOutside
<1> QED BY <1>3, <1>4 DEF AcquireSem

\* A slot is not before the bucket's next one, and the bucket's next one is then
\* an interval behind it.
LEMMA SlotIs ==
  ASSUME ClockOK, NEW key
  PROVE  /\ SlotFor(key) \in Nat
         /\ key \in DOMAIN limiters => limiters[key] <= SlotFor(key)
         /\ DOMAIN Taken(key) = DOMAIN limiters \cup {key}
         /\ Taken(key)[key] = SlotFor(key) + Interval
         /\ \A k \in DOMAIN limiters : Taken(key)[k] \in Nat /\ limiters[k] <= Taken(key)[k]
<1>1. now \in Nat /\ Interval \in Nat /\ \A k \in DOMAIN limiters : limiters[k] \in Nat
  BY UnsubAssumption DEF ClockOK
<1>2. NextSlot(key) \in Nat /\ (key \in DOMAIN limiters => NextSlot(key) = limiters[key])
  BY <1>1 DEF NextSlot
<1>3. SlotFor(key) \in Nat /\ NextSlot(key) <= SlotFor(key)
  BY <1>1, <1>2 DEF SlotFor
<1> HIDE DEF SlotFor
<1> QED BY <1>1, <1>2, <1>3 DEF Taken

LEMMA ReserveStep ==
  ASSUME UnsubInv, NEW t \in Targets, At(t, "throttle"), Reserve(t),
         UNCHANGED <<now, sem, requests, answers>>
  PROVE  UnsubInv'
<1> DEFINE key == KeyOf(work[t])
           slot == SlotFor(key)
           stage == IF slot > now THEN "sleep" ELSE "acquire"
<1>1. Calm /\ InFlight /\ WorkOK /\ ClockOK /\ PacedOK /\ work[t].at = "throttle"
  BY DEF UnsubInv, Calm, At
<1>2. limiters' = Taken(key) /\ work' = [work EXCEPT ![t].at = stage, ![t].slot = slot]
  BY DEF Reserve
<1>3. /\ slot \in Nat /\ (key \in DOMAIN limiters => limiters[key] <= slot)
      /\ DOMAIN limiters' = DOMAIN limiters \cup {key} /\ limiters'[key] = slot + Interval
      /\ \A k \in DOMAIN limiters :
           limiters[k] \in Nat /\ limiters'[k] \in Nat /\ limiters[k] <= limiters'[k]
  BY <1>1, <1>2, SlotIs DEF ClockOK
<1>4. /\ WorkOK' /\ Others(t)
      /\ work'[t].at = stage /\ work'[t].how = work[t].how /\ work'[t].uri = work[t].uri
      /\ work'[t].slot = slot /\ work'[t].hops = work[t].hops
  <2>1. TakesSlot(t, stage, slot)
    BY <1>2 DEF TakesSlot
  <2> QED BY <1>1, <2>1, ReserveIs
<1>5. KeyOf(work'[t]) = key
  BY <1>4, KeySame
<1>6. now \in Nat /\ Interval \in Nat
  BY <1>1, UnsubAssumption DEF ClockOK
<1>7. stage \in {"sleep", "acquire"} /\ (stage = "acquire" => slot <= now)
  BY <1>3, <1>6
<1> HIDE DEF key, slot, stage
<1>8. ASSUME NEW u \in Targets, u # t
      PROVE  work'[u] = work[u]
  BY <1>4, <1>8 DEF Others
\* Goroutines that reserved before, and requests that went out.
<1>9. ASSUME NEW u \in Targets, u # t, Reserved(u)
      PROVE  /\ work[u].slot \in Nat /\ KeyOf(work[u]) \in DOMAIN limiters
             /\ work[u].slot + Interval <= limiters[KeyOf(work[u])]
  BY <1>1, <1>9 DEF ClockOK
<1>10. ASSUME NEW r \in FirstHops
       PROVE  r.slot \in Nat /\ r.key \in DOMAIN limiters /\ r.slot + Interval <= limiters[r.key]
  BY <1>1, <1>10 DEF ClockOK, FirstHops
<1>11. FirstHops' = FirstHops
  BY DEF FirstHops
<1>12. ClockOK'
  <2>1. ASSUME NEW u \in Targets
        PROVE  /\ (Reserved(u) \/ At(u, "sent"))' => work'[u].slot \in Nat
               /\ work'[u].at \in {"acquire", "send", "sent"} => work'[u].slot <= now
               /\ Reserved(u)' => /\ KeyOf(work'[u]) \in DOMAIN limiters'
                                 /\ work'[u].slot + Interval <= limiters'[KeyOf(work'[u])]
    <3>1. CASE u = t
      BY <1>3, <1>4, <1>5, <1>6, <1>7, <3>1
    <3>2. CASE u # t
      <4>1. work'[u] = work[u]
        BY <1>8, <3>2
      <4>2. /\ Reserved(u) \/ At(u, "sent") => work[u].slot \in Nat
            /\ work[u].at \in {"acquire", "send", "sent"} => work[u].slot <= now
        BY <1>1 DEF ClockOK
      <4>3. Reserved(u) => /\ KeyOf(work[u]) \in DOMAIN limiters'
                           /\ work[u].slot + Interval <= limiters'[KeyOf(work[u])]
        BY <1>3, <1>6, <1>9, <3>2
      <4> QED BY <4>1, <4>2, <4>3 DEF Reserved, At
    <3> QED BY <3>1, <3>2
  <2>2. \A r \in FirstHops : r.key \in DOMAIN limiters' /\ r.slot + Interval <= limiters'[r.key]
    BY <1>3, <1>6, <1>10
  <2>3. \A k \in DOMAIN limiters' : limiters'[k] \in Nat
    BY <1>3, <1>6
  <2> QED BY <1>1, <1>11, <2>1, <2>2, <2>3 DEF ClockOK
<1>13. PacedOK'
  <2>1. ASSUME NEW u \in Targets, u # t, Reserved(u), KeyOf(work[u]) = key
        PROVE  Apart(work[u].slot, slot) /\ Apart(slot, work[u].slot)
    BY <1>3, <1>6, <1>9, <2>1 DEF Apart
  <2>2. ASSUME NEW r \in FirstHops, key = r.key
        PROVE  Apart(slot, r.slot)
    BY <1>3, <1>6, <1>10, <2>2 DEF Apart
  <2>3. ASSUME NEW u \in Targets, NEW v \in Targets, Reserved(u)', Reserved(v)', u # v,
               KeyOf(work'[u]) = KeyOf(work'[v])
        PROVE  Apart(work'[u].slot, work'[v].slot)
    <3>1. CASE u = t
      BY <1>4, <1>5, <1>8, <2>1, <2>3, <3>1 DEF Reserved
    <3>2. CASE v = t
      BY <1>4, <1>5, <1>8, <2>1, <2>3, <3>2 DEF Reserved
    <3>3. CASE u # t /\ v # t
      BY <1>1, <1>8, <2>3, <3>3 DEF Reserved, PacedOK
    <3> QED BY <3>1, <3>2, <3>3
  <2>4. ASSUME NEW u \in Targets, NEW r \in FirstHops, Reserved(u)', KeyOf(work'[u]) = r.key
        PROVE  Apart(work'[u].slot, r.slot)
    <3>1. CASE u = t
      BY <1>4, <1>5, <2>2, <2>4, <3>1
    <3>2. CASE u # t
      BY <1>1, <1>8, <2>4, <3>2 DEF Reserved, PacedOK
    <3> QED BY <3>1, <3>2
  <2> QED BY <1>11, <2>3, <2>4 DEF PacedOK
<1>14. SlotsApart'
  BY <1>1 DEF Calm, SlotsApart
<1>15. AskedOK' /\ AskedOnce'
  <2>1. AskedAt(t)
    BY <1>1 DEF Calm, AskedOK
  <2>2. AskedAt(t)'
    BY <1>1, <1>4, <1>7, <2>1 DEF AskedAt, At, Own, AsksAgain
  <2> QED BY <1>1, <1>4, <2>2, SilentStep DEF Calm
<1>16. InFlight'
  BY <1>1, <1>4, <1>7, SameHolders
<1> QED BY <1>4, <1>12, <1>13, <1>14, <1>15, <1>16 DEF UnsubInv

LEMMA ThrottleStep ==
  ASSUME UnsubInv, NEW t \in Targets, Throttle(t)
  PROVE  UnsubInv'
<1>1. CASE Reserve(t)
  BY <1>1, ReserveStep DEF Throttle
<1>2. CASE Failed(t, "none") /\ UNCHANGED limiters
  BY <1>2, FailsOutside DEF Throttle, Frame, At
<1> QED BY <1>1, <1>2 DEF Throttle

\* The end of a goroutine that holds a token, unless a GET follows its POST.
LEMMA FailsInside ==
  ASSUME UnsubInv, NEW t \in Targets, Failed(t, "none"), Frame, answers \subseteq answers', ReleaseSem,
         work[t].at \in {"send", "sent"}
  PROVE  UnsubInv'
<1>1. Calm /\ InFlight /\ WorkOK
  BY DEF UnsubInv, Calm
<1>2. WorkOK' /\ Others(t) /\ work'[t].at = "done"
  BY <1>1, FailedIs
<1>3. Calm'
  BY <1>1, <1>2, DoneStep
<1>4. InFlight'
  BY <1>1, <1>2, OneLess DEF ReleaseSem
<1> QED BY <1>3, <1>4 DEF UnsubInv, Calm

\* A first request: its slot is due, and apart from those of all others.
LEMMA RequestStep ==
  ASSUME UnsubInv, NEW t \in Targets, At(t, "send"), Goto(t, "sent"),
         requests' = requests \cup {Request(t, 0, KeyOf(work[t]))},
         UNCHANGED <<now, sem, limiters, answers>>
  PROVE  UnsubInv'
<1> DEFINE q == Request(t, 0, KeyOf(work[t]))
<1>1. /\ WorkOK /\ ClockOK /\ PacedOK /\ AskedOK /\ SlotsApart /\ AskedOnce /\ InFlight
      /\ work[t].at = "send"
  BY DEF UnsubInv, At
<1>2. /\ WorkOK' /\ Others(t)
      /\ work'[t].at = "sent" /\ work'[t].how = work[t].how /\ work'[t].uri = work[t].uri
      /\ work'[t].slot = work[t].slot /\ work'[t].hops = work[t].hops
  BY <1>1, GotoIs
<1>3. /\ q.target = t /\ q.how = work[t].how /\ q.hop = 0 /\ q.key = KeyOf(work[t])
      /\ q.slot = work[t].slot /\ q.at = now
  BY DEF Request
<1>4. requests' = requests \cup {q}
  OBVIOUS
<1> HIDE DEF q
<1>5. FirstHops' = FirstHops \cup {q}
  BY <1>3, <1>4 DEF FirstHops
<1>6. /\ now \in Nat /\ Interval \in Nat /\ work[t].slot \in Nat /\ work[t].slot <= now
      /\ KeyOf(work[t]) \in DOMAIN limiters /\ work[t].slot + Interval <= limiters[KeyOf(work[t])]
      /\ Reserved(t)
  BY <1>1, UnsubAssumption DEF ClockOK, Reserved
<1>7. ASSUME NEW u \in Targets, u # t
      PROVE  work'[u] = work[u]
  BY <1>2, <1>7 DEF Others
<1>8. ASSUME NEW r \in FirstHops
      PROVE  r.slot \in Nat /\ (KeyOf(work[t]) = r.key => Apart(work[t].slot, r.slot))
  BY <1>1, <1>6, <1>8 DEF ClockOK, PacedOK, FirstHops
<1>9. ClockOK'
  <2>1. ASSUME NEW u \in Targets
        PROVE  /\ (Reserved(u) \/ At(u, "sent"))' => work'[u].slot \in Nat
               /\ work'[u].at \in {"acquire", "send", "sent"} => work'[u].slot <= now
               /\ Reserved(u)' => /\ KeyOf(work'[u]) \in DOMAIN limiters
                                 /\ work'[u].slot + Interval <= limiters[KeyOf(work'[u])]
    <3>1. CASE u = t
      BY <1>2, <1>6, <3>1 DEF Reserved
    <3>2. CASE u # t
      BY <1>1, <1>7, <3>2 DEF ClockOK, Reserved, At
    <3> QED BY <3>1, <3>2
  <2>2. \A r \in requests' : r.slot \in Nat /\ r.at \in Nat
    BY <1>1, <1>3, <1>4, <1>6 DEF ClockOK
  <2>3. \A r \in FirstHops' : r.key \in DOMAIN limiters /\ r.slot + Interval <= limiters[r.key]
    BY <1>1, <1>3, <1>5, <1>6 DEF ClockOK
  <2> QED BY <1>1, <2>1, <2>2, <2>3 DEF ClockOK
<1>10. PacedOK'
  <2>1. ASSUME NEW u \in Targets, Reserved(u)'
        PROVE  u # t /\ work'[u] = work[u] /\ Reserved(u)
    BY <1>2, <1>7, <2>1 DEF Reserved
  <2>2. ASSUME NEW u \in Targets, Reserved(u)', KeyOf(work[u]) = q.key
        PROVE  Apart(work[u].slot, q.slot)
    BY <1>1, <1>3, <1>6, <2>1, <2>2 DEF PacedOK
  <2>3. \A u \in Targets, r \in FirstHops' :
          Reserved(u)' /\ KeyOf(work'[u]) = r.key => Apart(work'[u].slot, r.slot)
    BY <1>1, <1>5, <2>1, <2>2 DEF PacedOK
  <2>4. \A u, v \in Targets :
          Reserved(u)' /\ Reserved(v)' /\ u # v /\ KeyOf(work'[u]) = KeyOf(work'[v])
            => Apart(work'[u].slot, work'[v].slot)
    BY <1>1, <2>1 DEF PacedOK
  <2> QED BY <2>3, <2>4 DEF PacedOK
<1>11. SlotsApart'
  <2>1. \A r \in requests' : r.at >= r.slot
    BY <1>1, <1>3, <1>4, <1>6 DEF SlotsApart
  <2>2. ASSUME NEW r \in FirstHops', NEW s \in FirstHops', r # s, r.key = s.key
        PROVE  r.slot - s.slot >= Interval \/ s.slot - r.slot >= Interval
    <3>1. CASE r \in FirstHops /\ s \in FirstHops
      BY <1>1, <2>2, <3>1 DEF SlotsApart, FirstHops
    <3>2. CASE r = q /\ s \in FirstHops
      BY <1>3, <1>8, <2>2, <3>2 DEF Apart
    <3>3. CASE s = q /\ r \in FirstHops
      BY <1>3, <1>8, <2>2, <3>3 DEF Apart
    <3> QED BY <1>5, <2>2, <3>1, <3>2, <3>3
  <2> QED BY <2>1, <2>2 DEF SlotsApart, FirstHops
<1>12. ASSUME NEW r \in requests, r.target = t
       PROVE  work[t].hops = 0 /\ r.how = "oneclick" /\ AsksAgain(t)
  BY <1>1, <1>12 DEF AskedOK, AskedAt, Own
<1>13. work[t].hops = 0
  BY <1>1 DEF AskedOK, AskedAt
<1>14. AskedOK'
  <2>1. ASSUME NEW u \in Targets, u # t
        PROVE  AskedAt(u)'
    <3>1. Own(u)' = Own(u) /\ work'[u] = work[u] /\ AskedAt(u)
      BY <1>1, <1>3, <1>4, <1>7, <2>1 DEF Own, AskedOK
    <3> QED BY <3>1 DEF AskedAt, At, AsksAgain
  <2>2. AskedAt(t)'
    <3>1. \A r \in Own(t)' : r = q \/ (r \in requests /\ r.target = t)
      BY <1>4 DEF Own
    <3> QED BY <1>2, <1>3, <1>12, <1>13, <3>1 DEF AskedAt, At, AsksAgain
  <2>3. \A r \in requests' : r.target \in Targets /\ r.hop \in Nat
    BY <1>1, <1>3, <1>4 DEF AskedOK
  <2> QED BY <2>1, <2>2, <2>3 DEF AskedOK
<1>15. AskedOnce'
  <2>1. ASSUME NEW r \in requests, r.target = q.target
        PROVE  r.how # q.how /\ [target |-> t, how |-> "oneclick", code |-> "3xx"] \in answers
    BY <1>3, <1>12, <2>1 DEF AsksAgain
  <2> QED BY <1>1, <1>3, <1>4, <2>1 DEF AskedOnce
<1>16. InFlight'
  BY <1>1, <1>2, SameHolders
<1> QED BY <1>2, <1>9, <1>10, <1>11, <1>14, <1>15, <1>16 DEF UnsubInv

LEMMA SendStep ==
  ASSUME UnsubInv, NEW t \in Targets, Send(t)
  PROVE  UnsubInv'
<1>1. CASE Goto(t, "sent") /\ requests' = requests \cup {Request(t, 0, KeyOf(work[t]))} /\ UNCHANGED sem
  BY <1>1, RequestStep DEF Send
<1>2. CASE Failed(t, "none") /\ ReleaseSem /\ UNCHANGED requests
  BY <1>2, FailsInside DEF Send, Frame, At
<1> QED BY <1>1, <1>2 DEF Send

\* A redirect is a request of the same goroutine, one hop further.
LEMMA RedirectedStep ==
  ASSUME UnsubInv, NEW t \in Targets, NEW host, Redirected(t, host)
  PROVE  UnsubInv'
<1> DEFINE q == Request(t, work[t].hops + 1, HostKey([host |-> host, port |-> 443]))
<1>1. /\ WorkOK /\ ClockOK /\ PacedOK /\ AskedOK /\ SlotsApart /\ AskedOnce /\ InFlight
      /\ work[t].at = "sent" /\ work[t].how = "http"
  BY DEF UnsubInv, Redirected, At
<1>2. /\ WorkOK' /\ Others(t)
      /\ work'[t].at = work[t].at /\ work'[t].how = work[t].how /\ work'[t].uri = work[t].uri
      /\ work'[t].slot = work[t].slot /\ work'[t].hops = work[t].hops + 1
  <2>1. Hops(t)
    BY DEF Redirected, Hops
  <2> QED BY <1>1, <2>1, HopIs
<1>3. /\ q.target = t /\ q.how = "http" /\ q.hop = work[t].hops + 1
      /\ q.slot = work[t].slot /\ q.at = now
  BY <1>1 DEF Request
<1>4. requests' = requests \cup {q} /\ UNCHANGED <<now, limiters, answers, sem>>
  BY DEF Redirected
<1> HIDE DEF q
<1>5. AskedAt(t) /\ work[t].hops \in Nat
  BY <1>1 DEF AskedOK, AskedAt, At
<1>6. FirstHops' = FirstHops
  BY <1>3, <1>4, <1>5 DEF FirstHops
<1>7. now \in Nat /\ work[t].slot \in Nat /\ work[t].slot <= now
  BY <1>1 DEF ClockOK, At
<1>8. ASSUME NEW u \in Targets, u # t
      PROVE  work'[u] = work[u]
  BY <1>2, <1>8 DEF Others
<1>9. ClockOK'
  <2>1. ASSUME NEW u \in Targets
        PROVE  /\ (Reserved(u) \/ At(u, "sent"))' => work'[u].slot \in Nat
               /\ work'[u].at \in {"acquire", "send", "sent"} => work'[u].slot <= now
               /\ Reserved(u)' => /\ KeyOf(work'[u]) \in DOMAIN limiters
                                 /\ work'[u].slot + Interval <= limiters[KeyOf(work'[u])]
    <3>1. CASE u = t
      BY <1>1, <1>2, <1>7, <3>1 DEF Reserved
    <3>2. CASE u # t
      BY <1>1, <1>8, <3>2 DEF ClockOK, Reserved, At
    <3> QED BY <3>1, <3>2
  <2>2. \A r \in requests' : r.slot \in Nat /\ r.at \in Nat
    BY <1>1, <1>3, <1>4, <1>7 DEF ClockOK
  <2> QED BY <1>1, <1>4, <1>6, <2>1, <2>2 DEF ClockOK
<1>10. PacedOK'
  <2>1. ASSUME NEW u \in Targets, Reserved(u)'
        PROVE  work'[u] = work[u] /\ Reserved(u)
    BY <1>1, <1>2, <1>8, <2>1 DEF Reserved
  <2> QED BY <1>1, <1>6, <2>1 DEF PacedOK
<1>11. SlotsApart'
  <2>1. \A r \in requests' : r.at >= r.slot
    BY <1>1, <1>3, <1>4, <1>7 DEF SlotsApart
  <2> QED BY <1>1, <1>6, <2>1 DEF SlotsApart, FirstHops
<1>12. ASSUME NEW r \in requests, r.target = t
       PROVE  \/ r.how = "http" /\ r.hop <= work[t].hops
              \/ r.how = "oneclick" /\ AsksAgain(t)
  BY <1>1, <1>5, <1>12 DEF AskedAt, At, Own
<1>13. \A r \in requests' : r.target \in Targets /\ r.hop \in Nat
  BY <1>1, <1>3, <1>4, <1>5 DEF AskedOK
<1>14. AskedOK'
  <2>1. ASSUME NEW u \in Targets, u # t
        PROVE  AskedAt(u)'
    <3>1. Own(u)' = Own(u) /\ work'[u] = work[u] /\ AskedAt(u)
      BY <1>1, <1>3, <1>4, <1>8, <2>1 DEF Own, AskedOK
    <3> QED BY <1>4, <3>1 DEF AskedAt, At, AsksAgain
  <2>2. AskedAt(t)'
    <3>1. ASSUME NEW r \in Own(t)'
          PROVE  \/ r.how = work'[t].how /\ r.hop <= work'[t].hops
                 \/ r.how = "oneclick" /\ AsksAgain(t)'
      <4>1. CASE r = q
        BY <1>1, <1>2, <1>3, <1>5, <4>1
      <4>2. CASE r \in requests /\ r.target = t
        <5>1. r.hop \in Nat
          BY <1>1, <4>2 DEF AskedOK
        <5> QED BY <1>1, <1>2, <1>4, <1>5, <1>12, <4>2, <5>1 DEF AsksAgain
      <4> QED BY <1>4, <4>1, <4>2 DEF Own
    <3> QED BY <1>1, <1>2, <1>5, <3>1 DEF AskedAt, At
  <2> QED BY <1>13, <2>1, <2>2 DEF AskedOK
<1>15. AskedOnce'
  <2>1. ASSUME NEW r \in requests, r.target = q.target
        PROVE  /\ ~(r.how = q.how /\ r.hop = q.hop)
               /\ r.how # q.how => [target |-> t, how |-> "oneclick", code |-> "3xx"] \in answers
    <3>1. r.hop \in Nat
      BY <1>1 DEF AskedOK
    <3> QED BY <1>3, <1>5, <1>12, <2>1, <3>1 DEF AsksAgain
  <2> QED BY <1>1, <1>3, <1>4, <2>1 DEF AskedOnce
<1>16. InFlight'
  BY <1>1, <1>2, <1>4, SameHolders
<1> QED BY <1>2, <1>9, <1>10, <1>11, <1>14, <1>15, <1>16 DEF UnsubInv

\* A redirected POST gives its token back and becomes a GET.
LEMMA FallsBackStep ==
  ASSUME UnsubInv, NEW t \in Targets, WorkOK', Others(t), Frame, ReleaseSem, At(t, "sent"),
         work[t].how = "oneclick", Answer(t, "3xx"),
         work'[t].at = "check", work'[t].how = "http", work'[t].hops = work[t].hops
  PROVE  UnsubInv'
<1>1. Calm /\ InFlight /\ WorkOK /\ AskedAt(t) /\ work[t].at = "sent"
  BY DEF UnsubInv, Calm, AskedOK, At
<1>2. /\ UNCHANGED requests /\ answers \subseteq answers'
      /\ [target |-> t, how |-> "oneclick", code |-> "3xx"] \in answers'
  BY DEF Frame, Answer
<1>3. AskedAt(t)'
  <2>1. work'[t].hops = 0
    BY <1>1 DEF AskedAt, At
  <2>2. ASSUME NEW r \in Own(t)'
        PROVE  r.how = "oneclick"
    BY <1>1, <1>2, <2>2 DEF Own, AskedAt, At
  <2> QED BY <1>2, <2>1, <2>2 DEF AskedAt, At, AsksAgain
<1>4. ClockOK' /\ PacedOK' /\ SlotsApart'
  BY <1>1, QuietStep DEF Calm, Reserved
<1>5. AskedOK' /\ AskedOnce'
  BY <1>1, <1>2, <1>3, SilentStep DEF Calm
<1>6. InFlight'
  BY <1>1, OneLess DEF ReleaseSem
<1> QED BY <1>4, <1>5, <1>6 DEF UnsubInv

\* An answer that ends the goroutine.
LEMMA AnsweredEnds ==
  ASSUME UnsubInv, NEW t \in Targets, At(t, "sent"), NEW r, Attempted(t, r), r.code # "3xx",
         Frame, answers \subseteq answers', ReleaseSem
  PROVE  UnsubInv'
<1>1. Calm /\ InFlight /\ WorkOK /\ work[t].at = "sent"
  BY DEF UnsubInv, Calm, At
<1>2. WorkOK' /\ Others(t) /\ work'[t].at = "done"
  BY <1>1, AttemptedIs
<1>3. Calm'
  BY <1>1, <1>2, DoneStep
<1>4. InFlight'
  BY <1>1, <1>2, OneLess DEF ReleaseSem
<1> QED BY <1>3, <1>4 DEF UnsubInv, Calm

LEMMA AnsweredStep ==
  ASSUME UnsubInv, NEW t \in Targets, NEW code \in {"2xx", "3xx"}, Answered(t, code)
  PROVE  UnsubInv'
<1>1. Frame /\ answers \subseteq answers' /\ ReleaseSem /\ At(t, "sent") /\ Answer(t, code)
  BY DEF Answered, Frame, Answer
<1>2. CASE code = "2xx" /\ Attempted(t, Result(Accepted(work[t].how), work[t].how, code))
  <2>1. Result(Accepted(work[t].how), work[t].how, code).code # "3xx"
    BY <1>2 DEF Result
  <2> QED BY <1>1, <1>2, <2>1, AnsweredEnds
<1>3. CASE code = "3xx" /\ Failed(t, code)
  <2>1. WorkOK /\ WorkOK' /\ Others(t)
    BY <1>3, FailedIs DEF UnsubInv
  <2>2. CASE work'[t].at = "done"
    <3>1. Calm'
      BY <1>1, <2>1, <2>2, DoneStep DEF UnsubInv, Calm
    <3>2. InFlight'
      BY <1>1, <2>1, <2>2, OneLess DEF UnsubInv, ReleaseSem, At
    <3> QED BY <3>1, <3>2 DEF UnsubInv, Calm
  <2>3. CASE /\ work[t].how = "oneclick" /\ work'[t].at = "check" /\ work'[t].how = "http"
             /\ work'[t].hops = work[t].hops
    BY <1>1, <1>3, <2>1, <2>3, FallsBackStep
  <2> QED BY <1>3, <2>1, <2>2, <2>3, FailedIs
<1> QED BY <1>2, <1>3 DEF Answered

LEMMA MailAnsweredStep ==
  ASSUME UnsubInv, NEW t \in Targets, MailAnswered(t)
  PROVE  UnsubInv'
<1>1. Frame /\ ReleaseSem /\ At(t, "sent")
  BY DEF MailAnswered, Frame
<1>2. answers \subseteq answers'
  BY DEF MailAnswered, Answer
<1>3. CASE Attempted(t, Result("ok", "mailto", "none"))
  <2>1. Result("ok", "mailto", "none").code # "3xx"
    BY DEF Result
  <2> QED BY <1>1, <1>2, <1>3, <2>1, AnsweredEnds
<1>4. CASE Failed(t, "none")
  BY <1>1, <1>2, <1>4, FailsInside DEF At
<1> QED BY <1>3, <1>4 DEF MailAnswered

LEMMA WorkerStep ==
  ASSUME UnsubInv, NEW t \in Targets, Worker(t)
  PROVE  UnsubInv'
<1>1. CASE NoAnswer(t)
  BY <1>1, FailsInside DEF NoAnswer, Frame, At
<1>2. CASE \E code \in {"2xx", "3xx"} : Answered(t, code)
  BY <1>2, AnsweredStep
<1>3. CASE \E host \in Hosts : Redirected(t, host)
  BY <1>3, RedirectedStep
<1> QED BY <1>1, <1>2, <1>3, StartStep, CheckHostStep, ThrottleStep, SleepStep, AcquireStep,
           SendStep, MailAnsweredStep DEF Worker

\* Steps that leave the goroutines alone; the clock only goes on.
LEMMA IdleStep ==
  ASSUME UnsubInv, UNCHANGED <<work, limiters, sem, requests, answers>>, now' = now \/ now' = now + 1
  PROVE  UnsubInv'
<1>1. ClockOK'
  <2>1. now \in Nat /\ now' \in Nat /\ now <= now'
    BY DEF UnsubInv, ClockOK
  <2>2. ASSUME NEW t \in Targets, work[t].at \in {"acquire", "send", "sent"}
        PROVE  work[t].slot \in Nat /\ work[t].slot <= now'
    <3>1. work[t].slot \in Nat /\ work[t].slot <= now
      BY <2>2 DEF UnsubInv, ClockOK, Reserved, At
    <3> QED BY <2>1, <3>1
  <2> QED BY <2>1, <2>2 DEF UnsubInv, ClockOK, Reserved, At, FirstHops
<1>2. WorkOK' /\ PacedOK' /\ SlotsApart'
  BY DEF UnsubInv, WorkOK, PacedOK, SlotsApart, Reserved, FirstHops
<1>3. AskedOK' /\ AskedOnce'
  BY DEF UnsubInv, AskedOK, AskedOnce, AskedAt, Own, AsksAgain, At
<1>4. InFlight'
  BY DEF UnsubInv, InFlight, Holders
<1> QED BY <1>1, <1>2, <1>3, <1>4 DEF UnsubInv

LEMMA InitHolds == Init => UnsubInv
<1> SUFFICES ASSUME Init
             PROVE  UnsubInv
  OBVIOUS
<1>1. /\ now = 0 /\ work = [t \in Targets |-> NotStarted] /\ limiters = << >> /\ sem = 0
      /\ requests = {} /\ answers = {}
  BY DEF Init
<1>2. \A t \in Targets : work[t] = NotStarted
  BY <1>1
<1>3. NotStarted.at = "start" /\ NotStarted.hops = 0
  BY DEF NotStarted
<1>4. WorkOK
  BY <1>1 DEF WorkOK, NotStarted
<1>5. ClockOK /\ PacedOK /\ SlotsApart
  BY <1>1, <1>2, <1>3 DEF ClockOK, PacedOK, SlotsApart, Reserved, At, FirstHops
<1>6. AskedOK /\ AskedOnce
  BY <1>1, <1>2, <1>3 DEF AskedOK, AskedOnce, AskedAt, Own, At
<1>7. InFlight
  <2>1. Holders = {}
    BY <1>2, <1>3 DEF Holders
  <2> QED BY <1>1, <2>1, FS_EmptySet, UnsubAssumption DEF InFlight
<1> QED BY <1>4, <1>5, <1>6, <1>7 DEF UnsubInv

LEMMA StepHolds == UnsubInv /\ [Next]_vars => UnsubInv'
<1> SUFFICES ASSUME UnsubInv, [Next]_vars
             PROVE  UnsubInv'
  OBVIOUS
<1>1. CASE \E t \in Targets : Worker(t)
  BY <1>1, WorkerStep
<1>2. CASE Record \/ Cancel \/ Tick \/ Finished \/ UNCHANGED vars
  BY <1>2, IdleStep DEF Record, Cancel, Tick, Finished, vars, phaseVars
<1> QED BY <1>1, <1>2 DEF Next

LEMMA Inductive == Spec => []UnsubInv
BY InitHolds, StepHolds, PTL DEF Spec

-----------------------------------------------------------------------------
\* Results.

\* Before its result is there, a goroutine's sender is not recorded.
LEMMA NotRecorded ==
  ASSUME HonestOK, NEW t \in Targets, work[t].at # "done"
  PROVE  logged = 0 /\ ~(t <= logged) /\ results[t].status = "none" /\ ~GotFrom(t, {"oneclick"})
<1>1. ~AllDone
  BY DEF AllDone, At
<1>2. logged = 0
  BY <1>1 DEF HonestOK
<1>3. t \in Nat /\ t >= 1
  <2>1. t \in 1 .. Cardinality(Targets) /\ Cardinality(Targets) \in Nat
    BY UnsubAssumption, FS_CardinalityType
  <2> QED BY <2>1
<1> QED BY <1>2, <1>3 DEF HonestOK, HonestAt, At

\* A step of one goroutine leaves the others' results, requests and answers.
LEMMA HonestStep ==
  ASSUME HonestOK, NEW t \in Targets, work[t].at # "done", Others(t),
         UNCHANGED <<cancelled, logged, recorded>>,
         results' = [u \in Targets |-> results'[u]], \A u \in Targets \ {t} : results'[u] = results[u],
         \A r \in requests' : r \in requests \/ r.target = t,
         answers \subseteq answers', \A a \in answers' : a \in answers \/ a.target = t,
         HonestAt(t)'
  PROVE  HonestOK'
<1>1. logged = 0
  BY NotRecorded
<1>2. ASSUME NEW u \in Targets, u # t
      PROVE  HonestAt(u)'
  <2>1. work'[u] = work[u] /\ results'[u] = results[u] /\ HonestAt(u)
    BY <1>2 DEF Others, HonestOK
  <2>2. Own(u) = {} => Own(u)' = {}
    BY <1>2 DEF Own
  <2>3. ASSUME NEW hows
        PROVE  GotFrom(u, hows)' <=> GotFrom(u, hows)
    BY <1>2 DEF GotFrom
  <2> QED BY <2>1, <2>2, <2>3 DEF HonestAt, At
<1> QED BY <1>1, <1>2 DEF HonestOK

\* A goroutine that goes on has no result yet.
LEMMA GoesOn ==
  ASSUME HonestOK, NEW t \in Targets, work[t].at # "done", Others(t),
         UNCHANGED <<cancelled, logged, recorded, results>>,
         work'[t].at \notin {"start", "done"}, work'[t].how \in {"oneclick", "http", "mailto"},
         work'[t].post = NoResult \/ work'[t].post.status = "failed",
         \A r \in requests' : r \in requests \/ r.target = t,
         answers \subseteq answers',
         \A a \in answers' : a \in answers \/ (a.target = t /\ ~(a.how = "oneclick" /\ a.code = "2xx"))
  PROVE  HonestOK'
<1>1. /\ ~(t <= logged) /\ results[t].status = "none" /\ ~GotFrom(t, {"oneclick"})
      /\ results = [u \in Targets |-> results[u]]
  BY NotRecorded DEF HonestOK
<1>2. ~GotFrom(t, {"oneclick"})'
  BY <1>1 DEF GotFrom
<1>3. HonestAt(t)'
  BY <1>1, <1>2 DEF HonestAt, At
<1> QED BY <1>1, <1>3, HonestStep

\* A goroutine that ends has the result that its answers justify.
LEMMA Ends ==
  ASSUME HonestOK, NEW t \in Targets, work[t].at # "done", Others(t),
         UNCHANGED <<cancelled, logged, recorded, requests>>,
         work'[t].at = "done", work'[t].post = NoResult,
         NEW x, results' = [results EXCEPT ![t] = x], x.status \in {"ok", "probable", "failed", "manual"},
         answers \subseteq answers', \A a \in answers' : a \in answers \/ a.target = t,
         x.status = "ok" => GotFrom(t, {"oneclick", "mailto"})',
         x.status = "probable" => GotFrom(t, {"http"})',
         x.status = "manual" => Own(t) = {},
         GotFrom(t, {"oneclick"})' => x.status = "ok"
  PROVE  HonestOK'
<1>1. ~(t <= logged) /\ results = [u \in Targets |-> results[u]]
  BY NotRecorded DEF HonestOK
<1>2. /\ results' = [u \in Targets |-> results'[u]] /\ results'[t] = x
      /\ \A u \in Targets \ {t} : results'[u] = results[u]
  BY <1>1
<1>3. Own(t)' = Own(t)
  BY DEF Own
<1>4. HonestAt(t)'
  BY <1>1, <1>2, <1>3 DEF HonestAt, At
<1> QED BY <1>2, <1>4, HonestStep

\* A failure, unless a GET follows.
LEMMA FailsHonestly ==
  ASSUME WorkOK, HonestOK, NEW t \in Targets, work[t].at # "done", NEW code, Failed(t, code),
         UNCHANGED <<cancelled, logged, recorded, requests>>, answers \subseteq answers',
         \A a \in answers' : a \in answers \/ (a.target = t /\ ~(a.how = "oneclick" /\ a.code = "2xx"))
  PROVE  HonestOK'
<1> DEFINE r == Result("failed", work[t].how, code)
<1>1. Attempted(t, r)
  BY DEF Failed
<1>2. r.status = "failed"
  BY DEF Result
<1> HIDE DEF r
<1>3. /\ Others(t)
      /\ \/ /\ work'[t].at = "done" /\ work'[t].post = NoResult
            /\ \/ results' = [results EXCEPT ![t] = r]
               \/ /\ work[t].post # NoResult /\ results' = [results EXCEPT ![t] = work[t].post]
         \/ /\ UNCHANGED results
            /\ work'[t].at = "check" /\ work'[t].how = "http" /\ work'[t].post = r
  BY <1>1, AttemptedIs
<1>4. ~GotFrom(t, {"oneclick"})'
  BY NotRecorded DEF GotFrom
<1>5. ASSUME NEW x, x.status = "failed", results' = [results EXCEPT ![t] = x],
             work'[t].at = "done", work'[t].post = NoResult
      PROVE  HonestOK'
  BY <1>3, <1>4, <1>5, Ends
<1>6. work[t].post # NoResult => work[t].post.status = "failed"
  BY DEF HonestOK, HonestAt
<1>7. CASE work'[t].at = "done"
  BY <1>2, <1>3, <1>5, <1>6, <1>7
<1>8. CASE work'[t].at = "check"
  BY <1>2, <1>3, <1>8, GoesOn
<1> QED BY <1>3, <1>7, <1>8

LEMMA StartHonest ==
  ASSUME UnsubInv, HonestOK, NEW t \in Targets, Start(t)
  PROVE  HonestOK'
<1>1. /\ WorkOK /\ work[t].at = "start" /\ Own(t) = {}
      /\ UNCHANGED <<cancelled, logged, recorded, requests, answers>>
  BY DEF UnsubInv, AskedOK, AskedAt, Start, At, phaseVars
<1>2. ASSUME NEW x, x.status \in {"manual", "failed"}, Return(t, x)
      PROVE  HonestOK'
  <2>1. Others(t) /\ work'[t].at = "done" /\ work'[t].post = NoResult
    BY <1>1, <1>2, ReturnIs
  <2>2. ~GotFrom(t, {"oneclick"})'
    BY <1>1, NotRecorded DEF GotFrom
  <2> QED BY <1>1, <1>2, <2>1, <2>2, Ends DEF Return
<1>3. ASSUME NEW how \in {"oneclick", "http", "mailto"}, NEW uri, NEW stage \in {"check", "throttle"},
             Begin(t, how, uri, stage)
      PROVE  HonestOK'
  <2>1. Others(t) /\ work'[t].at = stage /\ work'[t].how = how /\ work'[t].post = work[t].post
    BY <1>1, <1>3, BeginIs
  <2>2. work'[t].post = NoResult \/ work'[t].post.status = "failed"
    BY <2>1 DEF HonestOK, HonestAt
  <2> QED BY <1>1, <1>3, <2>1, <2>2, GoesOn DEF Begin
<1>4. ASSUME NEW status, NEW how, NEW code
      PROVE  Result(status, how, code).status = status
  BY Zenon DEF Result
<1>5. \A uri : \/ Begin(t, "oneclick", uri, "check") \/ Begin(t, "http", uri, "check")
              \/ Begin(t, "mailto", uri, "throttle")
              => HonestOK'
  <2> SUFFICES ASSUME NEW uri
               PROVE  /\ Begin(t, "oneclick", uri, "check") => HonestOK'
                      /\ Begin(t, "http", uri, "check") => HonestOK'
                      /\ Begin(t, "mailto", uri, "throttle") => HonestOK'
    OBVIOUS
  <2>1. Begin(t, "oneclick", uri, "check") => HonestOK'
    BY <1>3
  <2>2. Begin(t, "http", uri, "check") => HonestOK'
    BY <1>3
  <2>3. Begin(t, "mailto", uri, "throttle") => HonestOK'
    BY <1>3
  <2> QED BY <2>1, <2>2, <2>3
<1>6. \A how, code : \/ Return(t, Result("manual", how, code))
                    \/ Return(t, Result("failed", how, code))
                    => HonestOK'
  BY <1>2, <1>4
<1> QED BY <1>5, <1>6 DEF Start, StartMail

\* Steps between start and done: the goroutine goes to another stage or fails.
LEMMA GotoHonest ==
  ASSUME UnsubInv, HonestOK, NEW t \in Targets, work[t].at \notin {"start", "done"},
         NEW stage, stage \notin {"start", "done"}, Goto(t, stage),
         UNCHANGED <<cancelled, logged, recorded, answers>>,
         \A r \in requests' : r \in requests \/ r.target = t
  PROVE  HonestOK'
<1>1. Others(t) /\ work'[t].at = stage /\ work'[t].how = work[t].how /\ work'[t].post = work[t].post
  BY GotoIs DEF UnsubInv
<1>2. /\ work[t].how \in {"oneclick", "http", "mailto"}
      /\ work[t].post = NoResult \/ work[t].post.status = "failed"
  BY DEF HonestOK, HonestAt
<1> QED BY <1>1, <1>2, GoesOn DEF Goto

LEMMA FailureHonest ==
  ASSUME UnsubInv, HonestOK, NEW t \in Targets, work[t].at # "done", Failed(t, "none"),
         UNCHANGED <<cancelled, logged, recorded, requests, answers>>
  PROVE  HonestOK'
BY FailsHonestly DEF UnsubInv

LEMMA ReserveHonest ==
  ASSUME UnsubInv, HonestOK, NEW t \in Targets, At(t, "throttle"), Reserve(t),
         UNCHANGED <<cancelled, logged, recorded, requests, answers>>
  PROVE  HonestOK'
<1> DEFINE slot == SlotFor(KeyOf(work[t]))
           stage == IF slot > now THEN "sleep" ELSE "acquire"
<1>1. TakesSlot(t, stage, slot) /\ UNCHANGED results /\ stage \in {"sleep", "acquire"}
  BY DEF Reserve, TakesSlot
<1> HIDE DEF slot, stage
<1>2. Others(t) /\ work'[t].at = stage /\ work'[t].how = work[t].how /\ work'[t].post = work[t].post
  BY <1>1, ReserveIs DEF UnsubInv
<1>3. /\ work[t].how \in {"oneclick", "http", "mailto"}
      /\ work[t].post = NoResult \/ work[t].post.status = "failed"
  BY DEF HonestOK, HonestAt, At
<1> QED BY <1>1, <1>2, <1>3, GoesOn DEF At

LEMMA RedirectedHonest ==
  ASSUME UnsubInv, HonestOK, NEW t \in Targets, NEW host, Redirected(t, host)
  PROVE  HonestOK'
<1>1. /\ Hops(t) /\ work[t].at = "sent" /\ work[t].how = "http"
      /\ UNCHANGED <<cancelled, logged, recorded, results, answers>>
      /\ \A r \in requests' : r \in requests \/ r.target = t
  BY DEF Redirected, Hops, At, Request, phaseVars
<1>2. /\ Others(t) /\ work'[t].at = work[t].at /\ work'[t].how = work[t].how
      /\ work'[t].post = work[t].post
  BY <1>1, HopIs DEF UnsubInv
<1>3. work[t].post = NoResult \/ work[t].post.status = "failed"
  BY DEF HonestOK, HonestAt
<1> QED BY <1>1, <1>2, <1>3, GoesOn

\* An accepted request: the answer is there when the result is.
LEMMA AcceptedHonest ==
  ASSUME UnsubInv, HonestOK, NEW t \in Targets, work[t].at = "sent", Answer(t, "2xx"),
         UNCHANGED <<cancelled, logged, recorded, requests>>,
         NEW r, Attempted(t, r), r.code # "3xx",
         r.status = IF work[t].how = "http" THEN "probable" ELSE "ok"
  PROVE  HonestOK'
<1> DEFINE a == [target |-> t, how |-> work[t].how, code |-> "2xx"]
<1>1. answers' = answers \cup {a} /\ a.target = t /\ a.how = work[t].how /\ a.code = "2xx"
  BY DEF Answer
<1> HIDE DEF a
<1>2. work[t].how \in {"oneclick", "http", "mailto"} /\ ~GotFrom(t, {"oneclick"})
  BY NotRecorded DEF HonestOK, HonestAt
<1>3. /\ Others(t) /\ work'[t].at = "done" /\ work'[t].post = NoResult
      /\ results' = [results EXCEPT ![t] = r]
  BY AttemptedIs DEF UnsubInv
<1>4. /\ r.status = "ok" => GotFrom(t, {"oneclick", "mailto"})'
      /\ r.status = "probable" => GotFrom(t, {"http"})'
      /\ GotFrom(t, {"oneclick"})' => r.status = "ok"
  BY <1>1, <1>2 DEF GotFrom
<1> QED BY <1>1, <1>3, <1>4, Ends

LEMMA AnsweredHonest ==
  ASSUME UnsubInv, HonestOK, NEW t \in Targets, NEW code \in {"2xx", "3xx"}, Answered(t, code)
  PROVE  HonestOK'
<1>1. /\ work[t].at = "sent" /\ work[t].how # "mailto" /\ Answer(t, code) /\ WorkOK
      /\ UNCHANGED <<cancelled, logged, recorded, requests>>
  BY DEF Answered, At, phaseVars, UnsubInv
<1>2. CASE code = "2xx" /\ Attempted(t, Result(Accepted(work[t].how), work[t].how, code))
  <2> DEFINE r == Result(Accepted(work[t].how), work[t].how, code)
  <2>1. r.code # "3xx" /\ r.status = IF work[t].how = "http" THEN "probable" ELSE "ok"
    BY <1>2 DEF Result, Accepted
  <2> HIDE DEF r
  <2>2. Attempted(t, r)
    BY <1>2 DEF r
  <2> QED BY <1>1, <1>2, <2>1, <2>2, AcceptedHonest
<1>3. CASE code = "3xx" /\ Failed(t, code)
  <2>1. /\ answers \subseteq answers'
        /\ \A a \in answers' : a \in answers \/ (a.target = t /\ ~(a.how = "oneclick" /\ a.code = "2xx"))
    BY <1>1, <1>3 DEF Answer
  <2> QED BY <1>1, <1>3, <2>1, FailsHonestly
<1> QED BY <1>2, <1>3 DEF Answered

LEMMA MailHonest ==
  ASSUME UnsubInv, HonestOK, NEW t \in Targets, MailAnswered(t)
  PROVE  HonestOK'
<1>1. /\ work[t].at = "sent" /\ work[t].how = "mailto" /\ WorkOK
      /\ UNCHANGED <<cancelled, logged, recorded, requests>>
  BY DEF MailAnswered, At, phaseVars, UnsubInv
<1>2. CASE Answer(t, "2xx") /\ Attempted(t, Result("ok", "mailto", "none"))
  <2>1. Result("ok", "mailto", "none").code # "3xx" /\ Result("ok", "mailto", "none").status = "ok"
    BY DEF Result
  <2> QED BY <1>1, <1>2, <2>1, AcceptedHonest
<1>3. CASE (Answer(t, "2xx") \/ UNCHANGED answers) /\ Failed(t, "none")
  <2>1. /\ answers \subseteq answers'
        /\ \A a \in answers' : a \in answers \/ (a.target = t /\ ~(a.how = "oneclick" /\ a.code = "2xx"))
    BY <1>1, <1>3 DEF Answer
  <2> QED BY <1>1, <1>3, <2>1, FailsHonestly
<1> QED BY <1>2, <1>3 DEF MailAnswered

LEMMA WorkerHonest ==
  ASSUME UnsubInv, HonestOK, NEW t \in Targets, Worker(t)
  PROVE  HonestOK'
<1>1. CASE CheckHost(t)
  BY <1>1, GotoHonest, FailureHonest DEF CheckHost, At, phaseVars
<1>2. CASE Throttle(t)
  BY <1>2, ReserveHonest, FailureHonest DEF Throttle, At, phaseVars
<1>3. CASE Sleep(t)
  BY <1>3, GotoHonest, FailureHonest DEF Sleep, At, phaseVars
<1>4. CASE AcquireSem(t)
  BY <1>4, GotoHonest, FailureHonest DEF AcquireSem, At, phaseVars
<1>5. CASE Send(t)
  <2>1. /\ work[t].at = "send" /\ UNCHANGED <<cancelled, logged, recorded, answers>>
        /\ \A r \in requests' : r \in requests \/ r.target = t
    BY <1>5 DEF Send, At, phaseVars, Request
  <2> QED BY <1>5, <2>1, GotoHonest, FailureHonest DEF Send
<1>6. CASE NoAnswer(t)
  BY <1>6, FailureHonest DEF NoAnswer, At, phaseVars
<1>7. CASE \E code \in {"2xx", "3xx"} : Answered(t, code)
  BY <1>7, AnsweredHonest
<1>8. CASE \E host \in Hosts : Redirected(t, host)
  BY <1>8, RedirectedHonest
<1> QED BY <1>1, <1>2, <1>3, <1>4, <1>5, <1>6, <1>7, <1>8, StartHonest, MailHonest DEF Worker

LEMMA RecordHonest ==
  ASSUME HonestOK, Record
  PROVE  HonestOK'
<1> DEFINE n == logged + 1
<1>1. /\ AllDone /\ n \in Targets /\ logged' = n /\ UNCHANGED <<cancelled, work, results, requests, answers>>
      /\ recorded' = IF cancelled THEN recorded ELSE [recorded EXCEPT ![n] = results[n].status]
  BY DEF Record
<1>2. logged \in Nat /\ recorded = [u \in Targets |-> recorded[u]]
  BY DEF HonestOK
<1>3. AllDone' /\ logged' \in Nat /\ recorded' = [u \in Targets |-> recorded'[u]]
  BY <1>1, <1>2 DEF AllDone, At
<1>4. ASSUME NEW t \in Targets
      PROVE  HonestAt(t)'
  <2>1. HonestAt(t) /\ t \in Nat
    <3>1. t \in 1 .. Cardinality(Targets) /\ Cardinality(Targets) \in Nat
      BY UnsubAssumption, FS_CardinalityType
    <3> QED BY <3>1 DEF HonestOK
  <2>2. t <= logged' /\ ~cancelled => recorded'[t] = results[t].status
    <3>1. CASE t = n
      BY <1>1, <1>2, <3>1
    <3>2. CASE t # n
      <4>1. t <= logged' => t <= logged
        BY <1>1, <1>2, <2>1, <3>2
      <4>2. ~cancelled => recorded'[t] = recorded[t]
        BY <1>1, <1>2, <3>2
      <4> QED BY <1>1, <2>1, <4>1, <4>2 DEF HonestAt
    <3> QED BY <3>1, <3>2
  <2> QED BY <1>1, <2>1, <2>2 DEF HonestAt, At, Own, GotFrom
<1> QED BY <1>1, <1>3, <1>4 DEF HonestOK

LEMMA HonestInit == Init => HonestOK
<1> SUFFICES ASSUME Init
             PROVE  HonestOK
  OBVIOUS
<1>1. /\ work = [t \in Targets |-> NotStarted] /\ results = [t \in Targets |-> NoResult]
      /\ requests = {} /\ answers = {} /\ logged = 0 /\ recorded = [t \in Targets |-> "none"]
  BY DEF Init
<1>2. NotStarted.at = "start" /\ NotStarted.post = NoResult /\ NoResult.status = "none"
  BY DEF NotStarted, NoResult, Result
<1>3. ASSUME NEW t \in Targets
      PROVE  HonestAt(t)
  <2>1. ~(t <= logged)
    <3>1. t \in 1 .. Cardinality(Targets) /\ Cardinality(Targets) \in Nat
      BY UnsubAssumption, FS_CardinalityType
    <3> QED BY <1>1, <3>1
  <2> QED BY <1>1, <1>2, <2>1 DEF HonestAt, At, GotFrom
<1> QED BY <1>1, <1>3 DEF HonestOK

LEMMA HonestNext == UnsubInv /\ HonestOK /\ [Next]_vars => HonestOK'
<1> SUFFICES ASSUME UnsubInv, HonestOK, [Next]_vars
             PROVE  HonestOK'
  OBVIOUS
<1>1. CASE \E t \in Targets : Worker(t)
  BY <1>1, WorkerHonest
<1>2. CASE Cancel \/ Tick \/ Finished \/ UNCHANGED vars
  BY <1>2 DEF Cancel, Tick, Finished, vars, phaseVars, HonestOK, HonestAt, AllDone, At, Own, GotFrom
<1>3. CASE Record
  BY <1>3, RecordHonest
<1> QED BY <1>1, <1>2, <1>3 DEF Next

-----------------------------------------------------------------------------
\* Types.

\* A goroutine's fields, and no result before it is done.
ShapeAt(t) ==
  /\ work[t].at \in Stages /\ work[t].slot \in Nat
  /\ work[t].how \in {"none", "oneclick", "http", "mailto"}
  /\ work[t].hops \in 0 .. FollowRedirects
  /\ ~At(t, "done") => results[t] = NoResult
ShapeOK == cancelled \in BOOLEAN /\ \A t \in Targets : ShapeAt(t)

LEMMA ShapeStep ==
  ASSUME ShapeOK, NEW t \in Targets, Others(t), UNCHANGED cancelled,
         \A u \in Targets \ {t} : results'[u] = results[u], ShapeAt(t)'
  PROVE  ShapeOK'
<1>1. ASSUME NEW u \in Targets, u # t
      PROVE  ShapeAt(u)'
  <2>1. work'[u] = work[u] /\ results'[u] = results[u] /\ ShapeAt(u)
    BY <1>1 DEF Others, ShapeOK
  <2> QED BY <2>1 DEF ShapeAt, At
<1> QED BY <1>1 DEF ShapeOK

\* A goroutine that ends is reset, and only its own result is written.
LEMMA ReturnShape ==
  ASSUME WorkOK, HonestOK, ShapeOK, NEW t \in Targets, NEW r, Return(t, r), UNCHANGED cancelled
  PROVE  ShapeOK'
<1>1. /\ Others(t) /\ work'[t].at = "done"
      /\ work'[t].how = "none" /\ work'[t].slot = 0 /\ work'[t].hops = 0
  BY ReturnIs
<1>2. \A u \in Targets \ {t} : results'[u] = results[u]
  BY DEF Return, HonestOK
<1>3. ShapeAt(t)'
  BY <1>1, UnsubAssumption DEF ShapeAt, At, Stages
<1> QED BY <1>1, <1>2, <1>3, ShapeStep

LEMMA GotoShape ==
  ASSUME WorkOK, ShapeOK, NEW t \in Targets, work[t].at # "done",
         NEW stage \in Stages, Goto(t, stage), UNCHANGED cancelled
  PROVE  ShapeOK'
<1>1. /\ Others(t) /\ work'[t].at = stage /\ work'[t].how = work[t].how
      /\ work'[t].slot = work[t].slot /\ work'[t].hops = work[t].hops
  BY GotoIs
<1>2. UNCHANGED results
  BY DEF Goto
<1>3. ShapeAt(t)'
  BY <1>1, <1>2 DEF ShapeOK, ShapeAt, At
<1> QED BY <1>1, <1>2, <1>3, ShapeStep

LEMMA BeginShape ==
  ASSUME WorkOK, ShapeOK, NEW t \in Targets, work[t].at # "done",
         NEW how \in {"oneclick", "http", "mailto"}, NEW uri, NEW stage \in Stages,
         Begin(t, how, uri, stage), UNCHANGED cancelled
  PROVE  ShapeOK'
<1>1. /\ Others(t) /\ work'[t].at = stage /\ work'[t].how = how
      /\ work'[t].slot = work[t].slot /\ work'[t].hops = work[t].hops
  BY BeginIs
<1>2. UNCHANGED results
  BY DEF Begin
<1>3. ShapeAt(t)'
  BY <1>1, <1>2 DEF ShapeOK, ShapeAt, At
<1> QED BY <1>1, <1>2, <1>3, ShapeStep

LEMMA AttemptedShape ==
  ASSUME WorkOK, HonestOK, ShapeOK, NEW t \in Targets, work[t].at # "done",
         NEW r, Attempted(t, r), UNCHANGED cancelled
  PROVE  ShapeOK'
<1>1. CASE \E x : Return(t, x)
  BY <1>1, ReturnShape
<1>2. CASE FallsBack(t, r) /\ UNCHANGED results
  <2>1. /\ Others(t)
        /\ \/ /\ work'[t].at = "done" /\ work'[t].how = "none"
              /\ work'[t].slot = 0 /\ work'[t].hops = 0
           \/ /\ work'[t].at = "check" /\ work'[t].how = "http"
              /\ work'[t].hops = work[t].hops /\ work'[t].slot = work[t].slot
    BY AttemptedIs
  <2>2. ShapeAt(t)'
    BY <1>2, <2>1, UnsubAssumption DEF ShapeOK, ShapeAt, At, Stages
  <2> QED BY <1>2, <2>1, <2>2, ShapeStep
<1> QED BY <1>1, <1>2 DEF Attempted

LEMMA FailedShape ==
  ASSUME WorkOK, HonestOK, ShapeOK, NEW t \in Targets, work[t].at # "done",
         NEW code, Failed(t, code), UNCHANGED cancelled
  PROVE  ShapeOK'
BY AttemptedShape DEF Failed

LEMMA ReserveShape ==
  ASSUME UnsubInv, ShapeOK, NEW t \in Targets, At(t, "throttle"), Reserve(t), UNCHANGED cancelled
  PROVE  ShapeOK'
<1> DEFINE slot == SlotFor(KeyOf(work[t]))
           stage == IF slot > now THEN "sleep" ELSE "acquire"
<1>1. TakesSlot(t, stage, slot) /\ UNCHANGED results /\ stage \in {"sleep", "acquire"}
  BY DEF Reserve, TakesSlot
<1>2. slot \in Nat
  BY SlotIs DEF UnsubInv
<1> HIDE DEF slot, stage
<1>3. /\ Others(t) /\ work'[t].at = stage /\ work'[t].how = work[t].how
      /\ work'[t].slot = slot /\ work'[t].hops = work[t].hops
  BY <1>1, ReserveIs DEF UnsubInv
<1>4. ShapeAt(t)'
  BY <1>1, <1>2, <1>3 DEF ShapeOK, ShapeAt, At, Stages
<1> QED BY <1>1, <1>3, <1>4, ShapeStep

\* A redirect is followed while the bound is not reached.
LEMMA RedirectedShape ==
  ASSUME UnsubInv, ShapeOK, NEW t \in Targets, NEW host, Redirected(t, host)
  PROVE  ShapeOK'
<1>1. /\ Hops(t) /\ At(t, "sent") /\ work[t].hops < FollowRedirects
      /\ UNCHANGED <<cancelled, results>>
  BY DEF Redirected, Hops, MayFollow
<1>2. /\ Others(t) /\ work'[t].at = work[t].at /\ work'[t].how = work[t].how
      /\ work'[t].slot = work[t].slot /\ work'[t].hops = work[t].hops + 1
  BY <1>1, HopIs DEF UnsubInv
<1>3. ShapeAt(t)'
  BY <1>1, <1>2, UnsubAssumption DEF ShapeOK, ShapeAt, At
<1> QED BY <1>1, <1>2, <1>3, ShapeStep

LEMMA StartShape ==
  ASSUME UnsubInv, HonestOK, ShapeOK, NEW t \in Targets, Start(t)
  PROVE  ShapeOK'
<1>1. WorkOK /\ work[t].at # "done" /\ UNCHANGED cancelled
  BY DEF UnsubInv, Start, At
<1>2. CASE \E x : Return(t, x)
  BY <1>1, <1>2, ReturnShape
<1>3. "check" \in Stages /\ "throttle" \in Stages
  BY DEF Stages
<1>4. \A uri : Begin(t, "oneclick", uri, "check") => ShapeOK'
  BY <1>1, <1>3, BeginShape
<1>5. \A uri : Begin(t, "http", uri, "check") => ShapeOK'
  BY <1>1, <1>3, BeginShape
<1>6. \A uri : Begin(t, "mailto", uri, "throttle") => ShapeOK'
  BY <1>1, <1>3, BeginShape
<1> QED BY <1>2, <1>4, <1>5, <1>6 DEF Start, StartMail

LEMMA WorkerShape ==
  ASSUME UnsubInv, HonestOK, ShapeOK, NEW t \in Targets, Worker(t)
  PROVE  ShapeOK'
<1>1. WorkOK /\ {"throttle", "acquire", "send", "sent"} \subseteq Stages
  BY DEF UnsubInv, Stages
<1>2. CASE CheckHost(t)
  BY <1>1, <1>2, GotoShape, FailedShape DEF CheckHost, At
<1>3. CASE Throttle(t)
  BY <1>1, <1>3, ReserveShape, FailedShape DEF Throttle, At
<1>4. CASE Sleep(t)
  BY <1>1, <1>4, GotoShape, FailedShape DEF Sleep, At
<1>5. CASE AcquireSem(t)
  BY <1>1, <1>5, GotoShape, FailedShape DEF AcquireSem, At
<1>6. CASE Send(t)
  BY <1>1, <1>6, GotoShape, FailedShape DEF Send, At
<1>7. CASE \E code \in {"2xx", "3xx"} : Answered(t, code)
  BY <1>1, <1>7, AttemptedShape, FailedShape DEF Answered, At
<1>8. CASE NoAnswer(t)
  BY <1>1, <1>8, FailedShape DEF NoAnswer, At
<1>9. CASE MailAnswered(t)
  BY <1>1, <1>9, AttemptedShape, FailedShape DEF MailAnswered, At
<1>10. CASE \E host \in Hosts : Redirected(t, host)
  BY <1>10, RedirectedShape
<1> QED BY <1>2, <1>3, <1>4, <1>5, <1>6, <1>7, <1>8, <1>9, <1>10, StartShape DEF Worker

LEMMA ShapeInit == Init => ShapeOK
<1> SUFFICES ASSUME Init
             PROVE  ShapeOK
  OBVIOUS
<1>1. /\ cancelled = FALSE /\ work = [t \in Targets |-> NotStarted]
      /\ results = [t \in Targets |-> NoResult]
  BY DEF Init
<1>2. NotStarted.at = "start" /\ NotStarted.how = "none" /\ NotStarted.slot = 0 /\ NotStarted.hops = 0
  BY DEF NotStarted
<1>3. 0 \in 0 .. FollowRedirects /\ "start" \in Stages
  BY UnsubAssumption DEF Stages
<1>4. ASSUME NEW t \in Targets
      PROVE  ShapeAt(t)
  <2>1. work[t] = NotStarted /\ results[t] = NoResult
    BY <1>1
  <2> QED BY <1>2, <1>3, <2>1 DEF ShapeAt
<1> QED BY <1>1, <1>4 DEF ShapeOK

LEMMA ShapeNext == UnsubInv /\ HonestOK /\ ShapeOK /\ [Next]_vars => ShapeOK'
<1> SUFFICES ASSUME UnsubInv, HonestOK, ShapeOK, [Next]_vars
             PROVE  ShapeOK'
  OBVIOUS
<1>1. CASE \E t \in Targets : Worker(t)
  BY <1>1, WorkerShape
<1>2. CASE Record \/ Cancel \/ Tick \/ Finished \/ UNCHANGED vars
  BY <1>2 DEF Record, Cancel, Tick, Finished, vars, ShapeOK, ShapeAt, At
<1> QED BY <1>1, <1>2 DEF Next

-----------------------------------------------------------------------------
\* The steps a goroutine has left.

Underway == Stages \ {"start", "done"}
Extra(w) == IF w.how = "oneclick" THEN Round ELSE 0

LEMMA RoundIs == FollowRedirects \in Nat /\ Round \in Nat /\ Round = FollowRedirects + 7
BY UnsubAssumption DEF Round

LEMMA RankIs ==
  ASSUME NEW w, w.at \in Underway, w.hops \in 0 .. FollowRedirects
  PROVE  /\ Rank(w) = BeforeAnswer(w.at) + (FollowRedirects - w.hops) + Extra(w)
         /\ BeforeAnswer(w.at) \in 1 .. 6 /\ Extra(w) \in {0, Round}
         /\ Rank(w) \in Nat /\ Rank(w) >= 1
<1>1. Rank(w) = BeforeAnswer(w.at) + (FollowRedirects - w.hops) + Extra(w)
  BY DEF Rank, Underway, Extra
<1>2. BeforeAnswer(w.at) \in 1 .. 6
  BY DEF BeforeAnswer
<1>3. Extra(w) \in {0, Round} /\ Extra(w) \in Nat
  BY RoundIs DEF Extra
<1> DEFINE b == BeforeAnswer(w.at)
           h == w.hops
           x == Extra(w)
<1> HIDE DEF b, h, x
<1>4. b \in 1 .. 6 /\ h \in 0 .. FollowRedirects /\ x \in Nat
  BY <1>2, <1>3 DEF b, h, x
<1>5. b + (FollowRedirects - h) + x \in Nat /\ b + (FollowRedirects - h) + x >= 1
  BY <1>4, RoundIs
<1> QED BY <1>1, <1>2, <1>3, <1>5 DEF b, h, x

\* A goroutine returns from anywhere.
LEMMA ReturnLowers ==
  ASSUME NEW v, NEW w, v.at \in Stages \ {"done"}, v.hops \in 0 .. FollowRedirects, w.at = "done"
  PROVE  Rank(w) \in 0 .. Rank(v) - 1
<1>1. Rank(w) = 0
  BY DEF Rank
<1>2. CASE v.at = "start"
  <2>1. Rank(v) = 2 * Round
    BY <1>2 DEF Rank
  <2> QED BY <1>1, <2>1, RoundIs
<1>3. CASE v.at # "start"
  <2>1. Rank(v) \in Nat /\ Rank(v) >= 1
    BY <1>3, RankIs DEF Underway
  <2> QED BY <1>1, <2>1
<1> QED BY <1>2, <1>3

\* The arithmetic of the ranks.
LEMMA LowerStage ==
  ASSUME NEW b \in Nat, NEW c \in Nat, NEW f \in Nat, NEW h \in 0 .. f, NEW x \in Nat, c < b
  PROVE  c + (f - h) + x \in 0 .. (b + (f - h) + x) - 1
OBVIOUS

LEMMA LowerHop ==
  ASSUME NEW b \in Nat, NEW f \in Nat, NEW h \in 0 .. f, h + 1 <= f, NEW x \in Nat
  PROVE  b + (f - (h + 1)) + x \in 0 .. (b + (f - h) + x) - 1
OBVIOUS

LEMMA LowerRound ==
  ASSUME NEW b \in 1 .. 6, NEW c \in 1 .. 6, NEW f \in Nat, NEW h \in 0 .. f
  PROVE  /\ c + (f - h) + 0 \in 0 .. (b + (f - h) + (f + 7)) - 1
         /\ c + (f - h) + 0 \in 0 .. (2 * (f + 7)) - 1
         /\ c + (f - h) + (f + 7) \in 0 .. (2 * (f + 7)) - 1
OBVIOUS

\* Its request goes on to a later stage.
LEMMA StageLowers ==
  ASSUME NEW v, NEW w, v.at \in Underway, w.at \in Underway,
         BeforeAnswer(w.at) < BeforeAnswer(v.at),
         w.how = v.how, w.hops = v.hops, v.hops \in 0 .. FollowRedirects
  PROVE  Rank(w) \in 0 .. Rank(v) - 1
<1>1. /\ Rank(v) = BeforeAnswer(v.at) + (FollowRedirects - v.hops) + Extra(v)
      /\ Rank(w) = BeforeAnswer(w.at) + (FollowRedirects - v.hops) + Extra(v)
  BY RankIs DEF Extra
<1>2. BeforeAnswer(v.at) \in Nat /\ BeforeAnswer(w.at) \in Nat /\ Extra(v) \in Nat
  BY RankIs, RoundIs
<1> QED BY <1>1, <1>2, LowerStage, RoundIs

\* It follows a redirect.
LEMMA HopLowers ==
  ASSUME NEW v, NEW w, v.at \in Underway, w.at = v.at, w.how = v.how,
         v.hops \in 0 .. FollowRedirects, v.hops < FollowRedirects, w.hops = v.hops + 1
  PROVE  Rank(w) \in 0 .. Rank(v) - 1
<1>1. v.hops + 1 \in 0 .. FollowRedirects /\ v.hops + 1 <= FollowRedirects
  BY RoundIs
<1>2. /\ Rank(v) = BeforeAnswer(v.at) + (FollowRedirects - v.hops) + Extra(v)
      /\ Rank(w) = BeforeAnswer(v.at) + (FollowRedirects - (v.hops + 1)) + Extra(v)
  BY <1>1, RankIs DEF Extra
<1>3. BeforeAnswer(v.at) \in Nat /\ Extra(v) \in Nat
  BY RankIs, RoundIs
<1> QED BY <1>1, <1>2, <1>3, LowerHop, RoundIs

\* It asks again, with a GET, where its POST was redirected.
LEMMA FallbackLowers ==
  ASSUME NEW v, NEW w, v.at \in Underway, v.how = "oneclick", w.at = "check", w.how = "http",
         v.hops \in 0 .. FollowRedirects, w.hops = v.hops
  PROVE  Rank(w) \in 0 .. Rank(v) - 1
<1>1. "check" \in Underway
  BY DEF Underway, Stages
<1>2. Extra(v) = FollowRedirects + 7 /\ Extra(w) = 0
  BY RoundIs DEF Extra
<1>3. /\ Rank(v) = BeforeAnswer(v.at) + (FollowRedirects - v.hops) + (FollowRedirects + 7)
      /\ Rank(w) = BeforeAnswer(w.at) + (FollowRedirects - v.hops) + 0
      /\ BeforeAnswer(v.at) \in 1 .. 6 /\ BeforeAnswer(w.at) \in 1 .. 6
  BY <1>1, <1>2, RankIs
<1> QED BY <1>3, LowerRound, RoundIs

\* It begins, with a POST, a GET or a mail.
LEMMA BeginLowers ==
  ASSUME NEW v, NEW w, v.at = "start", w.at \in Underway, w.hops \in 0 .. FollowRedirects
  PROVE  Rank(w) \in 0 .. Rank(v) - 1
<1>1. Rank(v) = 2 * (FollowRedirects + 7)
  BY RoundIs DEF Rank
<1>2. /\ Rank(w) = BeforeAnswer(w.at) + (FollowRedirects - w.hops) + Extra(w)
      /\ BeforeAnswer(w.at) \in 1 .. 6 /\ Extra(w) \in {0, FollowRedirects + 7}
  BY RankIs, RoundIs
<1>3. CASE Extra(w) = 0
  BY <1>1, <1>2, <1>3, LowerRound, RoundIs
<1>4. CASE Extra(w) = FollowRedirects + 7
  BY <1>1, <1>2, <1>4, LowerRound, RoundIs
<1> QED BY <1>2, <1>3, <1>4

Lowers(t) == Others(t) /\ Rank(work'[t]) \in 0 .. Rank(work[t]) - 1

LEMMA GotoLowers ==
  ASSUME WorkOK, ShapeOK, NEW t \in Targets, work[t].at \in Underway, NEW stage \in Underway,
         BeforeAnswer(stage) < BeforeAnswer(work[t].at), Goto(t, stage)
  PROVE  Lowers(t)
<1>1. /\ Others(t) /\ work'[t].at = stage /\ work'[t].how = work[t].how
      /\ work'[t].hops = work[t].hops
  BY GotoIs
<1>2. work[t].hops \in 0 .. FollowRedirects
  BY DEF ShapeOK, ShapeAt
<1> QED BY <1>1, <1>2, StageLowers DEF Lowers

LEMMA EndLowers ==
  ASSUME ShapeOK, NEW t \in Targets, Others(t), work[t].at # "done", work'[t].at = "done"
  PROVE  Lowers(t)
<1>1. work[t].at \in Stages \ {"done"} /\ work[t].hops \in 0 .. FollowRedirects
  BY DEF ShapeOK, ShapeAt
<1> QED BY <1>1, ReturnLowers DEF Lowers

LEMMA AttemptLowers ==
  ASSUME WorkOK, ShapeOK, NEW t \in Targets, work[t].at \in Underway, NEW status, NEW code,
         Attempted(t, Result(status, work[t].how, code))
  PROVE  Lowers(t)
<1>1. work[t].hops \in 0 .. FollowRedirects /\ work[t].at # "done"
  BY DEF ShapeOK, ShapeAt, Underway
<1>2. Result(status, work[t].how, code).how = work[t].how
  BY DEF Result
<1>3. /\ Others(t)
      /\ \/ work'[t].at = "done"
         \/ /\ work[t].how = "oneclick" /\ work'[t].at = "check" /\ work'[t].how = "http"
            /\ work'[t].hops = work[t].hops
  BY <1>2, AttemptedIs
<1>4. CASE work'[t].at = "done"
  BY <1>1, <1>3, <1>4, EndLowers
<1>5. CASE work'[t].at # "done"
  BY <1>1, <1>3, <1>5, FallbackLowers DEF Lowers
<1> QED BY <1>4, <1>5

LEMMA FailLowers ==
  ASSUME WorkOK, ShapeOK, NEW t \in Targets, work[t].at \in Underway, NEW code, Failed(t, code)
  PROVE  Lowers(t)
BY AttemptLowers DEF Failed

LEMMA StartLowers ==
  ASSUME WorkOK, ShapeOK, NEW t \in Targets, Start(t)
  PROVE  Lowers(t)
<1>1. work[t].at = "start" /\ work[t].at # "done" /\ work[t].hops \in 0 .. FollowRedirects
  BY DEF Start, At, ShapeOK, ShapeAt
<1>2. ASSUME NEW r, Return(t, r)
      PROVE  Lowers(t)
  BY <1>1, <1>2, ReturnIs, EndLowers
<1>3. ASSUME NEW how, NEW uri, NEW stage \in Underway, Begin(t, how, uri, stage)
      PROVE  Lowers(t)
  <2>1. Others(t) /\ work'[t].at = stage /\ work'[t].hops = work[t].hops
    BY <1>3, BeginIs
  <2> QED BY <1>1, <1>3, <2>1, BeginLowers DEF Lowers
<1>4. "check" \in Underway /\ "throttle" \in Underway
  BY DEF Underway, Stages
<1> QED BY <1>2, <1>3, <1>4 DEF Start, StartMail

LEMMA ReserveLowers ==
  ASSUME WorkOK, ShapeOK, NEW t \in Targets, At(t, "throttle"), Reserve(t)
  PROVE  Lowers(t)
<1> DEFINE slot == SlotFor(KeyOf(work[t]))
           stage == IF slot > now THEN "sleep" ELSE "acquire"
<1>1. TakesSlot(t, stage, slot)
  BY DEF Reserve, TakesSlot
<1>2. stage \in Underway /\ work[t].at \in Underway /\ BeforeAnswer(stage) < BeforeAnswer(work[t].at)
  BY DEF Underway, Stages, BeforeAnswer, At
<1> HIDE DEF slot, stage
<1>3. /\ Others(t) /\ work'[t].at = stage /\ work'[t].how = work[t].how
      /\ work'[t].hops = work[t].hops
  BY <1>1, ReserveIs
<1>4. work[t].hops \in 0 .. FollowRedirects
  BY DEF ShapeOK, ShapeAt
<1> QED BY <1>2, <1>3, <1>4, StageLowers DEF Lowers

LEMMA RedirectLowers ==
  ASSUME WorkOK, ShapeOK, NEW t \in Targets, NEW host, Redirected(t, host)
  PROVE  Lowers(t)
<1>1. Hops(t) /\ work[t].at = "sent" /\ work[t].hops < FollowRedirects
  BY DEF Redirected, Hops, At, MayFollow
<1>2. /\ Others(t) /\ work'[t].at = work[t].at /\ work'[t].how = work[t].how
      /\ work'[t].hops = work[t].hops + 1
  BY <1>1, HopIs
<1>3. work[t].hops \in 0 .. FollowRedirects /\ work[t].at \in Underway
  BY <1>1 DEF ShapeOK, ShapeAt, Underway, Stages
<1> QED BY <1>1, <1>2, <1>3, HopLowers DEF Lowers

LEMMA WorkerLowers ==
  ASSUME UnsubInv, ShapeOK, NEW t \in Targets, Worker(t)
  PROVE  Lowers(t)
<1>1. WorkOK /\ {"check", "throttle", "sleep", "acquire", "send", "sent"} \subseteq Underway
  BY DEF UnsubInv, Underway, Stages
<1>2. /\ BeforeAnswer("check") = 6 /\ BeforeAnswer("throttle") = 5 /\ BeforeAnswer("sleep") = 4
      /\ BeforeAnswer("acquire") = 3 /\ BeforeAnswer("send") = 2 /\ BeforeAnswer("sent") = 1
  BY DEF BeforeAnswer
<1>3. CASE CheckHost(t)
  BY <1>1, <1>2, <1>3, GotoLowers, FailLowers DEF CheckHost, At
<1>4. CASE Throttle(t)
  BY <1>1, <1>4, ReserveLowers, FailLowers DEF Throttle, At
<1>5. CASE Sleep(t)
  BY <1>1, <1>2, <1>5, GotoLowers, FailLowers DEF Sleep, At
<1>6. CASE AcquireSem(t)
  BY <1>1, <1>2, <1>6, GotoLowers, FailLowers DEF AcquireSem, At
<1>7. CASE Send(t)
  BY <1>1, <1>2, <1>7, GotoLowers, FailLowers DEF Send, At
<1>8. CASE \E code \in {"2xx", "3xx"} : Answered(t, code)
  BY <1>1, <1>8, AttemptLowers, FailLowers DEF Answered, At
<1>9. CASE NoAnswer(t)
  BY <1>1, <1>9, FailLowers DEF NoAnswer, At
<1>10. CASE MailAnswered(t)
  <2>1. work[t].at \in Underway /\ work[t].how = "mailto"
    BY <1>1, <1>10 DEF MailAnswered, At
  <2>2. Attempted(t, Result("ok", work[t].how, "none")) \/ Failed(t, "none")
    BY <1>10, <2>1 DEF MailAnswered
  <2> QED BY <1>1, <2>1, <2>2, AttemptLowers, FailLowers
<1>11. CASE \E host \in Hosts : Redirected(t, host)
  BY <1>1, <1>11, RedirectLowers
<1> QED BY <1>1, <1>3, <1>4, <1>5, <1>6, <1>7, <1>8, <1>9, <1>10, <1>11, StartLowers DEF Worker

-----------------------------------------------------------------------------
\* The theorems.

\* Every goroutine stands at a stage of runOne with a slot, a method and a count
\* of redirects within its bound, has a result exactly when it has returned, and
\* the semaphore stays within its capacity.
THEOREM TypesHold == Spec => []TypeOK
<1>1. ASSUME UnsubInv, HonestOK, ShapeOK
      PROVE  TypeOK
  <2>1. now \in Nat /\ sem = Cardinality(Holders) /\ sem <= MaxInFlight /\ IsFiniteSet(Holders)
    BY <1>1, HoldersFinite DEF UnsubInv, ClockOK, InFlight
  <2>2. sem \in 0 .. MaxInFlight
    BY <2>1, FS_CardinalityType, UnsubAssumption
  <2>3. ASSUME NEW t \in Targets
        PROVE  results[t] # NoResult <=> At(t, "done")
    <3>1. NoResult.status = "none"
      BY DEF NoResult, Result
    <3>2. At(t, "done") => results[t].status \in {"ok", "probable", "failed", "manual"}
      BY <1>1 DEF HonestOK, HonestAt
    <3>3. ~At(t, "done") => results[t] = NoResult
      BY <1>1 DEF ShapeOK, ShapeAt
    <3> QED BY <3>1, <3>2, <3>3
  <2> QED BY <1>1, <2>1, <2>2, <2>3 DEF TypeOK, ShapeOK, ShapeAt
<1> QED BY <1>1, HonestInit, HonestNext, ShapeInit, ShapeNext, Inductive, PTL DEF Spec

\* The pace: for any number of senders, hosts, links and tokens, requests to one
\* host that Run starts have slots an interval apart and go out after them.
THEOREM SlotsApartHolds == Spec => []SlotsApart
<1>1. UnsubInv => SlotsApart
  BY DEF UnsubInv
<1> QED BY <1>1, Inductive, PTL

\* The semaphore: what it holds is what is out, on every return path.
THEOREM InFlightHolds == Spec => []InFlight
<1>1. UnsubInv => InFlight
  BY DEF UnsubInv
<1> QED BY <1>1, Inductive, PTL

\* No sender is asked twice in one way, nor in two ways unless its POST was
\* redirected.
THEOREM AskedOnceHolds == Spec => []AskedOnce
<1>1. UnsubInv => AskedOnce
  BY DEF UnsubInv
<1> QED BY <1>1, Inductive, PTL

\* What a result says of a sender is what happened to it, and what the database
\* says of it, unless the run was cancelled.
THEOREM HonestResultHolds == Spec => []HonestResult
<1>1. ASSUME HonestOK
      PROVE  HonestResult
  <2>1. ASSUME NEW t \in Targets, Over, ~cancelled
        PROVE  recorded[t] = results[t].status
    <3>1. /\ logged \in Nat /\ logged + 1 \notin Targets
          /\ Targets = 1 .. Cardinality(Targets) /\ Cardinality(Targets) \in Nat
      BY <1>1, <2>1, UnsubAssumption, FS_CardinalityType DEF HonestOK, Over
    <3>2. t <= logged
      BY <3>1
    <3> QED BY <1>1, <2>1, <3>2 DEF HonestOK, HonestAt
  <2>2. ASSUME NEW t \in Targets
        PROVE  /\ results[t].status = "ok" => GotFrom(t, {"oneclick", "mailto"})
               /\ results[t].status = "probable" => GotFrom(t, {"http"})
               /\ results[t].status = "manual" => Own(t) = {}
               /\ GotFrom(t, {"oneclick"}) => results[t].status = "ok"
    BY <1>1 DEF HonestOK, HonestAt
  <2> QED BY <2>1, <2>2 DEF HonestResult, GotFrom, Own
<1> QED BY <1>1, HonestInit, HonestNext, Inductive, PTL DEF Spec

\* For any number of senders, redirects and requests at a time: no goroutine goes
\* round. A step of one leaves it fewer to take, and nobody else moves it, so
\* runOne returns after a number of steps that the configuration fixes.
THEOREM WorkersBoundedHolds == Spec => WorkersBounded
<1>1. ASSUME UnsubInv, ShapeOK, [Next]_vars, NEW t \in Targets, work'[t] # work[t]
      PROVE  Rank(work'[t]) \in 0 .. Rank(work[t]) - 1
  <2>1. CASE \E u \in Targets : Worker(u)
    <3>1. PICK u \in Targets : Worker(u)
      BY <2>1
    <3>2. Lowers(u)
      BY <1>1, <3>1, WorkerLowers
    <3>3. u = t
      BY <1>1, <3>2 DEF Lowers, Others
    <3> QED BY <3>2, <3>3 DEF Lowers
  <2>2. CASE Record \/ Cancel \/ Tick \/ Finished \/ UNCHANGED vars
    BY <1>1, <2>2 DEF Record, Cancel, Tick, Finished, vars
  <2> QED BY <1>1, <2>1, <2>2 DEF Next
<1>2. UnsubInv /\ ShapeOK /\ [Next]_vars
        => [\A t \in Targets :
              work'[t] # work[t] => Rank(work[t])' \in 0 .. Rank(work[t]) - 1]_vars
  BY <1>1
<1> QED BY <1>2, HonestInit, HonestNext, ShapeInit, ShapeNext, Inductive, PTL DEF Spec, WorkersBounded
=============================================================================
