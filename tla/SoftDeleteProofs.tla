-------------------------- MODULE SoftDeleteProofs --------------------------
\* Session implements SoftDelete: a delete is a move to Trash, and undo moves
\* back what the run put there, as many copies as each folder misses.
EXTENDS SessionSafetyProofs

-----------------------------------------------------------------------------
\* Counting.

LEMMA FiniteImage ==
  ASSUME NEW S, NEW T, NEW f \in [S -> T], IsFiniteSet(S), \A y \in T : \E x \in S : f[x] = y
  PROVE  IsFiniteSet(T) /\ Cardinality(T) <= Cardinality(S)
<1>1. f \in Surjection(S, T)
  BY DEF Surjection
<1> QED BY <1>1, FS_Surjection

LEMMA SameCount ==
  ASSUME NEW S, NEW T, NEW f \in [S -> T], IsFiniteSet(S), \A y \in T : \E x \in S : f[x] = y,
         \A x, y \in S : f[x] = f[y] => x = y
  PROVE  IsFiniteSet(T) /\ Cardinality(T) = Cardinality(S)
<1>1. f \in Surjection(S, T) /\ f \in Injection(S, T)
  BY DEF Surjection, Injection, IsInjective
<1> QED BY <1>1, FS_Surjection

LEMMA FewerCount ==
  ASSUME NEW S, NEW T, NEW f \in [S -> T], IsFiniteSet(T), \A x, y \in S : f[x] = f[y] => x = y
  PROVE  IsFiniteSet(S) /\ Cardinality(S) <= Cardinality(T)
<1>1. f \in Injection(S, T)
  BY DEF Injection, IsInjective
<1> QED BY <1>1, FS_Injection

\* The n highest of a set of numbers are n.
LEMMA HighestCount ==
  ASSUME NEW S \in SUBSET Nat, IsFiniteSet(S), NEW n \in Nat, n <= Cardinality(S)
  PROVE  IsFiniteSet(Highest(S, n)) /\ Cardinality(Highest(S, n)) = n
<1> DEFINE above(u) == {v \in S : v > u}
           rank == [u \in S |-> Cardinality(above(u))]
           size == Cardinality(S)
<1>1. size \in Nat
  BY FS_CardinalityType
<1>2. ASSUME NEW u \in S PROVE IsFiniteSet(above(u)) /\ rank[u] \in Nat /\ rank[u] < size
  <2>1. /\ IsFiniteSet(S \ {u}) /\ Cardinality(S \ {u}) = size - 1
    BY FS_RemoveElement
  <2>2. above(u) \in SUBSET (S \ {u})
    OBVIOUS
  <2>3. IsFiniteSet(above(u)) /\ Cardinality(above(u)) <= size - 1
    BY <2>1, <2>2, FS_Subset
  <2>4. Cardinality(above(u)) \in Nat
    BY <2>3, FS_CardinalityType
  <2> QED BY <1>1, <2>3, <2>4
<1>3. ASSUME NEW u \in S, NEW w \in S, u < w PROVE rank[w] < rank[u]
  <2>1. above(w) \in SUBSET above(u) /\ w \in above(u) /\ w \notin above(w)
    <3>1. u \in Nat /\ w \in Nat
      OBVIOUS
    <3>2. \A v \in S : v > w => v > u
      BY <1>3, <3>1
    <3>3. above(w) \in SUBSET above(u)
      BY <3>2
    <3>4. ~(w > w)
      BY <3>1
    <3> QED BY <1>3, <3>3, <3>4
  <2>2. /\ Cardinality(above(w)) <= Cardinality(above(u))
        /\ Cardinality(above(w)) # Cardinality(above(u))
    BY <1>2, <2>1, FS_Subset
  <2> QED BY <1>2, <2>2
<1> HIDE DEF above
<1>4. \A u, w \in S : rank[u] = rank[w] => u = w
  <2> SUFFICES ASSUME NEW u \in S, NEW w \in S, rank[u] = rank[w] PROVE u = w
    OBVIOUS
  <2>1. ~(u < w) /\ ~(w < u)
    BY <1>2, <1>3
  <2> QED BY <2>1
<1>5. rank \in [S -> 0 .. (size - 1)]
  BY <1>1, <1>2
<1>6. \A k \in 0 .. (size - 1) : \E u \in S : rank[u] = k
  <2>1. rank \in Injection(S, 0 .. (size - 1))
    BY <1>4, <1>5 DEF Injection, IsInjective
  <2>2. IsFiniteSet(0 .. (size - 1)) /\ Cardinality(0 .. (size - 1)) = size
    <3>1. 0 \in Int /\ size - 1 \in Int /\ (size - 1) - 0 + 1 = size /\ size - 1 >= 0 - 1
      BY <1>1
    <3>2. /\ IsFiniteSet(0 .. (size - 1))
          /\ Cardinality(0 .. (size - 1)) = IF 0 > size - 1 THEN 0 ELSE (size - 1) - 0 + 1
      BY <3>1, FS_Interval
    <3> QED BY <1>1, <3>2
  <2>3. rank \in Surjection(S, 0 .. (size - 1))
    BY <2>1, <2>2, FS_Injection
  <2> QED BY <2>3 DEF Surjection
<1>7. Highest(S, n) = {u \in S : rank[u] < n}
  BY DEF Highest, above
<1> DEFINE high == {u \in S : rank[u] < n}
           part == [u \in high |-> rank[u]]
<1>8. IsFiniteSet(high)
  BY FS_Subset
<1>9. part \in [high -> 0 .. (n - 1)]
  <2>1. \A u \in high : rank[u] \in 0 .. (n - 1)
    BY <1>2
  <2> QED BY <2>1
<1>10. \A k \in 0 .. (n - 1) : \E u \in high : part[u] = k
  BY <1>1, <1>6
<1>11. \A u, w \in high : part[u] = part[w] => u = w
  BY <1>4
<1> HIDE DEF high, part
<1>12. Cardinality(0 .. (n - 1)) = Cardinality(high)
  <2>1. \A k \in 0 .. (n - 1) : \E u \in high : part[u] = k
    BY <1>10
  <2>2. \A u, w \in high : part[u] = part[w] => u = w
    BY <1>11
  <2>3. IsFiniteSet(high) /\ part \in [high -> 0 .. (n - 1)]
    BY <1>8, <1>9
  <2> DEFINE span == 0 .. (n - 1)
  <2>4. part \in [high -> span] /\ \A k \in span : \E u \in high : part[u] = k
    BY <2>1, <2>3
  <2> HIDE DEF rank, size, span
  <2>5. Cardinality(span) = Cardinality(high)
    BY <2>2, <2>3, <2>4, SameCount
  <2> QED BY <2>5 DEF span
<1>13. Cardinality(0 .. (n - 1)) = n
  BY FS_Interval
<1> QED BY <1>7, <1>8, <1>12, <1>13 DEF high

\* They are among any n that are above all the others.
LEMMA HighestAmong ==
  ASSUME NEW S \in SUBSET Nat, IsFiniteSet(S), NEW own \in SUBSET S,
         \A u \in own, v \in S \ own : v < u,
         NEW n \in Nat, n <= Cardinality(own)
  PROVE  Highest(S, n) \subseteq own
<1> SUFFICES ASSUME NEW u \in Highest(S, n), u \notin own PROVE FALSE
  OBVIOUS
<1> DEFINE above == {v \in S : v > u}
<1>1. u \in S /\ Cardinality(above) < n
  BY DEF Highest
<1>2. own \in SUBSET above
  BY <1>1
<1>3. IsFiniteSet(above)
  BY FS_Subset
<1>4. Cardinality(own) <= Cardinality(above)
  BY <1>2, <1>3, FS_Subset
<1>5. Cardinality(own) \in Nat /\ Cardinality(above) \in Nat
  BY <1>2, <1>3, FS_Subset, FS_CardinalityType
<1> QED BY <1>1, <1>4, <1>5

-----------------------------------------------------------------------------
\* The delete does what SoftDelete promises, as long as nobody else moves mail.

\* What a move or a copy into another mailbox does to both.
PutInto(src, dst, es, kept) ==
  /\ mail'[src] = IF kept THEN mail[src] ELSE mail[src] \ es
  /\ \A b \in Boxes \ {src, dst} : mail'[b] = mail[b]
  /\ mail[dst] \subseteq mail'[dst]
  /\ \A e \in mail'[dst] :
       e \in mail[dst] \/ (e.uid > uidnext[dst] /\ \E d \in es : d.msg = e.msg)
  /\ \A e \in es : \E d \in mail'[dst] \ mail[dst] : d.msg = e.msg
  /\ (\A e, d \in es : e.msg = d.msg => e = d) =>
       \A e, d \in mail'[dst] \ mail[dst] : e.msg = d.msg => e = d
  /\ IsFiniteSet(mail[dst]) /\ IsFiniteSet(es) => IsFiniteSet(mail'[dst])
  /\ uidnext[dst] \in Nat /\ uidnext'[dst] \in Nat /\ uidnext[dst] <= uidnext'[dst]

LEMMA PutIntoIs ==
  ASSUME MailInv, NEW src \in Boxes, NEW dst \in Boxes, src # dst,
         NEW es, es \subseteq mail[src], NEW kept \in BOOLEAN,
         (kept /\ CopyEntries(src, dst, es)) \/ (~kept /\ MoveEntries(src, dst, es))
  PROVE  PutInto(src, dst, es, kept)
<1> DEFINE fresh == Entering(dst, es)
<1>1. mail \in [Boxes -> SUBSET Entry] /\ uidnext \in [Boxes -> Nat]
  BY DEF MailInv, MailTypeOK
<1>2. \A e \in fresh : e.uid > uidnext[dst]
  BY EnteringIsFresh
<1>3. \A e \in fresh : \E d \in es : d.msg = e.msg
  BY DEF Entering
<1>4. \A e \in es : \E d \in fresh : d.msg = e.msg
  <2> SUFFICES ASSUME NEW e \in es PROVE \E d \in fresh : d.msg = e.msg
    OBVIOUS
  <2>1. [uid |-> uidnext[dst] + e.uid, msg |-> e.msg, deleted |-> FALSE] \in fresh
    BY DEF Entering
  <2>2. [uid |-> uidnext[dst] + e.uid, msg |-> e.msg, deleted |-> FALSE].msg = e.msg
    OBVIOUS
  <2> QED BY <2>1, <2>2, Zenon
<1>5. /\ mail' = IF kept THEN [mail EXCEPT ![dst] = @ \cup fresh]
                         ELSE [mail EXCEPT ![src] = @ \ es, ![dst] = @ \cup fresh]
      /\ uidnext' = [uidnext EXCEPT ![dst] = @ + uidnext[src]]
  BY DEF MoveEntries, CopyEntries
<1> HIDE DEF fresh
<1>6. /\ mail'[src] = IF kept THEN mail[src] ELSE mail[src] \ es
      /\ \A b \in Boxes \ {src, dst} : mail'[b] = mail[b]
      /\ mail'[dst] = mail[dst] \cup fresh
  BY <1>1, <1>5
<1>7. uidnext[dst] \in Nat /\ uidnext'[dst] \in Nat /\ uidnext[dst] <= uidnext'[dst]
  BY <1>1, <1>5
<1>8. fresh \cap mail[dst] = {}
  <2>1. \A e \in mail[dst] : e.uid < uidnext[dst] /\ e.uid \in Nat
    BY <1>1 DEF MailInv, UidsOK, Entry, Uids
  <2> QED BY <1>2, <1>7, <2>1
<1>9. (\A e, d \in es : e.msg = d.msg => e = d) =>
        \A e, d \in mail'[dst] \ mail[dst] : e.msg = d.msg => e = d
  <2> SUFFICES ASSUME \A e, d \in es : e.msg = d.msg => e = d,
                      NEW e \in fresh, NEW d \in fresh, e.msg = d.msg
               PROVE  e = d
    BY <1>6
  <2>1. PICK x \in es : e = [uid |-> uidnext[dst] + x.uid, msg |-> x.msg, deleted |-> FALSE]
    BY DEF fresh, Entering
  <2>2. PICK y \in es : d = [uid |-> uidnext[dst] + y.uid, msg |-> y.msg, deleted |-> FALSE]
    BY DEF fresh, Entering
  <2>3. x = y
    BY <2>1, <2>2
  <2> QED BY <2>1, <2>2, <2>3
<1>10. IsFiniteSet(mail[dst]) /\ IsFiniteSet(es) => IsFiniteSet(mail'[dst])
  <2> SUFFICES ASSUME IsFiniteSet(mail[dst]), IsFiniteSet(es) PROVE IsFiniteSet(mail'[dst])
    OBVIOUS
  <2> DEFINE enter == [e \in es |-> [uid |-> uidnext[dst] + e.uid, msg |-> e.msg, deleted |-> FALSE]]
  <2>1. enter \in [es -> fresh] /\ \A d \in fresh : \E e \in es : enter[e] = d
    BY DEF fresh, Entering
  <2> HIDE DEF enter
  <2>2. IsFiniteSet(fresh)
    BY <2>1, FiniteImage
  <2>3. IsFiniteSet(mail[dst] \cup fresh)
    BY <2>2, FS_Union
  <2> QED BY <1>6, <2>3
<1> QED BY <1>2, <1>3, <1>4, <1>6, <1>7, <1>8, <1>9, <1>10 DEF PutInto

LEMMA HeldByIs ==
  ASSUME NEW c, NEW b \in Boxes
  PROVE  b \in HeldBy(c) <=> \E e \in mail[b] : e.msg = c
BY DEF HeldBy

\* An entry of a folder that is not in Trash yet is the only one of its message.
LEMMA OneHome ==
  ASSUME IInv, HomesOK, NEW f \in Folders, NEW e \in mail[f]
  PROVE  /\ e.msg \in Copies /\ Home[e.msg] = f
         /\ f \in HeldBy(e.msg) /\ HeldBy(e.msg) \subseteq {f, Trash}
         /\ e.msg \notin Discarded => HeldBy(e.msg) = {f}
         /\ \A d \in mail[f] : d.msg = e.msg => d = e
<1>1. /\ f \in Boxes /\ Trash \in Boxes /\ f # Trash /\ mail \in [Boxes -> SUBSET Entry] /\ UidsOK
  BY Start, BoxAssumption DEF Boxes, MailInv, MailTypeOK
<1>2. e.msg \in Copies /\ Home[e.msg] = f
  BY <1>1 DEF Entry, HomesOK
<1>3. ASSUME NEW b \in HeldBy(e.msg) PROVE b = f \/ (b = Trash /\ e.msg \in Discarded)
  <2>1. b \in Boxes /\ \E d \in mail[b] : d.msg = e.msg
    BY <1>3 DEF HeldBy
  <2> QED BY <1>1, <1>2, <2>1 DEF HomesOK, Boxes
<1>4. f \in HeldBy(e.msg)
  BY <1>1, HeldByIs
<1>5. ASSUME NEW d \in mail[f], d.msg = e.msg PROVE d = e
  <2>1. d.uid = e.uid
    BY <1>5 DEF HomesOK
  <2> QED BY <1>1, <2>1 DEF UidsOK
<1> QED BY <1>2, <1>3, <1>4, <1>5

Msgs(es) == {e.msg : e \in es}

\* Messages of a folder put into Trash, by a move or by a copy, are discarded.
LEMMA PutIntoTrash ==
  ASSUME IInv, HomesOK, NEW f \in Folders, NEW es \in SUBSET mail[f], NEW kept \in BOOLEAN,
         (kept /\ CopyEntries(f, Trash, es)) \/ (~kept /\ MoveEntries(f, Trash, es)),
         Record(f, Trash, es), \A e \in es : e.msg \notin Discarded
  PROVE  /\ HomesOK'
         /\ Discarded' = Discarded \cup Msgs(es)
         /\ \A b \in Folders : mail'[b] \subseteq mail[b]
         /\ \A b \in Folders \ {f} : mail'[b] = mail[b]
         /\ mail'[f] = IF kept THEN mail[f] ELSE mail[f] \ es
         /\ Promise!Discard(Msgs(es))
<1>1. /\ f \in Boxes /\ Trash \in Boxes /\ f # Trash /\ MailInv
      /\ Folders \subseteq Boxes /\ Boxes = Folders \cup {Trash} /\ Trash \notin Folders
      /\ es \subseteq mail[f]
  BY Start, BoxAssumption DEF Boxes
<1>2. /\ mail'[f] = IF kept THEN mail[f] ELSE mail[f] \ es
      /\ \A b \in Boxes \ {f, Trash} : mail'[b] = mail[b]
      /\ mail[Trash] \subseteq mail'[Trash]
      /\ \A e \in mail'[Trash] :
           e \in mail[Trash] \/ (e.uid > uidnext[Trash] /\ \E d \in es : d.msg = e.msg)
      /\ \A e \in es : \E d \in mail'[Trash] : d.msg = e.msg
      /\ (\A e, d \in es : e.msg = d.msg => e = d) =>
           \A e, d \in mail'[Trash] \ mail[Trash] : e.msg = d.msg => e = d
      /\ uidnext[Trash] \in Nat /\ uidnext'[Trash] \in Nat /\ uidnext[Trash] <= uidnext'[Trash]
  <2>1. PutInto(f, Trash, es, kept)
    BY <1>1, PutIntoIs
  <2> QED BY <1>1, <2>1 DEF PutInto
<1>3. /\ trashed' = trashed \cup {[folder |-> f, uid |-> e.uid, msg |-> e.msg] : e \in es}
      /\ restored' = restored
  BY <1>1 DEF Record
<1>4. Discarded' = Discarded \cup Msgs(es)
  <2> DEFINE gone(e) == [folder |-> f, uid |-> e.uid, msg |-> e.msg]
  <2>1. \A e : gone(e).msg = e.msg
    OBVIOUS
  <2>2. trashed' = trashed \cup {gone(e) : e \in es}
    BY <1>3
  <2> HIDE DEF gone
  <2>3. Discarded' = Discarded \cup {gone(e).msg : e \in es}
    BY <2>2 DEF Discarded
  <2> QED BY <2>1, <2>3 DEF Msgs
<1>5. \A e \in es :
        /\ e.msg \in Copies /\ Home[e.msg] = f /\ HeldBy(e.msg) = {f}
        /\ \A d \in mail[f] : d.msg = e.msg => d = e
  BY OneHome
<1>6. \A c \in Msgs(es) : /\ c \in Copies /\ Home[c] = f /\ HeldBy(c) = {f} /\ c \notin Discarded
                          /\ Trash \in HeldBy(c)'
  <2> SUFFICES ASSUME NEW e \in es
               PROVE  /\ e.msg \in Copies /\ Home[e.msg] = f /\ HeldBy(e.msg) = {f}
                      /\ e.msg \notin Discarded /\ Trash \in HeldBy(e.msg)'
    BY DEF Msgs
  <2> QED BY <1>1, <1>2, <1>5 DEF HeldBy
<1>7. ASSUME NEW c \in Copies \ Msgs(es) PROVE HeldBy(c)' = HeldBy(c)
  <2>1. \A b \in Boxes : (\E e \in mail'[b] : e.msg = c) <=> (\E e \in mail[b] : e.msg = c)
    <3> SUFFICES ASSUME NEW b \in Boxes
                 PROVE  (\E e \in mail'[b] : e.msg = c) <=> (\E e \in mail[b] : e.msg = c)
      OBVIOUS
    <3>1. \A e \in es : e.msg # c
      BY DEF Msgs
    <3>2. CASE b = f
      BY <1>2, <3>1, <3>2
    <3>3. CASE b = Trash
      BY <1>2, <3>1, <3>3
    <3> QED BY <1>2, <3>2, <3>3
  <2> QED BY <2>1 DEF HeldBy
<1>8. \A c \in Msgs(es) : HeldBy(c)' = {Trash} \cup (IF kept THEN HeldBy(c) ELSE {})
  <2> SUFFICES ASSUME NEW e \in es
               PROVE  HeldBy(e.msg)' = {Trash} \cup (IF kept THEN HeldBy(e.msg) ELSE {})
    BY DEF Msgs
  <2>1. \A b \in Boxes \ {f, Trash} : ~\E d \in mail'[b] : d.msg = e.msg
    <3>1. \A b \in Boxes \ {f, Trash} : b \notin HeldBy(e.msg)
      BY <1>5
    <3> QED BY <1>2, <3>1 DEF HeldBy
  <2>2. (\E d \in mail'[f] : d.msg = e.msg) <=> kept
    BY <1>2, <1>5
  <2>3. \E d \in mail'[Trash] : d.msg = e.msg
    BY <1>2
  <2> QED BY <1>1, <1>5, <2>1, <2>2, <2>3 DEF HeldBy
<1>9. HomesOK'
  <2>1. \A b \in Folders : mail'[b] \subseteq mail[b]
    BY <1>1, <1>2
  <2>2. \A b \in Folders : \A e \in mail'[b] : Home[e.msg] = b /\ e.uid = FirstUid[e.msg]
    BY <2>1 DEF HomesOK
  <2>3. ASSUME NEW e \in mail'[Trash]
        PROVE  IF Home[e.msg] = Trash THEN e.uid < FirstNext
                                      ELSE e.uid > FirstNext /\ e.msg \in Discarded'
    <3>1. CASE e \in mail[Trash]
      BY <1>4, <3>1 DEF HomesOK
    <3>2. CASE e \notin mail[Trash]
      <4>1. e.uid > uidnext[Trash] /\ e.msg \in Msgs(es)
        BY <1>2, <3>2 DEF Msgs
      <4>2. Home[e.msg] # Trash /\ e.msg \in Discarded'
        BY <1>1, <1>4, <1>6, <4>1
      <4>3. FirstNext <= uidnext[Trash] /\ FirstNext \in Nat /\ e.uid \in Nat
        <5>1. e.uid \in Nat
          BY <1>1, MoveKeeps, CopyKeeps DEF BoxesOK, Entry, Uids
        <5> QED BY <5>1, CopyAssumption DEF HomesOK
      <4> QED BY <1>2, <4>1, <4>2, <4>3
    <3> QED BY <3>1, <3>2
  <2>4. FirstNext <= uidnext'[Trash]
    BY <1>2, CopyAssumption DEF HomesOK
  <2>5. \A c \in Discarded' : Trash \in HeldBy(c)'
    <3>1. ASSUME NEW c \in Discarded, c \notin Msgs(es) PROVE Trash \in HeldBy(c)'
      <4>1. c \in Copies
        BY Start DEF Discarded, MailInv, MailTypeOK
      <4> QED BY <1>7, <3>1, <4>1 DEF HomesOK
    <3> QED BY <1>4, <1>6, <3>1
  <2>6. \A t \in trashed' : /\ t.folder = Home[t.msg] /\ t.uid = FirstUid[t.msg]
                            /\ t.folder \in Folders
    <3>1. \A e \in es : Home[e.msg] = f /\ e.uid = FirstUid[e.msg]
      BY <1>1 DEF HomesOK
    <3> QED BY <1>3, <3>1 DEF HomesOK
  <2>7. \A e, d \in mail'[Trash] : e.msg = d.msg => e = d
    <3>1. \A e \in mail'[Trash] \ mail[Trash] : e.msg \in Msgs(es)
      BY <1>2 DEF Msgs
    <3>2. \A e \in mail[Trash] : e.msg \notin Msgs(es)
      BY <1>1, <1>6, HeldByIs
    <3> QED BY <1>2, <1>5, <3>1, <3>2 DEF HomesOK
  <2> QED BY <1>3, <2>2, <2>3, <2>4, <2>5, <2>6, <2>7 DEF HomesOK
<1>10. Promise!Discard(Msgs(es))
  <2>1. \A c \in Copies : HeldBy(c)' = IF c \in Msgs(es)
                                         THEN {Trash} \cup (IF kept THEN HeldBy(c) ELSE {})
                                         ELSE HeldBy(c)
    BY <1>7, <1>8
  <2>2. Promise!Put(Msgs(es), Trash)
    BY <2>1 DEF Promise!Put
  <2>3. Msgs(es) \subseteq Copies
    BY <1>6
  <2> QED BY <1>3, <1>4, <1>6, <2>2, <2>3 DEF Promise!Discard
<1>11. /\ \A b \in Folders : mail'[b] \subseteq mail[b]
       /\ \A b \in Folders \ {f} : mail'[b] = mail[b]
  BY <1>1, <1>2
<1> QED BY <1>2, <1>4, <1>9, <1>10, <1>11

\* Steps of SoftDelete, one that moves nothing among them.
PromiseStep == Promise!Next \/ UNCHANGED Promise!places

LEMMA PromiseUnchanged ==
  ASSUME UNCHANGED <<mail, trashed, restored>>
  PROVE  PromiseStep
BY DEF PromiseStep, Promise!places, HeldBy, Discarded

LEMMA DiscardIsStep ==
  ASSUME NEW ls \in SUBSET Copies, Promise!Discard(ls)
  PROVE  PromiseStep
<1>1. CASE ls # {}
  <2>1. ls \in (SUBSET Copies) \ {{}}
    BY <1>1
  <2> QED BY <2>1 DEF PromiseStep, Promise!Next
<1>2. CASE ls = {}
  <2>1. Discarded' = Discarded /\ restored' = restored
    BY <1>2 DEF Promise!Discard
  <2>2. [c \in Copies |-> HeldBy(c)]' = [c \in Copies |-> HeldBy(c)]
    BY <1>2 DEF Promise!Discard, Promise!Put
  <2> QED BY <2>1, <2>2 DEF PromiseStep, Promise!places
<1> QED BY <1>1, <1>2

LEMMA RemoveIsStep ==
  ASSUME NEW ls \in SUBSET Copies, NEW b \in Boxes, Promise!Remove(ls, b)
  PROVE  PromiseStep
<1>1. CASE ls # {}
  <2>1. ls \in (SUBSET Copies) \ {{}}
    BY <1>1
  <2> QED BY <2>1 DEF PromiseStep, Promise!Next, Boxes
<1>2. CASE ls = {}
  <2>1. Discarded' = Discarded /\ restored' = restored
    BY DEF Promise!Remove
  <2>2. [c \in Copies |-> HeldBy(c)]' = [c \in Copies |-> HeldBy(c)]
    BY <1>2 DEF Promise!Remove
  <2> QED BY <2>1, <2>2 DEF PromiseStep, Promise!places
<1> QED BY <1>1, <1>2

\* Every entry of the folder after the step is one of before, its flags aside.
SameEntries(f) == \A e \in mail'[f] : \E o \in mail[f] : o.uid = e.uid /\ o.msg = e.msg

LEMMA HomesKept ==
  ASSUME HomesOK, UNCHANGED <<trashed, restored, uidnext>>, mail'[Trash] = mail[Trash],
         \A f \in Folders : SameEntries(f)
  PROVE  HomesOK'
<1>1. \A f \in Folders : \A e \in mail'[f] : Home[e.msg] = f /\ e.uid = FirstUid[e.msg]
  BY DEF HomesOK, SameEntries
<1>2. Discarded' = Discarded
  BY DEF Discarded
<1>3. \A c \in Discarded : Trash \in HeldBy(c)'
  BY DEF HomesOK, HeldBy, Boxes
<1> QED BY <1>1, <1>2, <1>3 DEF HomesOK

LEMMA WaitsStays ==
  ASSUME IInv, HomesOK, NEW f \in Folders, NEW es \in SUBSET mail[f],
         Discarded' = Discarded \cup Msgs(es),
         NEW g \in Folders, SameEntries(g), NEW U, Waits(g, U),
         g = f => \A e \in es : e.uid \notin U
  PROVE  Waits(g, U)'
<1> SUFFICES ASSUME NEW e \in mail'[g], e.uid \in U PROVE e.msg \notin Discarded'
  BY DEF Waits
<1>1. PICK o \in mail[g] : o.uid = e.uid /\ o.msg = e.msg
  BY DEF SameEntries
<1>2. o.msg \notin Discarded
  BY <1>1 DEF Waits
<1>3. ASSUME NEW d \in es, d.msg = o.msg PROVE FALSE
  <2>1. Home[d.msg] = f /\ Home[o.msg] = g
    BY DEF HomesOK
  <2>2. d = o
    BY <1>3, <2>1, OneHome
  <2> QED BY <1>1, <1>3, <2>1, <2>2
<1> QED BY <1>1, <1>2, <1>3 DEF Msgs

\* What a command of the delete starts from.
LEMMA DeleteCall ==
  ASSUME IInv, OwnerInv, pc = "moving", MoveStep
  PROVE  /\ folder \in Folders /\ mv.src = folder /\ mv.dst = Trash
         /\ mv.todo \subseteq Batch /\ Chunk \subseteq mv.todo
         /\ mv \in Calls /\ MailInv /\ MoveUIDs /\ CallOut
         /\ mail \in [Boxes -> SUBSET Entry] /\ Folders \subseteq Boxes /\ Trash \notin Folders
         /\ UNCHANGED <<pc, folder, queue, todo, undos, upc>> /\ Batch' = Batch
<1>1. MailInv /\ MoveUIDs /\ InCall /\ mv \in Calls /\ mail \in [Boxes -> SUBSET Entry]
  BY Start, MoveUIDsKeeps DEF MoveStep, MailInv, MailTypeOK
<1>2. folder \in Folders /\ mv.todo \subseteq Batch
  BY Start DEF FolderInv, InFolder, BatchInv
<1>3. mv.src = folder /\ mv.dst = Trash
  BY <1>1, Start DEF OwnerInv, CallOut, InCall, CallInv, UndoRunning, RunEnded
<1>4. UNCHANGED <<pc, folder, queue, todo, undos, upc>>
  BY DEF MoveStep, applyVars, runVars, undoVars
<1>5. Batch' = Batch
  BY <1>4 DEF Batch
<1>6. Chunk \subseteq mv.todo
  BY BoundsAreSubsets DEF Chunk
<1> QED BY <1>1, <1>2, <1>3, <1>4, <1>5, <1>6, BoxAssumption DEF InCall, CallOut, Boxes

\* The part of WaitingOK that is about the call that is out.
CallWaits ==
  /\ mv.pc = "chunk" => Waits(folder, mv.todo)
  /\ mv.pc \in {"store", "expunge"} =>
       /\ Waits(folder, mv.todo \ mv.chunk)
       /\ \A e \in At(folder, mv.chunk) : e.msg \in Discarded

LEMMA MovingWaits ==
  ASSUME IInv, OwnerInv, HomesOK, WaitingOK, pc = "moving", MoveStep,
         NEW es \in SUBSET mail[folder], \A e \in es : e.uid \in mv.todo,
         Discarded' = Discarded \cup Msgs(es), \A g \in Folders : SameEntries(g),
         CallWaits'
  PROVE  WaitingOK'
<1>1. /\ folder \in Folders /\ mv.todo \subseteq Batch
      /\ UNCHANGED <<pc, folder, queue, todo>> /\ Batch' = Batch /\ todo \subseteq Folders
  BY DeleteCall, Start DEF ApplyTypeOK
<1>2. ASSUME NEW g \in todo PROVE Waits(g, Uids)'
  <2>1. g \in Folders /\ g # folder /\ Waits(g, Uids)
    BY <1>1, <1>2 DEF WaitingOK, InFolder
  <2> QED BY <1>1, <2>1, WaitsStays
<1>3. Waits(folder, queue \ Batch)'
  <2>1. Waits(folder, queue \ Batch) /\ \A e \in es : e.uid \notin queue \ Batch
    BY <1>1 DEF WaitingOK
  <2>2. \A g \in Folders : g = folder => Waits(g, queue \ Batch)'
    BY <1>1, <2>1, WaitsStays
  <2> QED BY <1>1, <2>2 DEF Waits
<1>4. folder' \notin todo'
  BY <1>1 DEF WaitingOK, InFolder
<1> QED BY <1>1, <1>2, <1>3, <1>4 DEF WaitingOK, CallWaits, InFolder

\* MOVE and COPY.
LEMMA DeletePuts ==
  ASSUME IInv, OwnerInv, HomesOK, WaitingOK, pc = "moving", MoveStep, UidMove \/ UidCopy
  PROVE  HomesOK' /\ WaitingOK' /\ PromiseStep
<1>1. /\ folder \in Folders /\ mv.src = folder /\ mv.dst = Trash
      /\ Chunk \subseteq mv.todo /\ mv \in Calls /\ mv.pc = "chunk"
      /\ UNCHANGED <<pc, folder>>
  BY DeleteCall DEF UidMove, UidCopy
<1>2. Waits(folder, mv.todo)
  BY <1>1 DEF WaitingOK
<1>3. PICK kept \in BOOLEAN, es \in SUBSET At(folder, Chunk) :
        /\ (kept /\ CopyEntries(folder, Trash, es)) \/ (~kept /\ MoveEntries(folder, Trash, es))
        /\ Record(folder, Trash, es)
        /\ \/ MoveError
           \/ ~kept /\ es = At(folder, Chunk) /\ ChunkDone(Chunk)
           \/ kept /\ es = At(folder, Chunk) /\ mv' = [mv EXCEPT !.pc = "store", !.chunk = Chunk]
  <2>1. CASE UidMove
    <3>1. \E es \in SUBSET At(folder, Chunk) :
            /\ MoveEntries(folder, Trash, es) /\ Record(folder, Trash, es)
            /\ MoveError \/ (es = At(folder, Chunk) /\ ChunkDone(Chunk))
      BY <1>1, <2>1 DEF UidMove
    <3> QED BY <3>1
  <2>2. CASE UidCopy
    <3>1. \E es \in SUBSET At(folder, Chunk) :
            /\ CopyEntries(folder, Trash, es) /\ Record(folder, Trash, es)
            /\ \/ MoveError
               \/ es = At(folder, Chunk) /\ mv' = [mv EXCEPT !.pc = "store", !.chunk = Chunk]
      BY <1>1, <2>2 DEF UidCopy
    <3> QED BY <3>1
  <2> QED BY <2>1, <2>2
<1>4. es \in SUBSET mail[folder] /\ \A e \in es : e.uid \in Chunk /\ e.uid \in mv.todo
  BY <1>1, AtIsSubset
<1>5. \A e \in es : e.msg \notin Discarded
  BY <1>2, <1>4 DEF Waits
<1>6. /\ HomesOK' /\ Discarded' = Discarded \cup Msgs(es)
      /\ \A b \in Folders : mail'[b] \subseteq mail[b]
      /\ mail'[folder] = IF kept THEN mail[folder] ELSE mail[folder] \ es
      /\ Promise!Discard(Msgs(es))
  BY <1>1, <1>3, <1>4, <1>5, PutIntoTrash
<1>7. PromiseStep
  <2>1. Msgs(es) \in SUBSET Copies
    BY <1>1, <1>4, OneHome DEF Msgs
  <2> QED BY <1>6, <2>1, DiscardIsStep
<1>8. \A g \in Folders : SameEntries(g)
  BY <1>6 DEF SameEntries
<1>9. CallWaits'
  <2>1. CASE MoveError
    <3>1. mv'.pc = "err"
      BY <1>1, <2>1 DEF MoveError, Calls
    <3> QED BY <3>1 DEF CallWaits
  <2>2. ASSUME es = At(folder, Chunk), NEW e \in mail'[folder], e.uid \in mv.todo \ Chunk
        PROVE  e.msg \notin Discarded'
    <3>1. Waits(folder, mv.todo \ Chunk)
      BY <1>2 DEF Waits
    <3>2. ASSUME NEW U, U = mv.todo \ Chunk PROVE Waits(folder, U)'
      <4>1. Waits(folder, U) /\ \A d \in es : d.uid \notin U
        BY <1>4, <3>1, <3>2
      <4>2. \A g \in Folders : g = folder => Waits(g, U)'
        BY <1>1, <1>4, <1>6, <1>8, <4>1, WaitsStays
      <4> QED BY <1>1, <4>2 DEF Waits
    <3> QED BY <1>1, <2>2, <3>2 DEF Waits
  <2>3. CASE es = At(folder, Chunk) /\ ChunkDone(Chunk)
    <3>1. mv'.todo = mv.todo \ Chunk /\ mv'.pc \in {"ok", "chunk"}
      BY <1>1, <2>3 DEF ChunkDone, Calls
    <3> QED BY <1>1, <2>2, <2>3, <3>1 DEF CallWaits, Waits
  <2>4. CASE kept /\ es = At(folder, Chunk) /\ mv' = [mv EXCEPT !.pc = "store", !.chunk = Chunk]
    <3>1. mv'.todo = mv.todo /\ mv'.chunk = Chunk /\ mv'.pc = "store"
      BY <1>1, <2>4 DEF Calls
    <3>2. \A e \in mail'[folder] : e.uid \in Chunk => e \in es
      BY <1>6, <2>4 DEF At
    <3>3. \A e \in At(folder, mv.chunk)' : e.msg \in Discarded'
      BY <1>1, <1>6, <3>1, <3>2 DEF At, Msgs
    <3>4. Waits(folder, mv.todo \ mv.chunk)'
      BY <1>1, <2>2, <2>4, <3>1 DEF Waits
    <3> QED BY <3>1, <3>3, <3>4 DEF CallWaits
  <2> QED BY <1>3, <2>1, <2>3, <2>4
<1> QED BY <1>4, <1>6, <1>7, <1>8, <1>9, MovingWaits

\* STORE marks the entries; every mailbox holds the messages it held.
LEMMA MarkIs ==
  ASSUME MailInv, NEW box \in Boxes, NEW es \in SUBSET mail[box], MarkDeleted(box, es)
  PROVE  /\ \A b \in Boxes \ {box} : mail'[b] = mail[b]
         /\ SameEntries(box)
         /\ \A e \in mail[box] : \E d \in mail'[box] : d.uid = e.uid /\ d.msg = e.msg
         /\ \A c : HeldBy(c)' = HeldBy(c)
<1> DEFINE mark(e) == [e EXCEPT !.deleted = TRUE]
<1>1. mail \in [Boxes -> SUBSET Entry]
  BY DEF MailInv, MailTypeOK
<1>2. \A e \in mail[box] : mark(e).uid = e.uid /\ mark(e).msg = e.msg
  BY <1>1 DEF Entry
<1>3. mail' = [mail EXCEPT ![box] = (@ \ es) \cup {mark(e) : e \in es}]
  BY DEF MarkDeleted
<1> HIDE DEF mark
<1>4. /\ \A b \in Boxes \ {box} : mail'[b] = mail[b]
      /\ mail'[box] = (mail[box] \ es) \cup {mark(e) : e \in es}
  BY <1>1, <1>3
<1>5. \A e \in mail'[box] : \E o \in mail[box] : o.uid = e.uid /\ o.msg = e.msg
  BY <1>2, <1>4
<1>6. \A e \in mail[box] : \E d \in mail'[box] : d.uid = e.uid /\ d.msg = e.msg
  BY <1>2, <1>4
<1>7. ASSUME NEW c PROVE HeldBy(c)' = HeldBy(c)
  <2>1. \A b \in Boxes : (\E e \in mail'[b] : e.msg = c) <=> (\E e \in mail[b] : e.msg = c)
    BY <1>4, <1>5, <1>6
  <2> QED BY <2>1 DEF HeldBy
<1> QED BY <1>4, <1>5, <1>6, <1>7 DEF SameEntries

LEMMA DeleteMarks ==
  ASSUME IInv, OwnerInv, HomesOK, WaitingOK, pc = "moving", MoveStep, UidStore
  PROVE  HomesOK' /\ WaitingOK' /\ PromiseStep
<1>1. /\ folder \in Folders /\ folder \in Boxes /\ Trash \in Boxes /\ Trash # folder
      /\ Folders \subseteq Boxes /\ mv.src = folder /\ MailInv
      /\ mv \in Calls /\ mv.pc = "store" /\ UNCHANGED <<pc, folder>>
  BY DeleteCall, BoxAssumption DEF UidStore, Boxes
<1>2. PICK es \in SUBSET At(folder, mv.chunk) :
        MarkDeleted(folder, es) /\ (mv' = [mv EXCEPT !.pc = "expunge"] \/ MoveError)
  BY <1>1 DEF UidStore
<1>3. /\ \A b \in Boxes \ {folder} : mail'[b] = mail[b]
      /\ SameEntries(folder) /\ \A c : HeldBy(c)' = HeldBy(c)
  <2>1. es \in SUBSET mail[folder]
    BY AtIsSubset
  <2> QED BY <1>1, <1>2, <2>1, MarkIs
<1>4. UNCHANGED <<trashed, restored, uidnext>> /\ Discarded' = Discarded
  BY DEF UidStore, Discarded
<1>5. \A g \in Folders : SameEntries(g)
  BY <1>1, <1>3 DEF SameEntries
<1>6. HomesOK'
  BY <1>1, <1>3, <1>4, <1>5, HomesKept
<1>7. PromiseStep
  BY <1>3, <1>4 DEF PromiseStep, Promise!places
<1>8. CallWaits'
  <2>1. CASE MoveError
    <3>1. mv'.pc = "err"
      BY <1>1, <2>1 DEF MoveError, Calls
    <3> QED BY <3>1 DEF CallWaits
  <2>2. CASE mv' = [mv EXCEPT !.pc = "expunge"]
    <3>1. mv'.pc = "expunge" /\ mv'.todo = mv.todo /\ mv'.chunk = mv.chunk
      BY <1>1, <2>2 DEF Calls
    <3>2. /\ \A e \in mail[folder] : e.uid \in mv.todo \ mv.chunk => e.msg \notin Discarded
          /\ \A e \in mail[folder] : e.uid \in mv.chunk => e.msg \in Discarded
      BY <1>1 DEF WaitingOK, Waits, At
    <3>3. /\ \A e \in mail'[folder] : e.uid \in mv.todo \ mv.chunk => e.msg \notin Discarded
          /\ \A e \in mail'[folder] : e.uid \in mv.chunk => e.msg \in Discarded
      BY <1>3, <3>2 DEF SameEntries
    <3> QED BY <1>1, <1>4, <3>1, <3>3 DEF CallWaits, Waits, At
  <2> QED BY <1>2, <2>1, <2>2
<1>9. \A none \in SUBSET {} : Discarded' = Discarded \cup Msgs(none)
  BY <1>4 DEF Msgs
<1>10. /\ {} \in SUBSET mail[folder] /\ Discarded' = Discarded \cup Msgs({})
       /\ \A e \in {} : e.uid \in mv.todo
  BY <1>9
<1> QED BY <1>5, <1>6, <1>7, <1>8, <1>10, MovingWaits

\* UID EXPUNGE removes originals of what was copied.
LEMMA DeleteExpunges ==
  ASSUME IInv, OwnerInv, HomesOK, WaitingOK, pc = "moving", MoveStep, UidExpunge
  PROVE  HomesOK' /\ WaitingOK' /\ PromiseStep
<1>1. /\ folder \in Folders /\ folder \in Boxes /\ Trash \in Boxes /\ Trash # folder
      /\ Folders \subseteq Boxes /\ mv.src = folder /\ mail \in [Boxes -> SUBSET Entry]
      /\ mv \in Calls /\ mv.pc = "expunge" /\ UNCHANGED <<pc, folder>>
  BY DeleteCall, BoxAssumption DEF UidExpunge, Boxes
<1>2. PICK es \in SUBSET At(folder, mv.chunk) :
        mail' = [mail EXCEPT ![folder] = @ \ es] /\ (ChunkDone(mv.chunk) \/ MoveError)
  <2>1. {e \in At(folder, mv.chunk) : e.deleted} \subseteq At(folder, mv.chunk)
    OBVIOUS
  <2> QED BY <1>1, <2>1 DEF UidExpunge
<1>3. mail'[folder] = mail[folder] \ es /\ \A b \in Boxes \ {folder} : mail'[b] = mail[b]
  BY <1>1, <1>2
<1>4. UNCHANGED <<trashed, restored, uidnext>> /\ Discarded' = Discarded
  BY DEF UidExpunge, Discarded
<1>5. \A g \in Folders : SameEntries(g)
  BY <1>1, <1>3 DEF SameEntries
<1>6. HomesOK'
  BY <1>1, <1>3, <1>4, <1>5, HomesKept
<1>7. \A e \in es : /\ e \in mail[folder] /\ e.msg \in Copies /\ e.msg \in Discarded
                    /\ folder \in HeldBy(e.msg) /\ Trash \in HeldBy(e.msg)
                    /\ HeldBy(e.msg)' = HeldBy(e.msg) \ {folder}
  <2> SUFFICES ASSUME NEW e \in es
               PROVE  /\ e \in mail[folder] /\ e.msg \in Copies /\ e.msg \in Discarded
                      /\ folder \in HeldBy(e.msg) /\ Trash \in HeldBy(e.msg)
                      /\ HeldBy(e.msg)' = HeldBy(e.msg) \ {folder}
    OBVIOUS
  <2>1. e \in mail[folder] /\ e.msg \in Discarded
    BY <1>1, AtIsSubset DEF WaitingOK
  <2>2. /\ e.msg \in Copies /\ folder \in HeldBy(e.msg)
        /\ \A d \in mail[folder] : d.msg = e.msg => d = e
    BY <1>1, <2>1, OneHome
  <2>3. Trash \in HeldBy(e.msg)
    BY <2>1 DEF HomesOK
  <2>4. ~\E d \in mail'[folder] : d.msg = e.msg
    BY <1>3, <2>2
  <2>5. HeldBy(e.msg)' = HeldBy(e.msg) \ {folder}
    BY <1>1, <1>3, <2>4 DEF HeldBy
  <2> QED BY <2>1, <2>2, <2>3, <2>5
<1>8. ASSUME NEW c \in Copies \ Msgs(es) PROVE HeldBy(c)' = HeldBy(c)
  <2>1. \A e \in es : e.msg # c
    BY DEF Msgs
  <2>2. \A b \in Boxes : (\E e \in mail'[b] : e.msg = c) <=> (\E e \in mail[b] : e.msg = c)
    BY <1>3, <2>1
  <2> QED BY <2>2 DEF HeldBy
<1>9. PromiseStep
  <2>1. \A c \in Msgs(es) : /\ c \in Copies /\ c \in Discarded
                            /\ folder \in HeldBy(c) /\ Trash \in HeldBy(c)
                            /\ HeldBy(c)' = HeldBy(c) \ {folder}
    <3>1. \A c \in Msgs(es) : \E e \in es : c = e.msg
      BY DEF Msgs
    <3> QED BY <1>7, <3>1
  <2>2. Msgs(es) \in SUBSET Copies
    BY <2>1
  <2>3. restored = {} /\ restored' = restored
    BY <1>4 DEF HomesOK
  <2>4. [c \in Copies |-> HeldBy(c)]' =
          [c \in Copies |-> IF c \in Msgs(es) THEN HeldBy(c) \ {folder} ELSE HeldBy(c)]
    BY <1>8, <2>1
  <2>5. Promise!Remove(Msgs(es), folder)
    BY <1>1, <1>4, <2>1, <2>2, <2>3, <2>4 DEF Promise!Remove
  <2> QED BY <1>1, <2>2, <2>5, RemoveIsStep
<1>10. CallWaits'
  <2>1. CASE MoveError
    <3>1. mv'.pc = "err"
      BY <1>1, <2>1 DEF MoveError, Calls
    <3> QED BY <3>1 DEF CallWaits
  <2>2. CASE ChunkDone(mv.chunk)
    <3>1. mv'.pc \in {"ok", "chunk"} /\ mv'.todo = mv.todo \ mv.chunk
      BY <1>1, <2>2 DEF ChunkDone, Calls
    <3>2. \A e \in mail'[folder] : e.uid \in mv.todo \ mv.chunk => e.msg \notin Discarded
      BY <1>1, <1>3 DEF WaitingOK, Waits
    <3> QED BY <1>1, <1>4, <3>1, <3>2 DEF CallWaits, Waits
  <2> QED BY <1>2, <2>1, <2>2
<1>11. /\ {} \in SUBSET mail[folder] /\ Discarded' = Discarded \cup Msgs({})
       /\ \A e \in {} : e.uid \in mv.todo
  BY <1>4 DEF Msgs
<1> QED BY <1>5, <1>6, <1>9, <1>10, <1>11, MovingWaits

\* One command of the delete, whatever becomes of it.
LEMMA DeleteMoves ==
  ASSUME IInv, OwnerInv, HomesOK, WaitingOK, pc = "moving", MoveStep
  PROVE  HomesOK' /\ WaitingOK' /\ PromiseStep
<1>1. CASE RefuseMove
  <2>1. /\ UNCHANGED <<mail, uidnext, trashed, restored, pc, folder>> /\ MoveError
        /\ mv \in Calls /\ folder \in Folders
    BY <1>1, DeleteCall DEF RefuseMove, serverVars
  <2>2. /\ \A g \in Folders : SameEntries(g)
        /\ Discarded' = Discarded
    BY <2>1 DEF SameEntries, Discarded
  <2>3. HomesOK'
    BY <2>1, <2>2, HomesKept
  <2>4. mv'.pc = "err"
    BY <2>1 DEF MoveError, Calls
  <2>5. /\ {} \in SUBSET mail[folder] /\ Discarded' = Discarded \cup Msgs({})
        /\ \A e \in {} : e.uid \in mv.todo
    BY <2>2 DEF Msgs
  <2>6. CallWaits'
    BY <2>4 DEF CallWaits
  <2> QED BY <2>1, <2>2, <2>3, <2>5, <2>6, MovingWaits, PromiseUnchanged
<1> QED BY <1>1, DeletePuts, DeleteMarks, DeleteExpunges, DeleteCall DEF MoveUIDs

\* What apply does between its commands moves no mail; what it is still to move
\* was read from folders that no command of this run has touched.
LEMMA ApplyWaits ==
  ASSUME IInv, HomesOK, WaitingOK, ApplyNext
  PROVE  HomesOK' /\ WaitingOK' /\ PromiseStep /\ ~RunEnded
<1>1. UNCHANGED <<mail, uidnext, trashed, restored>> /\ Discarded' = Discarded
  BY ApplyFrame DEF ServerSame, serverVars, Discarded
<1>2. HomesOK'
  BY <1>1, HomesKept DEF SameEntries
<1>3. PromiseStep
  BY <1>1, PromiseUnchanged
<1>4. CASE Prepare \/ OpenRun \/ WriteRefused \/ UnsubscribePhase \/ EndFolders \/ Finish
           \/ MoveFailed
  <2>1. pc' \in {"prepared", "refused", "failed", "unsubscribe", "targets", "finish", "abort",
                 "done", "stopped"}
    BY <1>4 DEF Prepare, OpenRun, WriteRefused, UnsubscribePhase, EndFolders, Finish, MoveFailed, Goto
  <2>2. ~RunEnded
    BY <1>4 DEF Prepare, OpenRun, WriteRefused, UnsubscribePhase, EndFolders, Finish, MoveFailed, RunEnded
  <2> QED BY <1>2, <1>3, <2>1, <2>2 DEF WaitingOK, InFolder
<1>5. CASE Abort("imap", "flags") \/ Abort("imap", "identity") \/ Abort("db", "rows")
  <2>1. pc' = "abort" /\ ~RunEnded
    BY <1>5 DEF Abort, Goto, RunEnded
  <2> QED BY <1>2, <1>3, <2>1 DEF WaitingOK, InFolder
<1>6. CASE StartDelete
  <2>1. pc = "targets" /\ pc' \in {"folder", "finish", "abort"}
    BY <1>6 DEF StartDelete, Goto
  <2>2. Discarded = {}
    BY <2>1, Start DEF CallInv, NotYet, Discarded
  <2> QED BY <1>1, <1>2, <1>3, <2>1, <2>2 DEF WaitingOK, Waits, InFolder, RunEnded
<1>7. ASSUME NEW f \in Folders, SkipFolder(f)
      PROVE  HomesOK' /\ WaitingOK' /\ PromiseStep /\ ~RunEnded
  <2>1. pc = "folder" /\ pc' = "folder" /\ todo' \subseteq todo
    BY <1>7 DEF SkipFolder
  <2> QED BY <1>1, <1>2, <1>3, <2>1 DEF WaitingOK, Waits, InFolder, RunEnded
<1>8. ASSUME NEW f \in Folders, SelectFolder(f)
      PROVE  HomesOK' /\ WaitingOK' /\ PromiseStep /\ ~RunEnded
  <2>1. /\ pc = "folder" /\ pc' = "flags" /\ f \in todo
        /\ folder' = f /\ todo' = todo \ {f}
    BY <1>8 DEF SelectFolder, Goto
  <2> QED BY <1>1, <1>2, <1>3, <2>1 DEF WaitingOK, Waits, InFolder, RunEnded
<1>9. CASE FetchFlags
  <2>1. pc = "flags" /\ pc' = "identity" /\ UNCHANGED <<folder, todo>>
    BY <1>9 DEF FetchFlags, Goto
  <2> QED BY <1>1, <1>2, <1>3, <2>1 DEF WaitingOK, Waits, InFolder, RunEnded
<1>10. CASE FetchIdentity
  <2>1. pc = "identity" /\ pc' \in {"folder", "abort", "intent"} /\ UNCHANGED <<folder, todo>>
    BY <1>10 DEF FetchIdentity, Goto
  <2>2. folder \in Folders /\ mail \in [Boxes -> SUBSET Entry] /\ folder \in Boxes
    BY <2>1, Start DEF FolderInv, InFolder, MailInv, MailTypeOK, Boxes
  <2>3. \A e \in mail[folder] : e.msg \notin Discarded
    BY <2>1, <2>2 DEF WaitingOK, Waits, Entry
  <2> QED BY <1>1, <1>2, <1>3, <2>1, <2>3 DEF WaitingOK, Waits, InFolder, RunEnded
<1>11. CASE WriteIntent
  <2>1. pc = "intent" /\ pc' = "intent" /\ UNCHANGED <<folder, todo, queue>>
    BY <1>11 DEF WriteIntent
  <2> QED BY <1>1, <1>2, <1>3, <2>1 DEF WaitingOK, Waits, InFolder, RunEnded
<1>12. CASE SyncIntents
  <2>1. /\ pc = "intent" /\ UNCHANGED <<folder, todo, queue>>
        /\ pc' = "abort" \/ (pc' = "moving" /\ MoveCall(folder, Trash, Batch))
    BY <1>12 DEF SyncIntents, Goto
  <2>2. CASE pc' = "moving" /\ MoveCall(folder, Trash, Batch)
    <3>1. mv'.pc = "chunk" /\ mv'.todo = Batch
      BY <2>2 DEF MoveCall
    <3>2. Batch \subseteq queue
      BY BoundsAreSubsets DEF Batch
    <3> QED BY <1>1, <1>2, <1>3, <2>1, <2>2, <3>1, <3>2 DEF WaitingOK, Waits, InFolder, RunEnded
  <2> QED BY <1>2, <1>3, <2>1, <2>2 DEF WaitingOK, InFolder, RunEnded
<1>13. CASE Confirm
  <2>1. pc = "moving" /\ pc' \in {"rows", "abort"} /\ UNCHANGED <<folder, todo, queue>>
    BY <1>13 DEF Confirm, Goto
  <2>2. Batch' = Batch
    BY <2>1 DEF Batch
  <2> QED BY <1>1, <1>2, <1>3, <2>1, <2>2 DEF WaitingOK, Waits, InFolder, RunEnded
<1>14. CASE DropRows
  <2>1. /\ pc = "rows" /\ pc' \in {"folder", "intent"} /\ UNCHANGED <<folder, todo>>
        /\ queue' = queue \ Batch
    BY <1>14 DEF DropRows, Goto
  <2> QED BY <1>1, <1>2, <1>3, <2>1 DEF WaitingOK, Waits, InFolder, RunEnded
<1> QED BY <1>4, <1>5, <1>6, <1>7, <1>8, <1>9, <1>10, <1>11, <1>12, <1>13, <1>14
        DEF ApplyNext, ApplyStep

\* Another client that moves no mail and rebuilds no mailbox stars and unstars.
LEMMA ClientStars ==
  ASSUME "move" \notin UserActs, "rebuild" \notin UserActs, OtherClient
  PROVE  /\ UNCHANGED <<mail, uidnext, mv, trashed, restored>>
         /\ UNCHANGED <<auditVars, db, runVars, undoVars>>
BY DEF OtherClient, UserClient, UserStars, UserUnstars, UserMoves, UserRebuilds, UserAct

\* Steps that move no mail and leave the run where it is, or end it.
LEMMA DiscardRests ==
  ASSUME HomesOK, WaitingOK, UNCHANGED <<mail, uidnext, trashed, restored>>,
         RunEnded' \/ UNCHANGED <<pc, folder, todo, queue, mv>>
  PROVE  HomesOK' /\ WaitingOK' /\ PromiseStep
<1>1. Discarded' = Discarded /\ \A g \in Folders : SameEntries(g)
  BY DEF Discarded, SameEntries
<1>2. CASE RunEnded'
  <2>1. WaitingOK'
    BY <1>2 DEF WaitingOK, RunEnded, InFolder
  <2> QED BY <1>1, <2>1, HomesKept, PromiseUnchanged
<1>3. CASE UNCHANGED <<pc, folder, todo, queue, mv>>
  <2>1. Batch' = Batch
    BY <1>3 DEF Batch
  <2>2. WaitingOK'
    BY <1>1, <1>3, <2>1 DEF WaitingOK, Waits, At, InFolder
  <2> QED BY <1>1, <2>2, HomesKept, PromiseUnchanged
<1> QED BY <1>2, <1>3

LEMMA UndoChecks ==
  ASSUME UndoNext, upc' = "check"
  PROVE  upc = "check"
BY DEF UndoNext, UndoStep, CheckSource, Locate, Restored, RestoreFailed, UndoEnds, RestoreFolder

LEMMA DiscardStep ==
  ASSUME "move" \notin UserActs, "rebuild" \notin UserActs
  PROVE  IInv /\ DiscardInv /\ [Next]_vars => DiscardInv' /\ (Untouched' => PromiseStep)
<1> SUFFICES ASSUME IInv, DiscardInv, [Next]_vars
             PROVE  DiscardInv' /\ (Untouched' => PromiseStep)
  OBVIOUS
<1>1. /\ OwnerInv /\ OwnerInv' /\ undos \in Nat
      /\ ~RunEnded => undos = 0
      /\ undos = 0 => upc = "none"
      /\ UndoRunning => RunEnded
      /\ Untouched => HomesOK /\ WaitingOK /\ upc \in {"none", "check"}
  BY OwnerStep, Start, UndoAssumption DEF DiscardInv, UndoTypeOK, CallInv, Untouched
<1>2. CASE ApplyNext
  <2>1. UNCHANGED <<upc, undos>>
    BY <1>2, ApplyFrame DEF undoVars
  <2>2. ~RunEnded
    BY <1>2 DEF ApplyNext, ApplyStep, RunEnded, Prepare, OpenRun, WriteRefused, UnsubscribePhase,
                StartDelete, EndFolders, SkipFolder, SelectFolder, FetchFlags, FetchIdentity, Abort,
                WriteIntent, SyncIntents, Confirm, MoveFailed, DropRows, Finish
  <2>3. HomesOK' /\ WaitingOK' /\ PromiseStep
    BY <1>1, <1>2, <2>2, ApplyWaits DEF Untouched
  <2> QED BY <1>1, <2>1, <2>2, <2>3 DEF DiscardInv
<1>3. CASE MoveStep
  <2>1. UNCHANGED <<upc, undos, pc>>
    BY <1>3 DEF MoveStep, undoVars, applyVars, runVars
  <2>2. Untouched' => Untouched
    BY <2>1 DEF Untouched
  <2>3. ASSUME Untouched PROVE HomesOK' /\ WaitingOK' /\ PromiseStep
    <3>1. CallOut
      BY <1>3, Start, MoveUIDsKeeps DEF MoveStep, InCall, CallOut
    <3>2. pc = "moving"
      BY <1>1, <2>3, <3>1 DEF OwnerInv
    <3> QED BY <1>1, <1>3, <2>3, <3>2, DeleteMoves
  <2> QED BY <1>1, <2>1, <2>2, <2>3 DEF DiscardInv, RunEnded
<1>4. CASE Undo \/ UndoNext
  <2>1. /\ UNCHANGED <<mail, uidnext, trashed, restored, pc>> /\ RunEnded
        /\ Untouched' => Untouched
    <3>1. CASE Undo
      BY <1>1, <3>1, UndoStartFrame DEF UndoFrame, serverVars, applyVars, runVars, Untouched
    <3>2. CASE UndoNext
      BY <1>1, <3>2, UndoNextFrame, UndoChecks
         DEF UndoFrame, serverVars, applyVars, runVars, Untouched, UndoRunning
    <3> QED BY <1>4, <3>1, <3>2
  <2>2. RunEnded'
    BY <2>1 DEF RunEnded
  <2>3. undos' # 0
    <3>1. undos' = undos + 1 \/ (undos' = undos /\ UndoRunning)
      BY <1>4, UndoStartFrame, UndoNextFrame
    <3> QED BY <1>1, <3>1 DEF UndoRunning
  <2>4. Untouched' => HomesOK' /\ WaitingOK' /\ PromiseStep
    BY <1>1, <2>1, <2>2, DiscardRests
  <2> QED BY <1>1, <2>2, <2>3, <2>4 DEF DiscardInv
<1>5. CASE Crash
  <2>1. /\ UNCHANGED <<mail, uidnext, trashed, restored, undos>>
        /\ upc' = (IF UndoRunning THEN "crashed" ELSE upc)
        /\ pc' = (IF Running THEN "crashed" ELSE pc)
        /\ Busy
    BY <1>5 DEF Crash, serverVars
  <2>2. RunEnded'
    BY <1>1, <2>1 DEF Busy, Running, RunEnded
  <2>3. Untouched' => Untouched
    BY <2>1 DEF Untouched, UndoRunning
  <2>4. undos' = 0 => upc' = "none"
    BY <1>1, <2>1 DEF UndoRunning
  <2>5. Untouched' => HomesOK' /\ WaitingOK' /\ PromiseStep
    BY <1>1, <2>1, <2>2, <2>3, DiscardRests
  <2> QED BY <1>1, <2>2, <2>4, <2>5 DEF DiscardInv
<1>6. CASE OtherClient \/ Cancel \/ UNCHANGED vars
  <2>1. UNCHANGED <<mail, uidnext, mv, trashed, restored, pc, folder, todo, queue, upc, undos>>
    BY <1>6, ClientStars
       DEF Cancel, vars, serverVars, mailVars, applyVars, runVars, undoVars
  <2>2. Untouched' => Untouched
    BY <2>1 DEF Untouched
  <2>3. Untouched' => HomesOK' /\ WaitingOK' /\ PromiseStep
    BY <1>1, <2>1, <2>2, DiscardRests
  <2>4. RunEnded' <=> RunEnded
    BY <2>1 DEF RunEnded
  <2> QED BY <1>1, <2>1, <2>3, <2>4 DEF DiscardInv
<1> QED BY <1>2, <1>3, <1>4, <1>5, <1>6, StepIsOne

LEMMA DiscardInitially ==
  ASSUME Init
  PROVE  DiscardInv /\ Promise!Init
<1>1. /\ mail = [b \in Boxes |-> {[uid |-> FirstUid[c], msg |-> c, deleted |-> FALSE] :
                                    c \in {d \in Copies : Home[d] = b}}]
      /\ uidnext = [b \in Boxes |-> FirstNext]
      /\ trashed = {} /\ restored = {} /\ undos = 0 /\ upc = "none" /\ pc = "review"
  BY DEF Init, MailInit, UndoInit, ApplyInit
<1> DEFINE first(c) == [uid |-> FirstUid[c], msg |-> c, deleted |-> FALSE]
<1>2. \A c : first(c).uid = FirstUid[c] /\ first(c).msg = c
  OBVIOUS
<1>3. \A b \in Boxes : mail[b] = {first(c) : c \in {d \in Copies : Home[d] = b}}
  BY <1>1
<1> HIDE DEF first
<1>4. ASSUME NEW b \in Boxes, NEW e \in mail[b]
      PROVE  /\ e.msg \in Copies /\ Home[e.msg] = b
             /\ e.uid = FirstUid[e.msg] /\ e.uid < FirstNext
  BY <1>2, <1>3, CopyAssumption
<1>5. ASSUME NEW c \in Copies PROVE HeldBy(c) = {Home[c]}
  <2>1. Home[c] \in Boxes /\ first(c) \in mail[Home[c]] /\ first(c).msg = c
    BY <1>2, <1>3, CopyAssumption
  <2>2. \A b \in Boxes : (\E e \in mail[b] : e.msg = c) => b = Home[c]
    BY <1>4
  <2> QED BY <2>1, <2>2 DEF HeldBy
<1>6. HomesOK
  <2>1. Discarded = {}
    BY <1>1 DEF Discarded
  <2>3. \A e, d \in mail[Trash] : e.msg = d.msg => e = d
    BY <1>2, <1>3 DEF Boxes
  <2>2. Trash \in Boxes /\ Folders \subseteq Boxes /\ FirstNext <= uidnext[Trash]
    BY <1>1, CopyAssumption DEF Boxes
  <2> QED BY <1>1, <1>4, <2>1, <2>2, <2>3 DEF HomesOK
<1>7. WaitingOK
  BY <1>1 DEF WaitingOK, InFolder
<1>8. Promise!Init
  <2>1. Discarded = {}
    BY <1>1 DEF Discarded
  <2> QED BY <1>1, <1>5, <2>1 DEF Promise!Init
<1> QED BY <1>1, <1>6, <1>7, <1>8, OwnerInitially DEF DiscardInv

LEMMA DiscardAlways ==
  ASSUME "move" \notin UserActs, "rebuild" \notin UserActs
  PROVE  Spec => [](IInv /\ DiscardInv)
<1>1. IInv /\ DiscardInv /\ [Next]_vars => DiscardInv'
  BY DiscardStep
<1>2. Init => DiscardInv
  BY DiscardInitially
<1> QED BY <1>1, <1>2, InitHolds, StepHolds, PTL DEF Spec

\* A delete does to the mail what SoftDelete promises, with MOVE and with the
\* COPY fallback, whatever crashes, fails or is cancelled, until an undo begins
\* to move mail back, as long as nobody else moves mail (deleteFolder, MoveUIDs).
THEOREM DeleteKeepsPromise ==
  ASSUME "move" \notin UserActs, "rebuild" \notin UserActs
  PROVE  Spec => Promise!Init /\ [][Untouched' => Promise!Next \/ UNCHANGED Promise!places]_vars
<1>1. IInv /\ DiscardInv /\ [Next]_vars =>
        [Untouched' => Promise!Next \/ UNCHANGED Promise!places]_vars
  BY DiscardStep DEF PromiseStep
<1>2. Init => Promise!Init
  BY DiscardInitially
<1> QED BY <1>1, <1>2, DiscardAlways, PTL DEF Spec

-----------------------------------------------------------------------------
\* What the log says was to be moved.

\* A step that writes no intent.
PlainStep ==
  \/ UNCHANGED auditVars \/ SyncOk \/ SyncFails
  \/ \E l : l.status # "pending" /\ (Put(l) \/ Write(l))

\* Every intent in the log was there before.
NoNewIntent ==
  \A i \in 1 .. Len(audit'.lines) :
    audit'.lines[i].action = "move" /\ audit'.lines[i].status = "pending" =>
      i \in Lines /\ audit'.lines[i] = audit.lines[i]

LEMMA PlainStepIs ==
  ASSUME AuditTypeOK, PlainStep
  PROVE  NoNewIntent
<1>1. Len(audit.lines) \in Nat
  BY DEF AuditTypeOK
<1>2. CASE SameLines
  BY <1>2 DEF SameLines, NoNewIntent, Lines
<1>3. CASE UNCHANGED auditVars \/ SyncOk \/ SyncFails
  <2>1. audit'.lines = audit.lines
    BY <1>3 DEF auditVars, SyncOk, SyncFails, Synced, AuditTypeOK
  <2> QED BY <1>2, <2>1 DEF SameLines
<1>4. CASE \E l : l.status # "pending" /\ (Put(l) \/ Write(l))
  <2>1. PICK l : l.status # "pending" /\ (Put(l) \/ Write(l))
    BY <1>4
  <2>2. SameLines \/ Appended(l)
    BY <2>1, WriteIs
  <2>3. CASE Appended(l)
    <3>1. ASSUME NEW i \in 1 .. Len(audit'.lines)
          PROVE  i \in 1 .. Len(audit.lines) \/ i = Len(audit.lines) + 1
      BY <1>1, <2>3 DEF Appended
    <3> QED BY <2>1, <2>3, <3>1 DEF Appended, NoNewIntent, Lines
  <2> QED BY <1>2, <2>2, <2>3
<1> QED BY <1>3, <1>4 DEF PlainStep

\* Only WriteIntent writes intents.
LEMMA ApplyPlain ==
  ASSUME ApplyNext
  PROVE  PlainStep \/ WriteIntent \/ Confirm
<1>1. ASSUME NEW l, l.status # "pending", Put(l) \/ Write(l)
      PROVE  PlainStep
  BY <1>1 DEF PlainStep
<1>2. \A a, f, U, id : NewLine(a, "", f, U, id).status # "pending"
  BY DEF NewLine
<1>3. ASSUME NEW f \in Folders, SkipFolder(f) PROVE PlainStep
  <2>1. SkipLine(f, UidsOf(RowsIn(f))).status # "pending"
    BY <1>2 DEF SkipLine
  <2>2. Write(SkipLine(f, UidsOf(RowsIn(f)))) \/ Put(SkipLine(f, UidsOf(RowsIn(f))))
    BY <1>3 DEF SkipFolder
  <2> QED BY <1>1, <2>1, <2>2
<1>4. ASSUME NEW f \in Folders, SelectFolder(f) PROVE PlainStep
  BY <1>4 DEF SelectFolder, PlainStep
<1>5. CASE WriteRefused \/ UnsubscribePhase \/ StartDelete \/ MoveFailed
  <2>1. \/ UNCHANGED auditVars
        \/ \E a, f : Put(NewLine(a, "", f, {}, NoId)) \/ Write(NewLine(a, "", f, {}, NoId))
    BY <1>5 DEF WriteRefused, UnsubscribePhase, StartDelete, MoveFailed
  <2> QED BY <1>1, <1>2, <2>1 DEF PlainStep
<1>6. CASE FetchIdentity
  <2> DEFINE rest == UidsOf(RowsIn(folder) \ {r \in RowsIn(folder) : Eligible(r)})
  <2>1. SkipLine(folder, rest).status # "pending"
    BY <1>2 DEF SkipLine
  <2>2. UNCHANGED <<auditVars, faults>> \/ Write(SkipLine(folder, rest))
    BY <1>6 DEF FetchIdentity
  <2> HIDE DEF rest
  <2> QED BY <1>1, <2>1, <2>2 DEF PlainStep
<1>7. CASE SyncIntents
  BY <1>7 DEF SyncIntents, PlainStep
<1>8. CASE \/ Prepare \/ OpenRun \/ EndFolders \/ FetchFlags \/ DropRows \/ Finish
           \/ Abort("imap", "flags") \/ Abort("imap", "identity") \/ Abort("db", "rows")
  BY <1>8 DEF Prepare, OpenRun, EndFolders, FetchFlags, DropRows, Finish, Abort, PlainStep
<1> QED BY <1>3, <1>4, <1>5, <1>6, <1>7, <1>8 DEF ApplyNext, ApplyStep

LEMMA UndoPlain ==
  ASSUME UndoNext
  PROVE  PlainStep
<1>1. \A a, f : NewLine(a, "", f, {}, NoId).status # "pending"
  BY DEF NewLine
<1>2. \/ UNCHANGED auditVars
      \/ \E f : Write(UndoLine(f)) \/ Write(NewLine("error", "", f, {}, NoId))
  BY DEF UndoNext, UndoStep, CheckSource, Locate, RestoreFolder, Restored, RestoreFailed, UndoEnds
<1> QED BY <1>1, <1>2 DEF PlainStep, UndoLine

LEMMA IntentNew ==
  ASSUME IInv, [Next]_vars
  PROVE  NoNewIntent \/ WriteIntent
<1>1. AuditTypeOK
  BY Start
<1>2. CASE PlainStep
  BY <1>1, <1>2, PlainStepIs
<1>3. CASE Confirm
  BY <1>3, ConfirmIs DEF Confirmation, NewLine, NoNewIntent, Lines
<1>4. CASE audit' = audit
  BY <1>4 DEF NoNewIntent, Lines
<1>5. CASE Crash
  <2>1. PICK n \in audit.synced .. Len(audit.lines), cut \in BOOLEAN :
          audit' = [audit EXCEPT !.lines = SubSeq(@, 1, n), !.torn = @ \/ cut]
    BY <1>5 DEF Crash, LoseTail
  <2>2. audit.lines \in Seq(Line) /\ Len(audit.lines) \in Nat /\ n \in Nat /\ n <= Len(audit.lines)
    BY <1>1, Start DEF AuditTypeOK
  <2>3. audit'.lines = SubSeq(audit.lines, 1, n)
    BY <1>1, <2>1 DEF AuditTypeOK
  <2>4. \A i \in 1 .. Len(audit'.lines) : audit'.lines[i] = audit.lines[i] /\ i \in 1 .. Len(audit.lines)
    <3> HIDE DEF Line
    <3> QED BY <2>2, <2>3
  <2> QED BY <2>4 DEF NoNewIntent, Lines
<1>6. CASE MoveStep \/ Undo \/ OtherClient \/ Cancel \/ UNCHANGED vars
  BY <1>4, <1>6, UndoStartFrame DEF MoveStep, OtherClient, Cancel, vars, auditVars
<1> QED BY <1>2, <1>3, <1>5, <1>6, StepIsOne, ApplyPlain, UndoPlain

LEMMA UnwrittenKept ==
  ASSUME NoNewIntent, NEW f, NEW U, NEW V, V \subseteq U, Unwritten(f, U)
  PROVE  Unwritten(f, V)'
BY DEF NoNewIntent, Unwritten, Lines, IsIntent

LEMMA LogKept ==
  ASSUME NoNewIntent, LogOK
  PROVE  LogOK'
<1>1. \A i \in Lines' : IsIntent(i)' =>
         i \in Lines /\ IsIntent(i) /\ audit'.lines[i] = audit.lines[i]
  BY DEF NoNewIntent, Lines, IsIntent
<1>2. ASSUME NEW i \in Lines', IsIntent(i)'
      PROVE  \E c \in Copies :
               Home[c] \in Folders /\ audit'.lines[i] = Intent(Home[c], FirstUid[c], IdOf[c])
  BY <1>1, <1>2 DEF LogOK
<1>3. ASSUME NEW i \in Lines', NEW j \in Lines', IsIntent(i)', IsIntent(j)',
             audit'.lines[i].folder = audit'.lines[j].folder,
             audit'.lines[i].uids = audit'.lines[j].uids
      PROVE  i = j
  BY <1>1, <1>3 DEF LogOK
<1> QED BY <1>2, <1>3 DEF LogOK

\* Nothing more is to be recorded once the run is over or about to be.
LEMMA NothingToWrite ==
  ASSUME pc' \notin NotYet \cup InFolder \cup {"folder"}
  PROVE  UnwrittenOK'
BY DEF UnwrittenOK, InFolder

\* What is left to record of the folder, once UID u has been.
LEMMA IntentTurn ==
  ASSUME UnwrittenOK, pc = "intent", pc' = "intent", UNCHANGED <<folder, todo, queue>>,
         Batch' = Batch, NEW u, intents' = intents \ {u}, intents \subseteq Batch,
         Unwritten(folder, (queue \ Batch) \cup (intents \ {u})), folder \notin todo,
         \/ \A f, U : Unwritten(f, U) => Unwritten(f, U)'
         \/ /\ u \notin (queue \ Batch) \cup (intents \ {u})
            /\ \A f, U : Unwritten(f, U) /\ (f # folder \/ u \notin U) => Unwritten(f, U)'
  PROVE  UnwrittenOK'
<1> DEFINE rest == (queue \ Batch) \cup (intents \ {u})
<1>1. (queue' \ Batch') \cup intents' = rest
  OBVIOUS
<1>2. \A f, U : f = folder /\ U = rest => Unwritten(f, U)'
  OBVIOUS
<1>3. \A f, U : f = folder' /\ U = (queue' \ Batch') \cup intents' => Unwritten(f, U)'
  BY <1>1, <1>2
<1>4. Unwritten(folder, (queue \ Batch) \cup intents)'
  BY <1>3 DEF Unwritten
<1>5. \A f \in todo' : Unwritten(f, Uids)'
  BY DEF UnwrittenOK, InFolder
<1> QED BY <1>4, <1>5 DEF UnwrittenOK, NotYet, InFolder

\* The run writes the intents of a batch, each for a UID that has none.
LEMMA LedgerIntent ==
  ASSUME IInv, LedgerInv, WriteIntent
  PROVE  LedgerInv'
<1>1. PICK u \in intents :
        Write(Intent(folder, u, StoredId(folder, u))) /\ intents' = intents \ {u}
  BY DEF WriteIntent
<1> DEFINE l == Intent(folder, u, StoredId(folder, u))
<1>2. pc = "intent" /\ pc' = "intent" /\ UNCHANGED <<folder, todo, queue>>
  BY DEF WriteIntent
<1>3. intents \subseteq Batch /\ Unwritten(folder, (queue \ Batch) \cup intents) /\ folder \notin todo
  BY <1>2 DEF LedgerInv, UnwrittenOK, InFolder
<1>4. Batch \subseteq queue /\ Batch' = Batch
  BY <1>2, BoundsAreSubsets DEF Batch
<1>5. PICK c \in Copies : Home[c] \in Folders /\ l = Intent(Home[c], FirstUid[c], IdOf[c])
  <2>1. PICK r \in targets : r.folder = folder /\ r.uid = u /\ StoredId(folder, u) = IdOf[r.msg]
    BY <1>1, <1>2, <1>3, <1>4, QueueTyped DEF InBatches
  <2>2. r \in ScannedRows /\ folder \in Folders
    BY <1>1, <1>2, <1>3, <1>4, Start, QueueTyped DEF RowsInv, InBatches
  <2>3. PICK c \in Copies : r = [folder |-> Home[c], uid |-> FirstUid[c], msg |-> c,
                                 starred |-> c \in Starred0]
    BY <2>2, PlanAssumption DEF ScannedRows
  <2>4. r.folder = Home[c] /\ r.uid = FirstUid[c] /\ r.msg = c
    BY <2>3
  <2> QED BY <2>1, <2>2, <2>4
<1>6. l.action = "move" /\ l.status = "pending" /\ l.folder = folder /\ l.uids = {u}
  BY DEF Intent, NewLine
<1>7. AuditTypeOK /\ Len(audit.lines) \in Nat
  BY Start
<1> HIDE DEF l
<1>8. SameLines \/ Appended(l)
  BY <1>1, <1>7, WriteIs DEF l
<1>9. CASE SameLines
  <2>1. NoNewIntent
    BY <1>9 DEF SameLines, NoNewIntent, Lines
  <2>2. LogOK'
    BY <2>1, LogKept DEF LedgerInv
  <2>3. \A f, U : Unwritten(f, U) => Unwritten(f, U)'
    BY <2>1, UnwrittenKept
  <2>4. Unwritten(folder, (queue \ Batch) \cup (intents \ {u}))
    BY <1>3 DEF Unwritten
  <2> QED BY <1>1, <1>2, <1>3, <1>4, <2>2, <2>3, <2>4, IntentTurn DEF LedgerInv
<1>10. CASE Appended(l)
  <2>1. \A i \in 1 .. Len(audit'.lines) :
          \/ i \in Lines /\ audit'.lines[i] = audit.lines[i]
          \/ i = Len(audit.lines) + 1 /\ i \notin Lines /\ audit'.lines[i] = l
    BY <1>7, <1>10 DEF Appended, Lines
  <2>2. \A i \in Lines : IsIntent(i) /\ audit.lines[i].folder = folder => u \notin audit.lines[i].uids
    BY <1>1, <1>3 DEF Unwritten
  <2>3. LogOK'
    <3>1. \A i \in 1 .. Len(audit'.lines) :
            audit'.lines[i].action = "move" /\ audit'.lines[i].status = "pending" =>
              \E d \in Copies : /\ Home[d] \in Folders
                                /\ audit'.lines[i] = Intent(Home[d], FirstUid[d], IdOf[d])
      BY <1>5, <2>1 DEF LedgerInv, LogOK, IsIntent
    <3>2. ASSUME NEW i \in 1 .. Len(audit'.lines), NEW j \in 1 .. Len(audit'.lines),
                 audit'.lines[i].action = "move", audit'.lines[i].status = "pending",
                 audit'.lines[j].action = "move", audit'.lines[j].status = "pending",
                 audit'.lines[i].folder = audit'.lines[j].folder,
                 audit'.lines[i].uids = audit'.lines[j].uids
          PROVE  i = j
      <4>1. CASE i \in Lines /\ j \in Lines
        BY <2>1, <3>2, <4>1 DEF LedgerInv, LogOK, IsIntent
      <4>2. ASSUME NEW a \in Lines, NEW b, audit'.lines[a] = audit.lines[a], audit'.lines[b] = l,
                   audit'.lines[a].action = "move", audit'.lines[a].status = "pending",
                   audit'.lines[a].folder = audit'.lines[b].folder,
                   audit'.lines[a].uids = audit'.lines[b].uids
            PROVE  FALSE
        BY <1>6, <2>2, <4>2 DEF IsIntent
      <4> QED BY <2>1, <3>2, <4>1, <4>2
    <3> QED BY <3>1, <3>2 DEF LogOK, Lines, IsIntent
  <2>4. ASSUME NEW f, NEW U, Unwritten(f, U), f # folder \/ u \notin U PROVE Unwritten(f, U)'
    BY <1>6, <2>1, <2>4 DEF Unwritten, Lines, IsIntent
  <2>5. Unwritten(folder, (queue \ Batch) \cup (intents \ {u}))
    BY <1>3 DEF Unwritten
  <2>6. u \notin (queue \ Batch) \cup (intents \ {u})
    BY <1>1, <1>3
  <2>7. \A f, U : Unwritten(f, U) /\ (f # folder \/ u \notin U) => Unwritten(f, U)'
    BY <2>4
  <2> QED BY <1>1, <1>2, <1>3, <1>4, <2>3, <2>5, <2>6, <2>7, IntentTurn DEF LedgerInv
<1> QED BY <1>8, <1>9, <1>10

\* The other steps of the run record no move, and go on to folders and UIDs for
\* which none is recorded yet.
LEMMA LedgerApply ==
  ASSUME IInv, LedgerInv, ApplyNext, ~WriteIntent, NoNewIntent
  PROVE  UnwrittenOK'
<1>1. \A f, U, V : Unwritten(f, U) /\ V \subseteq U => Unwritten(f, V)'
  BY UnwrittenKept
<1>2. CASE Prepare \/ OpenRun \/ WriteRefused \/ UnsubscribePhase
  <2>1. pc \in NotYet /\ pc' \notin InFolder \cup {"folder"}
    BY <1>2 DEF Prepare, OpenRun, WriteRefused, UnsubscribePhase, Goto, NotYet, InFolder
  <2>2. \A f \in Folders : Unwritten(f, Uids)'
    BY <1>1, <2>1 DEF LedgerInv, UnwrittenOK
  <2> QED BY <2>1, <2>2 DEF UnwrittenOK, InFolder
<1>3. CASE \/ EndFolders \/ Finish \/ MoveFailed \/ Abort("imap", "flags")
           \/ Abort("imap", "identity") \/ Abort("db", "rows")
  BY <1>3, NothingToWrite DEF EndFolders, Finish, MoveFailed, Abort, Goto, NotYet, InFolder
<1>4. CASE StartDelete
  <2>1. pc \in NotYet /\ pc' \in {"folder", "finish", "abort"} /\ todo' \subseteq Folders
    BY <1>4, StepHolds DEF StartDelete, Goto, NotYet, Next, IInv, TypeOK, ApplyTypeOK
  <2>2. \A f \in Folders : Unwritten(f, Uids)'
    BY <1>1, <2>1 DEF LedgerInv, UnwrittenOK
  <2> QED BY <2>1, <2>2 DEF UnwrittenOK, NotYet, InFolder
<1>5. ASSUME NEW f \in Folders, SkipFolder(f) PROVE UnwrittenOK'
  <2>1. pc = "folder" /\ pc' = "folder" /\ todo' \subseteq todo
    BY <1>5 DEF SkipFolder
  <2>2. \A g \in todo : Unwritten(g, Uids)'
    BY <1>1, <2>1 DEF LedgerInv, UnwrittenOK
  <2> QED BY <2>1, <2>2 DEF UnwrittenOK, NotYet, InFolder
<1>6. ASSUME NEW f \in Folders, SelectFolder(f) PROVE UnwrittenOK'
  <2>1. /\ pc = "folder" /\ pc' = "flags" /\ f \in todo
        /\ folder' = f /\ todo' = todo \ {f}
    BY <1>6 DEF SelectFolder, Goto
  <2>2. \A g \in todo : Unwritten(g, Uids)'
    BY <1>1, <2>1 DEF LedgerInv, UnwrittenOK
  <2>3. \A g : g = folder' => Unwritten(g, Uids)'
    BY <2>1, <2>2
  <2> QED BY <2>1, <2>2, <2>3 DEF UnwrittenOK, NotYet, InFolder
\* From here on the folder stays; U is what it has left to record.
<1>7. ASSUME UNCHANGED <<folder, todo>>, pc \in InFolder, pc' \in InFolder \cup {"folder", "abort"},
             NEW U, Unwritten(folder, U),
             pc' \in {"flags", "identity"} => U = Uids,
             pc' = "intent" => intents' \subseteq Batch' /\ (queue' \ Batch') \cup intents' \subseteq U,
             pc' \in {"moving", "rows"} => queue' \ Batch' \subseteq U
      PROVE  UnwrittenOK'
  <2>1. folder \notin todo /\ \A g \in todo : Unwritten(g, Uids)'
    BY <1>1, <1>7 DEF LedgerInv, UnwrittenOK
  <2>2. \A g, V : g = folder' /\ V \subseteq U => Unwritten(g, V)'
    BY <1>1, <1>7
  <2>3. pc' \in {"flags", "identity"} => Unwritten(folder, Uids)'
    BY <1>7, <2>2
  <2>4. \A V : V = (queue' \ Batch') \cup intents' /\ pc' = "intent" => Unwritten(folder, V)'
    BY <1>7, <2>2 DEF Unwritten
  <2>5. \A V : V = queue' \ Batch' /\ pc' \in {"moving", "rows"} => Unwritten(folder, V)'
    BY <1>7, <2>2 DEF Unwritten
  <2>6. /\ pc' = "intent" => Unwritten(folder, (queue \ Batch) \cup intents)'
        /\ pc' \in {"moving", "rows"} => Unwritten(folder, queue \ Batch)'
    BY <2>4, <2>5 DEF Unwritten
  <2> QED BY <1>7, <2>1, <2>3, <2>6 DEF UnwrittenOK, NotYet, InFolder
<1>8. CASE FetchFlags
  <2>1. pc = "flags" /\ pc' = "identity" /\ UNCHANGED <<folder, todo>>
    BY <1>8 DEF FetchFlags, Goto
  <2>2. Unwritten(folder, Uids)
    BY <2>1 DEF LedgerInv, UnwrittenOK
  <2> QED BY <1>7, <2>1, <2>2 DEF InFolder
<1>9. CASE FetchIdentity
  <2>1. /\ pc = "identity" /\ pc' \in {"folder", "abort", "intent"} /\ UNCHANGED <<folder, todo>>
        /\ intents' = Lowest(queue', MoveBatch)
    BY <1>9 DEF FetchIdentity, Goto
  <2>2. Unwritten(folder, Uids)
    BY <2>1 DEF LedgerInv, UnwrittenOK
  <2>3. queue' \subseteq Uids
    BY <1>9, StepHolds DEF Next, IInv, TypeOK, ApplyTypeOK
  <2>4. intents' = Batch' /\ Batch' \subseteq queue'
    BY <2>1, BoundsAreSubsets DEF Batch
  <2> QED BY <1>7, <2>1, <2>2, <2>3, <2>4 DEF InFolder
<1>10. CASE SyncIntents
  <2>1. pc = "intent" /\ pc' \in {"moving", "abort"} /\ UNCHANGED <<folder, todo, queue>>
    BY <1>10 DEF SyncIntents, Goto
  <2>2. Unwritten(folder, (queue \ Batch) \cup intents) /\ Batch' = Batch
    BY <2>1 DEF LedgerInv, UnwrittenOK, Batch
  <2> QED BY <1>7, <2>1, <2>2 DEF InFolder
<1>11. CASE Confirm
  <2>1. pc = "moving" /\ pc' \in {"rows", "abort"} /\ UNCHANGED <<folder, todo, queue>>
    BY <1>11 DEF Confirm, Goto
  <2>2. Unwritten(folder, queue \ Batch) /\ Batch' = Batch
    BY <2>1 DEF LedgerInv, UnwrittenOK, Batch
  <2> QED BY <1>7, <2>1, <2>2 DEF InFolder
<1>12. CASE DropRows
  <2>1. /\ pc = "rows" /\ pc' \in {"folder", "intent"} /\ UNCHANGED <<folder, todo>>
        /\ queue' = queue \ Batch /\ intents' = Lowest(queue', MoveBatch)
    BY <1>12 DEF DropRows, Goto
  <2>2. Unwritten(folder, queue \ Batch)
    BY <2>1 DEF LedgerInv, UnwrittenOK
  <2>3. intents' = Batch' /\ Batch' \subseteq queue'
    BY <2>1, BoundsAreSubsets DEF Batch
  <2> QED BY <1>7, <2>1, <2>2, <2>3 DEF InFolder
<1> QED BY <1>2, <1>3, <1>4, <1>5, <1>6, <1>8, <1>9, <1>10, <1>11, <1>12 DEF ApplyNext, ApplyStep

LEMMA LedgerStep == IInv /\ LedgerInv /\ [Next]_vars => LedgerInv'
<1> SUFFICES ASSUME IInv, LedgerInv, [Next]_vars PROVE LedgerInv'
  OBVIOUS
<1>1. CASE WriteIntent
  BY <1>1, LedgerIntent
<1>2. ASSUME ~WriteIntent PROVE NoNewIntent /\ LogOK'
  BY <1>2, IntentNew, LogKept DEF LedgerInv
<1>3. CASE ApplyNext /\ ~WriteIntent
  BY <1>2, <1>3, LedgerApply DEF LedgerInv
<1>4. CASE Crash
  <2>1. RunEnded'
    BY <1>4, Start DEF Crash, Busy, Running, RunEnded, CallInv, UndoRunning
  <2>2. pc' \notin NotYet \cup InFolder \cup {"folder"}
    BY <2>1 DEF RunEnded, NotYet, InFolder
  <2>3. ~WriteIntent
    <3>1. ASSUME WriteIntent PROVE FALSE
      <4>1. pc = "intent" /\ pc' = pc
        BY <3>1 DEF WriteIntent
      <4> QED BY <2>2, <4>1 DEF InFolder
    <3> QED BY <3>1
  <2> QED BY <1>2, <2>2, <2>3, NothingToWrite DEF LedgerInv
<1>5. CASE /\ UndoNext \/ MoveStep \/ Undo \/ OtherClient \/ Cancel \/ UNCHANGED vars
           /\ ~WriteIntent
  <2>1. UNCHANGED <<pc, folder, todo, queue, intents>>
    BY <1>5, ApplyRests
  <2>2. Batch' = Batch /\ \A f, U : Unwritten(f, U) => Unwritten(f, U)'
    BY <1>2, <1>5, <2>1, UnwrittenKept DEF Batch
  <2>3. UnwrittenOK'
    BY <2>1, <2>2 DEF LedgerInv, UnwrittenOK
  <2> QED BY <1>2, <1>5, <2>3 DEF LedgerInv
<1> QED BY <1>1, <1>3, <1>4, <1>5, StepIsOne

LEMMA LedgerInitially == Init => LedgerInv
<1> SUFFICES ASSUME Init PROVE LedgerInv
  OBVIOUS
<1>1. Lines = {} /\ pc = "review"
  BY DEF Init, AuditInit, ApplyInit, Lines
<1> QED BY <1>1 DEF LedgerInv, LogOK, UnwrittenOK, Unwritten, InFolder

-----------------------------------------------------------------------------
\* What undo counts.

\* Copies of one Message-ID are in one folder, Trash aside.
OneSource ==
  \A c, d \in Copies :
    /\ Home[c] \in Folders /\ Home[d] \in Folders
    /\ IdOf[c] = IdOf[d] /\ IdOf[c] \in MessageIDs
    => Home[c] = Home[d]

LEMMA MailFinite ==
  ASSUME IInv, HomesOK
  PROVE  \A b \in Boxes : IsFiniteSet(mail[b])
<1> SUFFICES ASSUME NEW b \in Boxes PROVE IsFiniteSet(mail[b])
  OBVIOUS
<1>1. mail[b] \in SUBSET Entry
  BY Start DEF MailInv, MailTypeOK
<1>2. \A e, d \in mail[b] : e.msg = d.msg => e = d
  BY OneHome DEF HomesOK, Boxes
<1> DEFINE msg == [e \in mail[b] |-> e.msg]
<1>3. msg \in [mail[b] -> Copies] /\ \A e, d \in mail[b] : msg[e] = msg[d] => e = d
  BY <1>1, <1>2 DEF Entry
<1> HIDE DEF msg
<1> QED BY <1>3, FewerCount, FiniteAssumption

\* The copies the log has an intent for.
Logged(id) ==
  {c \in Copies : \E i \in IntentsOf(id) : audit.lines[i] = Intent(Home[c], FirstUid[c], id)}

LEMMA IntentIs ==
  ASSUME NEW f, NEW u, NEW id
  PROVE  /\ Intent(f, u, id).action = "move" /\ Intent(f, u, id).status = "pending"
         /\ Intent(f, u, id).folder = f /\ Intent(f, u, id).uids = {u} /\ Intent(f, u, id).id = id
BY DEF Intent, NewLine

LEMMA IntentFor ==
  ASSUME LogOK, NEW id, NEW i \in IntentsOf(id)
  PROVE  \E c \in Copies : /\ Home[c] \in Folders /\ IdOf[c] = id
                           /\ audit.lines[i] = Intent(Home[c], FirstUid[c], id)
<1>1. i \in Lines /\ IsIntent(i) /\ audit.lines[i].id = id
  BY DEF IntentsOf
<1>2. PICK c \in Copies : /\ Home[c] \in Folders
                          /\ audit.lines[i] = Intent(Home[c], FirstUid[c], IdOf[c])
  BY <1>1 DEF LogOK
<1>3. IdOf[c] = id
  BY <1>1, <1>2, IntentIs
<1> QED BY <1>2, <1>3

LEMMA LinesFinite ==
  ASSUME AuditTypeOK, NEW id
  PROVE  IsFiniteSet(IntentsOf(id)) /\ IntentsOf(id) \in SUBSET Nat
<1>1. Len(audit.lines) \in Nat /\ IntentsOf(id) \in SUBSET Lines /\ Lines \subseteq Nat
  BY DEF AuditTypeOK, IntentsOf, Lines
<1>2. IsFiniteSet(Lines)
  BY <1>1, FS_Interval DEF Lines
<1> QED BY <1>1, <1>2, FS_Subset

\* The source undo takes for a Message-ID is where its copies were.
LEMMA SourceIs ==
  ASSUME AuditTypeOK, LogOK, OneSource, NEW id \in Ids
  PROVE  /\ id \in MessageIDs /\ Source(id) \in Folders
         /\ \A c \in Copies : IdOf[c] = id /\ Home[c] \in Folders => Home[c] = Source(id)
<1>1. id \in MessageIDs /\ IntentsOf(id) # {} /\ IntentsOf(id) \in SUBSET Nat
  BY LinesFinite DEF Ids
<1>2. \E i \in IntentsOf(id) : \A j \in IntentsOf(id) : i <= j
  BY <1>1, LeastOfNaturals
<1>3. PICK i \in IntentsOf(id) : Source(id) = audit.lines[i].folder
  <2>1. (CHOOSE i \in IntentsOf(id) : \A j \in IntentsOf(id) : i <= j) \in IntentsOf(id)
    BY <1>2
  <2> QED BY <2>1 DEF Source
<1>4. PICK c \in Copies : /\ Home[c] \in Folders /\ IdOf[c] = id
                          /\ audit.lines[i] = Intent(Home[c], FirstUid[c], id)
  BY IntentFor
<1>5. Source(id) = Home[c]
  BY <1>3, <1>4, IntentIs
<1> QED BY <1>1, <1>4, <1>5 DEF OneSource

\* What was put into Trash has an intent.
LEMMA DiscardedLogged ==
  ASSUME IInv, HomesOK, NEW c \in Discarded
  PROVE  /\ c \in Copies /\ Home[c] \in Folders
         /\ IdOf[c] \in MessageIDs => IdOf[c] \in Ids /\ c \in Logged(IdOf[c])
<1>1. PICK t \in trashed : t.msg = c
  BY DEF Discarded
<1>2. c \in Copies /\ t.folder = Home[c] /\ t.uid = FirstUid[c] /\ Home[c] \in Folders
  BY <1>1, Start DEF HomesOK, MailInv, MailTypeOK
<1>3. PICK i \in 1 .. audit.synced : audit.lines[i] = Intent(Home[c], FirstUid[c], IdOf[c])
  BY <1>1, <1>2 DEF IInv, WriteAhead
<1>4. i \in IntentsOf(IdOf[c])
  BY <1>3, IntentIs, Start DEF IntentsOf, Lines, IsIntent
<1> QED BY <1>2, <1>3, <1>4 DEF Ids, Logged

\* A message that is not where it was is in Trash, put there by the run.
LEMMA AwayIsDiscarded ==
  ASSUME IInv, HomesOK, NothingLost, NEW c \in Copies, Home[c] \in Folders, Home[c] \notin HeldBy(c)
  PROVE  c \in Discarded
<1>1. PICK b \in Boxes : \E e \in mail[b] : e.msg = c
  BY DEF NothingLost
<1>2. b \in HeldBy(c) /\ b # Home[c]
  BY <1>1 DEF HeldBy
<1>3. b = Trash
  BY <1>1, <1>2 DEF HomesOK, Boxes
<1> QED BY <1>1, <1>3, BoxAssumption DEF HomesOK

\* What undo counts as moved and not found unmoved is what is missing.
LEMMA CountIs ==
  ASSUME IInv, HomesOK, NothingLost, ConfirmedMeansGone, LogOK, OneSource, NEW id \in Ids
  PROVE  /\ IsFiniteSet(Missing(Source(id), id))
         /\ Recorded(id) \in Nat /\ NeverMoved(id) \in Nat
         /\ Recorded(id) - NeverMoved(id) = Cardinality(Missing(Source(id), id))
<1> DEFINE f == Source(id)
           S == IntentsOf(id)
           stay == {c \in Logged(id) : f \in HeldBy(c)}
           N == {i \in Unconfirmed(id) : audit.lines[i].uids \subseteq Search(f, id)}
           copy == [i \in S |-> CHOOSE c \in Copies :
                      /\ Home[c] \in Folders /\ IdOf[c] = id
                      /\ audit.lines[i] = Intent(Home[c], FirstUid[c], id)]
           part == [i \in N |-> copy[i]]
<1>1. AuditTypeOK /\ IsFiniteSet(S) /\ S \in SUBSET Lines
  BY Start, LinesFinite DEF IntentsOf
<1>2. /\ f \in Folders /\ f \in Boxes /\ id \in MessageIDs
      /\ \A c \in Copies : IdOf[c] = id /\ Home[c] \in Folders => Home[c] = f
  BY <1>1, SourceIs DEF Boxes
<1>3. ASSUME NEW i \in S
      PROVE  /\ copy[i] \in Copies /\ Home[copy[i]] = f /\ IdOf[copy[i]] = id
             /\ audit.lines[i] = Intent(f, FirstUid[copy[i]], id)
             /\ audit.lines[i].folder = f /\ audit.lines[i].uids = {FirstUid[copy[i]]}
  <2>1. /\ copy[i] \in Copies /\ Home[copy[i]] \in Folders /\ IdOf[copy[i]] = id
        /\ audit.lines[i] = Intent(Home[copy[i]], FirstUid[copy[i]], id)
    BY IntentFor
  <2>2. Home[copy[i]] = f
    BY <1>2, <2>1
  <2> HIDE DEF copy, f
  <2> QED BY <2>1, <2>2, IntentIs
<1> HIDE DEF copy, f
<1>4. copy \in [S -> Logged(id)]
  <2>1. \A i \in S : copy[i] \in Logged(id)
    BY <1>3 DEF Logged
  <2>2. copy = [i \in S |-> copy[i]]
    BY DEF copy
  <2> QED BY <2>1, <2>2
<1>5. \A i, j \in S : copy[i] = copy[j] => i = j
  BY <1>1, <1>3 DEF LogOK, IntentsOf
<1>6. ASSUME NEW c \in Logged(id) PROVE \E i \in S : copy[i] = c
  <2>1. PICK i \in S : audit.lines[i] = Intent(Home[c], FirstUid[c], id)
    BY DEF Logged
  <2>2. Home[copy[i]] = Home[c] /\ FirstUid[copy[i]] = FirstUid[c] /\ c \in Copies
    BY <1>3, <2>1, IntentIs DEF Logged
  <2>3. copy[i] = c
    BY <1>3, <2>2, CopyAssumption
  <2> QED BY <2>3
<1>7. IsFiniteSet(Logged(id)) /\ Cardinality(Logged(id)) = Cardinality(S)
  BY <1>1, <1>4, <1>5, <1>6, SameCount
<1>8. ASSUME NEW i \in S PROVE i \in N <=> f \in HeldBy(copy[i])
  <2>1. ASSUME i \in N PROVE f \in HeldBy(copy[i])
    <3>1. FirstUid[copy[i]] \in Search(f, id)
      BY <1>3, <2>1
    <3>2. PICK e \in mail[f] : e.uid = FirstUid[copy[i]] /\ IdOf[e.msg] = id
      BY <3>1 DEF Search, WithId
    <3>3. e.msg \in Copies /\ Home[e.msg] = f /\ e.uid = FirstUid[e.msg]
      BY <1>2, OneHome DEF HomesOK
    <3>4. e.msg = copy[i]
      BY <1>3, <3>2, <3>3, CopyAssumption
    <3> QED BY <1>2, <3>4, HeldByIs
  <2>2. ASSUME f \in HeldBy(copy[i]) PROVE i \in N
    <3>1. PICK e \in mail[f] : e.msg = copy[i]
      BY <1>2, <2>2, HeldByIs
    <3>2. e.uid = FirstUid[copy[i]] /\ IdOf[e.msg] = id
      BY <1>2, <1>3, <3>1 DEF HomesOK
    <3>3. FirstUid[copy[i]] \in Search(f, id) /\ FirstUid[copy[i]] \in UidsIn(f)
      BY <3>2 DEF Search, WithId, UidsIn
    <3>4. FirstUid[copy[i]] \notin Confirmed(f)
      BY <1>2, <3>3 DEF ConfirmedMeansGone
    <3>5. i \in Unconfirmed(id)
      BY <1>3, <3>4 DEF Unconfirmed
    <3> QED BY <1>3, <3>3, <3>5
  <2> QED BY <2>1, <2>2
<1>9. N \in SUBSET S
  BY DEF Unconfirmed
<1>10. IsFiniteSet(N)
  BY <1>1, <1>9, FS_Subset
<1> HIDE DEF N
<1>11. part \in [N -> stay]
  <2>1. \A i \in N : copy[i] \in stay
    BY <1>4, <1>8, <1>9
  <2> QED BY <2>1
<1>12. \A c \in stay : \E i \in N : part[i] = c
  BY <1>6, <1>8
<1>13. \A i, j \in N : part[i] = part[j] => i = j
  BY <1>5, <1>9
<1> HIDE DEF part, stay
<1>14. IsFiniteSet(stay) /\ Cardinality(stay) = Cardinality(N)
  BY <1>10, <1>11, <1>12, <1>13, SameCount
<1>15. Logged(id) \ stay = Missing(f, id)
  <2>1. ASSUME NEW c \in Logged(id), f \notin HeldBy(c) PROVE c \in Missing(f, id)
    <3>1. c \in Copies /\ Home[c] = f /\ IdOf[c] = id
      BY <1>3, <1>6
    <3> QED BY <1>2, <2>1, <3>1, AwayIsDiscarded DEF Missing
  <2>2. ASSUME NEW c \in Missing(f, id) PROVE c \in Logged(id) /\ f \notin HeldBy(c)
    BY <1>2, DiscardedLogged DEF Missing
  <2> QED BY <2>1, <2>2 DEF stay
<1>16. Logged(id) \cap stay = stay
  BY DEF stay
<1>17. /\ IsFiniteSet(Missing(f, id))
       /\ Cardinality(Missing(f, id)) = Cardinality(S) - Cardinality(N)
  BY <1>7, <1>14, <1>15, <1>16, FS_Difference
<1>18. Cardinality(S) \in Nat /\ Cardinality(N) \in Nat
  BY <1>1, <1>10, FS_CardinalityType
<1>19. Recorded(id) = Cardinality(S) /\ NeverMoved(id) = Cardinality(N)
  BY DEF Recorded, NeverMoved, N, f
<1> QED BY <1>17, <1>18, <1>19 DEF f

LEMMA ApplyRuns ==
  ASSUME ApplyNext
  PROVE  ~RunEnded
BY DEF ApplyNext, ApplyStep, RunEnded, Prepare, OpenRun, WriteRefused, UnsubscribePhase,
       StartDelete, EndFolders, SkipFolder, SelectFolder, FetchFlags, FetchIdentity, Abort,
       WriteIntent, SyncIntents, Confirm, MoveFailed, DropRows, Finish

\* Lines that are neither intents nor confirmations change no count.
LEMMA CountsKept ==
  ASSUME AuditTypeOK, KeepsLines, NoNewIntent, mail' = mail,
         \A i \in 1 .. Len(audit'.lines) :
           \/ i \in 1 .. Len(audit.lines) /\ audit'.lines[i] = audit.lines[i]
           \/ audit'.lines[i].status # "done"
  PROVE  \A id : /\ IntentsOf(id)' = IntentsOf(id) /\ (id \in Ids => Source(id)' = Source(id))
                 /\ id \in Ids' <=> id \in Ids
                 /\ Recorded(id)' = Recorded(id) /\ Unconfirmed(id)' = Unconfirmed(id)
                 /\ NeverMoved(id)' = NeverMoved(id)
<1>1. \A i \in Lines : i \in 1 .. Len(audit'.lines) /\ audit'.lines[i] = audit.lines[i]
  BY DEF AuditTypeOK, KeepsLines, Lines
<1>2. \A id : IntentsOf(id)' = IntentsOf(id)
  BY <1>1 DEF NoNewIntent, IntentsOf, Lines, IsIntent
<1>3. \A id : \A i \in IntentsOf(id) : i \in Lines /\ audit'.lines[i] = audit.lines[i]
  BY <1>1 DEF IntentsOf
<1>4. \A f, u : u \in Confirmed(f)' <=> u \in Confirmed(f)
  <2> SUFFICES ASSUME NEW f, NEW u PROVE u \in Confirmed(f)' <=> u \in Confirmed(f)
    OBVIOUS
  <2>1. u \in Confirmed(f)' <=>
          \E i \in 1 .. Len(audit'.lines) :
            /\ audit'.lines[i].action = "move" /\ audit'.lines[i].status = "done"
            /\ audit'.lines[i].folder = f /\ u \in audit'.lines[i].uids
    BY DEF Confirmed, Lines, IsConfirmation
  <2> QED BY <1>1, <2>1, ConfirmedIs DEF IsConfirmation, Lines
<1> SUFFICES ASSUME NEW id
             PROVE  /\ IntentsOf(id)' = IntentsOf(id) /\ (id \in Ids => Source(id)' = Source(id))
                    /\ id \in Ids' <=> id \in Ids
                    /\ Recorded(id)' = Recorded(id) /\ Unconfirmed(id)' = Unconfirmed(id)
                    /\ NeverMoved(id)' = NeverMoved(id)
  OBVIOUS
<1> DEFINE first == CHOOSE i \in IntentsOf(id) : \A j \in IntentsOf(id) : i <= j
<1>5. Source(id)' = audit'.lines[first].folder /\ Source(id) = audit.lines[first].folder
  BY <1>2 DEF Source
<1>6. IntentsOf(id) # {} => first \in IntentsOf(id)
  <2>1. IntentsOf(id) \in SUBSET Nat
    BY LinesFinite
  <2>2. IntentsOf(id) # {} => \E i \in IntentsOf(id) : \A j \in IntentsOf(id) : i <= j
    BY <2>1, LeastOfNaturals
  <2> QED BY <2>2
<1> HIDE DEF first
<1>7. IntentsOf(id) # {} => Source(id)' = Source(id)
  BY <1>3, <1>5, <1>6
<1>8. id \in Ids' <=> id \in Ids
  BY <1>2 DEF Ids
<1>9. Unconfirmed(id)' = Unconfirmed(id)
  BY <1>2, <1>3, <1>4 DEF Unconfirmed
<1>10. \A f : Search(f, id)' = Search(f, id)
  BY DEF Search, WithId
<1>11. \A i \in Unconfirmed(id) : i \in IntentsOf(id) /\ audit'.lines[i] = audit.lines[i]
  BY <1>3 DEF Unconfirmed
<1> DEFINE here == {i \in Unconfirmed(id) : audit.lines[i].uids \subseteq Search(Source(id), id)}
<1>12. here' = here
  <2>1. ASSUME NEW i \in Unconfirmed(id)
        PROVE  audit'.lines[i].uids \subseteq Search(Source(id), id)'
                 <=> audit.lines[i].uids \subseteq Search(Source(id), id)
    <3>1. Source(id)' = Source(id)
      BY <1>7, <1>11
    <3>2. Search(Source(id), id)' = Search(Source(id), id)
      BY <3>1 DEF Search, WithId
    <3> QED BY <1>11, <3>2
  <2> QED BY <1>9, <2>1
<1>13. NeverMoved(id)' = NeverMoved(id)
  <2> HIDE DEF here
  <2>1. NeverMoved(id) = Cardinality(here) /\ NeverMoved(id)' = Cardinality(here')
    BY DEF NeverMoved, here
  <2> QED BY <1>12, <2>1
<1> QED BY <1>2, <1>7, <1>8, <1>9, <1>13 DEF Recorded, Ids

\* The bounds and the faults under which undo is exact: a folder that cannot be
\* selected is taken as emptied, and a second undo counts the first one's copies
\* again.
UndoOnce ==
  /\ MaxUndos <= 1 /\ "imap" \notin FaultKinds
  /\ "move" \notin UserActs /\ "rebuild" \notin UserActs

LEMMA CheckStep ==
  ASSUME UndoOnce
  PROVE  IInv /\ DiscardInv /\ CheckInv /\ [Next]_vars => CheckInv'
<1> SUFFICES ASSUME IInv, DiscardInv, CheckInv, [Next]_vars, upc' = "check",
                    NEW id \in Ids', Source(id)' \notin (ucheck \cup blocked)'
             PROVE  never'[id] = NeverMoved(id)'
  BY DEF CheckInv
<1>1. MailInv /\ AuditTypeOK /\ id \in MessageIDs
  BY Start DEF Ids
<1>2. CASE upc = "check" /\ UNCHANGED <<mail, audit, never, ucheck, blocked>>
  <2>1. \A i \in 1 .. Len(audit'.lines) :
          i \in 1 .. Len(audit.lines) /\ audit'.lines[i] = audit.lines[i]
    BY <1>2
  <2>2. KeepsLines /\ NoNewIntent
    BY <1>1, <1>2 DEF KeepsLines, NoNewIntent, Lines, AuditTypeOK
  <2>3. id \in Ids /\ Source(id)' = Source(id) /\ NeverMoved(id)' = NeverMoved(id)
    BY <1>1, <1>2, <2>1, <2>2, CountsKept
  <2> QED BY <1>2, <2>3 DEF CheckInv
<1>3. CASE Undo
  <2>1. /\ audit' = audit /\ mail' = mail
        /\ never' = [j \in MessageIDs |-> 0]
        /\ ucheck' = {Source(j) : j \in {k \in Ids : Unconfirmed(k) # {}}} \ blocked'
    BY <1>3 DEF Undo, UndoStart, Reopened, serverVars
  <2>2. KeepsLines /\ NoNewIntent
    BY <1>1, <2>1 DEF KeepsLines, NoNewIntent, Lines, AuditTypeOK
  <2>3. /\ id \in Ids /\ Source(id)' = Source(id) /\ Unconfirmed(id)' = Unconfirmed(id)
        /\ NeverMoved(id)' = NeverMoved(id)
    BY <1>1, <2>1, <2>2, CountsKept
  <2>4. Unconfirmed(id) = {}
    BY <2>1, <2>3
  <2>5. NeverMoved(id) = Cardinality({})
    BY <2>4 DEF NeverMoved
  <2> QED BY <1>1, <2>1, <2>3, <2>5, FS_EmptySet
<1>4. CASE UndoNext
  <2>1. PICK f \in Folders : /\ CheckSource(f)
                             /\ never' = [j \in MessageIDs |->
                                  IF j \in Ids /\ Source(j) = f THEN NeverMoved(j) ELSE never[j]]
                             /\ ucheck' = ucheck \ {f} /\ blocked' = blocked
    BY <1>4 DEF UndoNext, UndoStep, CheckSource, Locate, RestoreFolder, Restored, RestoreFailed,
                UndoEnds, Fails, Fault, UndoOnce
  <2>2. LogStep /\ PlainStep /\ mail' = mail /\ upc = "check"
    BY <1>4, UndoNextFrame, UndoPlain, UndoChecks DEF UndoFrame, serverVars
  <2>3. /\ KeepsLines /\ NoNewIntent
        /\ \A i \in 1 .. Len(audit'.lines) :
             \/ i \in 1 .. Len(audit.lines) /\ audit'.lines[i] = audit.lines[i]
             \/ audit'.lines[i].status # "done"
    BY <1>1, <2>2, LogStepIs, PlainStepIs
  <2>4. id \in Ids /\ Source(id)' = Source(id) /\ NeverMoved(id)' = NeverMoved(id)
    BY <1>1, <2>2, <2>3, CountsKept
  <2> QED BY <1>1, <2>1, <2>2, <2>4 DEF CheckInv
<1>5. CASE MoveStep \/ OtherClient \/ Cancel \/ UNCHANGED vars
  <2>1. /\ upc = "check" /\ UNCHANGED <<never, ucheck, blocked>>
        /\ audit' = audit
    BY <1>5 DEF MoveStep, OtherClient, Cancel, vars, undoVars, auditVars
  <2>2. ~MoveStep
    <3>1. RunEnded
      BY <2>1, Start DEF CallInv, UndoRunning
    <3>2. ~CallOut
      BY <2>1, <3>1 DEF DiscardInv, OwnerInv, RunEnded
    <3>3. MoveStep => CallOut
      BY MoveUIDsKeeps, Start DEF MoveStep, InCall, CallOut
    <3> QED BY <3>2, <3>3
  <2>3. mail' = mail
    BY <1>5, <2>2, ClientStars DEF UndoOnce, Cancel, vars, mailVars, serverVars
  <2> QED BY <1>2, <2>1, <2>3
<1>6. ~ApplyNext
  <2>1. ASSUME ApplyNext PROVE FALSE
    <3>1. ~RunEnded /\ upc = "check"
      BY <2>1, ApplyRuns, ApplyFrame DEF undoVars
    <3> QED BY <3>1, Start DEF CallInv, UndoRunning
  <2> QED BY <2>1
<1>7. ~Crash
  BY DEF Crash, UndoRunning
<1> QED BY <1>3, <1>4, <1>5, <1>6, <1>7, StepIsOne

-----------------------------------------------------------------------------
\* What undo finds in Trash.

\* A folder has what it had, less what is missing.
LEMMA HomeCount ==
  ASSUME IInv, HomesOK, NothingLost, NEW f \in Folders, NEW id
  PROVE  /\ IsFiniteSet(Missing(f, id)) /\ Cardinality(Missing(f, id)) \in Nat
         /\ IsFiniteSet(WithId(f, id)) /\ Cardinality(WithId(f, id)) \in Nat
         /\ Cardinality(WithId(f, id)) + Cardinality(Missing(f, id)) = CountBefore(f, id)
<1> DEFINE before == {c \in Copies : Home[c] = f /\ IdOf[c] = id}
           held == {c \in before : f \in HeldBy(c)}
           msg == [e \in WithId(f, id) |-> e.msg]
<1>1. f \in Boxes /\ f # Trash /\ mail \in [Boxes -> SUBSET Entry]
  BY Start, BoxAssumption DEF Boxes, MailInv, MailTypeOK
<1>2. IsFiniteSet(before) /\ before \cap held = held
  <2>1. before \in SUBSET Copies
    OBVIOUS
  <2> QED BY <2>1, FS_Subset, FiniteAssumption
<1>3. IsFiniteSet(WithId(f, id))
  <2>1. WithId(f, id) \in SUBSET mail[f]
    BY DEF WithId
  <2> QED BY <1>1, <2>1, MailFinite, FS_Subset
<1>4. \A e \in WithId(f, id) : /\ e \in mail[f] /\ e.msg \in held
                               /\ \A d \in mail[f] : d.msg = e.msg => d = e
  BY OneHome DEF WithId
<1>5. \A c \in held : \E e \in WithId(f, id) : e.msg = c
  BY <1>1, HeldByIs DEF WithId
<1>6. before \ held = Missing(f, id)
  <2>1. ASSUME NEW c \in before, c \notin held PROVE c \in Missing(f, id)
    BY <2>1, AwayIsDiscarded DEF Missing
  <2>2. ASSUME NEW c \in Missing(f, id) PROVE c \in before /\ c \notin held
    BY DiscardedLogged DEF Missing
  <2> QED BY <2>1, <2>2
<1>7. CountBefore(f, id) = Cardinality(before)
  BY DEF CountBefore
<1> HIDE DEF before, held
<1>8. IsFiniteSet(held) /\ Cardinality(held) = Cardinality(WithId(f, id))
  <2>1. /\ msg \in [WithId(f, id) -> held]
        /\ \A c \in held : \E e \in WithId(f, id) : msg[e] = c
        /\ \A e, d \in WithId(f, id) : msg[e] = msg[d] => e = d
    BY <1>4, <1>5
  <2> HIDE DEF msg
  <2> QED BY <1>3, <2>1, SameCount
<1>9. /\ IsFiniteSet(Missing(f, id))
      /\ Cardinality(Missing(f, id)) = Cardinality(before) - Cardinality(held)
  BY <1>2, <1>6, FS_Difference
<1>10. /\ Cardinality(before) \in Nat /\ Cardinality(held) \in Nat
       /\ Cardinality(Missing(f, id)) \in Nat
  BY <1>2, <1>8, <1>9, FS_CardinalityType
<1> QED BY <1>3, <1>7, <1>8, <1>9, <1>10

\* The newest copies in Trash, as many as are missing, are the run's.
LEMMA NewestAreOwn ==
  ASSUME IInv, HomesOK, NothingLost, ConfirmedMeansGone, LogOK, OneSource,
         NEW id \in Ids, never[id] = NeverMoved(id)
  PROVE  LET f == Source(id)
             high == Highest(Search(Trash, id), Wanted(id))
         IN  /\ IsFiniteSet(high) /\ high \subseteq Search(Trash, id)
             /\ Cardinality(high) = Cardinality(Missing(f, id))
             /\ \A e \in mail[Trash] : e.uid \in high =>
                  IdOf[e.msg] = id /\ e.msg \in Discarded /\ Home[e.msg] = f
<1> DEFINE f == Source(id)
           ws == WithId(Trash, id)
           S == Search(Trash, id)
           own == {e.uid : e \in {x \in ws : Home[x.msg] # Trash}}
           n == Wanted(id)
<1>1. /\ Trash \in Boxes /\ mail[Trash] \subseteq Entry /\ AuditTypeOK /\ f \in Folders /\ f # Trash
      /\ \A e \in mail[Trash] : e.uid \in Nat /\ e.msg \in Copies
      /\ \A e, d \in mail[Trash] : e.uid = d.uid => e = d
      /\ \A c \in Copies : IdOf[c] = id /\ Home[c] \in Folders => Home[c] = f
  <2>1. AuditTypeOK /\ MailInv
    BY Start
  <2>2. f \in Folders /\ \A c \in Copies : IdOf[c] = id /\ Home[c] \in Folders => Home[c] = f
    BY <2>1, SourceIs
  <2>3. Trash \in Boxes /\ f # Trash
    BY <2>2, BoxAssumption DEF Boxes
  <2>4. mail[Trash] \subseteq Entry /\ \A e, d \in mail[Trash] : e.uid = d.uid => e = d
    BY <2>1, <2>3 DEF MailInv, MailTypeOK, UidsOK
  <2> QED BY <2>1, <2>2, <2>3, <2>4 DEF Entry, Uids
<1>2. n = Cardinality(Missing(f, id)) /\ n \in Nat /\ IsFiniteSet(Missing(f, id))
  <2>1. /\ Recorded(id) \in Nat /\ NeverMoved(id) \in Nat /\ IsFiniteSet(Missing(f, id))
        /\ Recorded(id) - NeverMoved(id) = Cardinality(Missing(f, id))
    BY CountIs
  <2>2. Cardinality(Missing(f, id)) \in Nat
    BY <2>1, FS_CardinalityType
  <2>3. ~(NeverMoved(id) > Recorded(id))
    BY <2>1, <2>2
  <2> QED BY <2>1, <2>2, <2>3 DEF Wanted
<1>3. S \in SUBSET Nat /\ IsFiniteSet(S)
  <2>1. ws \in SUBSET mail[Trash]
    BY DEF WithId
  <2>2. IsFiniteSet(ws)
    BY <1>1, <2>1, MailFinite, FS_Subset
  <2> DEFINE uid == [e \in ws |-> e.uid]
  <2>3. uid \in [ws -> S] /\ \A u \in S : \E e \in ws : uid[e] = u
    BY DEF Search
  <2> HIDE DEF uid
  <2>4. IsFiniteSet(S)
    BY <2>2, <2>3, FiniteImage
  <2> QED BY <1>1, <2>1, <2>4 DEF Search
<1>4. own \in SUBSET S /\ \A u \in own, v \in S \ own : v < u
  <2>1. own \in SUBSET S
    BY DEF Search
  <2>2. ASSUME NEW u \in own, NEW v \in S, v \notin own PROVE v < u
    <3>1. PICK x \in ws : x.uid = u /\ Home[x.msg] # Trash
      OBVIOUS
    <3>2. PICK y \in ws : y.uid = v
      BY DEF Search
    <3>3. Home[y.msg] = Trash
      BY <2>2, <3>2
    <3>4. x \in mail[Trash] /\ y \in mail[Trash] /\ u \in Nat /\ v \in Nat
      BY <1>1, <3>1, <3>2 DEF WithId
    <3>5. u > FirstNext /\ v < FirstNext /\ FirstNext \in Nat
      BY <3>1, <3>2, <3>3, <3>4, CopyAssumption DEF HomesOK
    <3> QED BY <3>4, <3>5
  <2> QED BY <2>1, <2>2
<1>5. n <= Cardinality(own)
  <2> DEFINE entry(c) == CHOOSE e \in mail[Trash] : e.msg = c
             uid == [c \in Missing(f, id) |-> entry(c).uid]
  <2>1. ASSUME NEW c \in Missing(f, id)
        PROVE  entry(c) \in mail[Trash] /\ entry(c).msg = c /\ entry(c).uid \in own
    <3>1. c \in Discarded /\ IdOf[c] = id /\ Home[c] = f
      BY DEF Missing
    <3>2. \E e \in mail[Trash] : e.msg = c
      BY <1>1, <3>1, HeldByIs DEF HomesOK
    <3>3. entry(c) \in mail[Trash] /\ entry(c).msg = c
      BY <3>2
    <3> HIDE DEF entry
    <3>4. entry(c) \in {x \in ws : Home[x.msg] # Trash}
      BY <1>1, <3>1, <3>3 DEF WithId
    <3> QED BY <3>3, <3>4
  <2> HIDE DEF entry, own
  <2>2. uid \in [Missing(f, id) -> own]
    BY <2>1
  <2>3. \A c, d \in Missing(f, id) : uid[c] = uid[d] => c = d
    BY <1>1, <2>1
  <2>4. IsFiniteSet(own)
    BY <1>3, <1>4, FS_Subset
  <2> HIDE DEF uid
  <2>5. Cardinality(Missing(f, id)) <= Cardinality(own)
    BY <2>2, <2>3, <2>4, FewerCount
  <2> QED BY <1>2, <2>5
<1> HIDE DEF own, S, n, f
<1>6. n <= Cardinality(S)
  <2>1. IsFiniteSet(own) /\ Cardinality(own) <= Cardinality(S)
    BY <1>3, <1>4, FS_Subset
  <2>2. Cardinality(own) \in Nat /\ Cardinality(S) \in Nat
    BY <1>3, <2>1, FS_CardinalityType
  <2> QED BY <1>2, <1>5, <2>1, <2>2
<1>7. IsFiniteSet(Highest(S, n)) /\ Cardinality(Highest(S, n)) = n
  BY <1>2, <1>3, <1>6, HighestCount
<1>8. Highest(S, n) \subseteq own
  BY <1>2, <1>3, <1>4, <1>5, HighestAmong
<1>9. ASSUME NEW e \in mail[Trash], e.uid \in own
      PROVE  IdOf[e.msg] = id /\ e.msg \in Discarded /\ Home[e.msg] = f
  <2>1. PICK x \in ws : x.uid = e.uid /\ Home[x.msg] # Trash
    BY <1>9 DEF own
  <2>2. x = e /\ IdOf[e.msg] = id
    BY <1>1, <2>1 DEF WithId
  <2>3. e.msg \in Discarded
    BY <2>1, <2>2 DEF HomesOK
  <2>4. Home[e.msg] \in Folders
    BY <2>3, DiscardedLogged
  <2> QED BY <1>1, <2>2, <2>3, <2>4
<1>10. Highest(S, n) \subseteq S
  BY BoundsAreSubsets
<1> QED BY <1>2, <1>7, <1>8, <1>9, <1>10 DEF S, n, f

\* What undo is about to move out of Trash, by Message-ID.
Picked(f, id) == {e.msg : e \in {x \in At(Trash, ToRestore(f)) : IdOf[x.msg] = id}}

LEMMA PickedAreOwn ==
  ASSUME IInv, HomesOK, NothingLost, ConfirmedMeansGone, LogOK, OneSource,
         CheckInv, upc = "check", ucheck = {},
         NEW f \in Folders, NEW e \in At(Trash, ToRestore(f))
  PROVE  /\ IdOf[e.msg] \in Ids /\ Open(IdOf[e.msg]) /\ Source(IdOf[e.msg]) = f
         /\ e \in mail[Trash] /\ e.msg \in Discarded /\ Home[e.msg] = f
         /\ e.uid \in Highest(Search(Trash, IdOf[e.msg]), Wanted(IdOf[e.msg]))
<1>1. PICK id \in Ids : /\ Open(id) /\ Source(id) = f
                        /\ e.uid \in Highest(Search(Trash, id), Wanted(id))
  BY DEF At, ToRestore
<1>2. e \in mail[Trash]
  BY DEF At
<1>3. never[id] = NeverMoved(id)
  BY <1>1 DEF CheckInv, Open
<1>4. IdOf[e.msg] = id /\ e.msg \in Discarded /\ Home[e.msg] = f
  BY <1>1, <1>2, <1>3, NewestAreOwn
<1> QED BY <1>1, <1>2, <1>4

LEMMA PickedBalance ==
  ASSUME IInv, HomesOK, NothingLost, ConfirmedMeansGone, LogOK, OneSource,
         CheckInv, upc = "check", ucheck = {}, NEW f \in Folders, NEW id \in MessageIDs
  PROVE  /\ Cardinality(Picked(f, id)) <= Cardinality(Missing(f, id))
         /\ f \notin blocked =>
              Cardinality(WithId(f, id)) + Cardinality(Picked(f, id)) = CountBefore(f, id)
<1>1. /\ IsFiniteSet(Missing(f, id)) /\ Cardinality(Missing(f, id)) \in Nat
      /\ Cardinality(WithId(f, id)) \in Nat
      /\ Cardinality(WithId(f, id)) + Cardinality(Missing(f, id)) = CountBefore(f, id)
  BY HomeCount
<1>2. CASE id \in Ids /\ Open(id) /\ Source(id) = f
  <2> DEFINE high == Highest(Search(Trash, id), Wanted(id))
             entry(u) == CHOOSE e \in mail[Trash] : e.uid = u
             msg == [u \in high |-> entry(u).msg]
  <2>1. never[id] = NeverMoved(id)
    BY <1>2 DEF CheckInv, Open
  <2>2. /\ IsFiniteSet(high) /\ high \subseteq Search(Trash, id)
        /\ Cardinality(high) = Cardinality(Missing(f, id))
        /\ \A e \in mail[Trash] : e.uid \in high => IdOf[e.msg] = id
    BY <1>2, <2>1, NewestAreOwn
  <2>3. high \subseteq ToRestore(f)
    BY <1>2 DEF ToRestore
  <2>4. \A e, d \in mail[Trash] : (e.uid = d.uid => e = d) /\ (e.msg = d.msg => e = d)
    BY Start DEF MailInv, UidsOK, Boxes, HomesOK
  <2>5. ASSUME NEW e \in At(Trash, ToRestore(f)), IdOf[e.msg] = id
        PROVE  e \in mail[Trash] /\ e.uid \in high
    BY <2>5, PickedAreOwn
  <2> HIDE DEF high
  <2>6. ASSUME NEW u \in high PROVE entry(u) \in mail[Trash] /\ entry(u).uid = u
    BY <2>2 DEF Search, WithId
  <2>7. \A e \in mail[Trash] : e.uid \in high => entry(e.uid) = e
    BY <2>4, <2>6
  <2> HIDE DEF entry
  <2>8. msg \in [high -> Picked(f, id)]
    <3>1. ASSUME NEW u \in high PROVE entry(u).msg \in Picked(f, id)
      BY <2>2, <2>3, <2>6 DEF Picked, At
    <3> QED BY <3>1
  <2>9. \A c \in Picked(f, id) : \E u \in high : msg[u] = c
    <3>1. ASSUME NEW c \in Picked(f, id) PROVE \E u \in high : msg[u] = c
      <4>1. PICK e \in At(Trash, ToRestore(f)) : IdOf[e.msg] = id /\ e.msg = c
        BY DEF Picked
      <4>2. e \in mail[Trash] /\ e.uid \in high /\ entry(e.uid) = e
        BY <2>5, <2>7, <4>1
      <4> QED BY <4>1, <4>2
    <3> QED BY <3>1
  <2>10. \A u, v \in high : msg[u] = msg[v] => u = v
    BY <2>4, <2>6
  <2> HIDE DEF msg
  <2>11. Cardinality(Picked(f, id)) = Cardinality(high)
    BY <2>2, <2>8, <2>9, <2>10, SameCount
  <2> QED BY <1>1, <2>2, <2>11
<1>3. CASE ~(id \in Ids /\ Open(id) /\ Source(id) = f)
  <2>1. Picked(f, id) = {}
    <3>1. ASSUME NEW e \in At(Trash, ToRestore(f)), IdOf[e.msg] = id PROVE FALSE
      BY <1>3, <3>1, PickedAreOwn
    <3> QED BY <3>1 DEF Picked
  <2>2. f \notin blocked => Missing(f, id) = {}
    <3>1. ASSUME f \notin blocked, NEW c \in Missing(f, id) PROVE FALSE
      <4>1. c \in Discarded /\ IdOf[c] = id /\ Home[c] = f
        BY DEF Missing
      <4>2. c \in Copies /\ id \in Ids
        BY <4>1, DiscardedLogged
      <4>3. Source(id) = f
        BY <4>1, <4>2, Start, SourceIs
      <4> QED BY <1>3, <3>1, <4>2, <4>3 DEF Open
    <3> QED BY <3>1
  <2>3. Cardinality({}) = 0
    BY FS_EmptySet
  <2> QED BY <1>1, <2>1, <2>2, <2>3
<1> QED BY <1>2, <1>3

\* Undo has looked into Trash.
LEMMA LocateReturns ==
  ASSUME IInv, HomesOK, NothingLost, ConfirmedMeansGone, LogOK, OneSource, CheckInv,
         Locate, upc' = "restore"
  PROVE  ReturnsOK'
<1>1. /\ upc = "check" /\ ucheck = {} /\ \A f \in Folders : found'[f] = ToRestore(f)
      /\ UNCHANGED <<mail, trashed, restored, blocked>>
  BY DEF Locate, UndoReads, serverVars
<1>2. restored' = {} /\ Discarded' = Discarded
  BY <1>1 DEF HomesOK, Discarded
<1>3. \A c : HeldBy(c)' = HeldBy(c)
  BY <1>1 DEF HeldBy
<1>4. \A f \in Folders : At(Trash, found[f])' = At(Trash, ToRestore(f))
  BY <1>1 DEF At
<1>5. /\ \A b \in Boxes : IsFiniteSet(mail'[b])
      /\ \A c \in Discarded' : Home[c] \in Folders
      /\ \A f \in Folders : \A e \in mail'[f] : Home[e.msg] = f
      /\ \A e, d \in mail'[Trash] : e.msg = d.msg => e = d
  BY <1>1, <1>2, MailFinite, DiscardedLogged DEF HomesOK
<1>6. ASSUME NEW f \in Folders, NEW e \in At(Trash, found[f])'
      PROVE  e.msg \in Discarded' /\ Home[e.msg] = f /\ IdOf[e.msg] \in MessageIDs
  BY <1>1, <1>2, <1>4, PickedAreOwn DEF Ids
<1>7. ASSUME NEW f \in Folders, NEW id \in MessageIDs PROVE Balanced(f, id)'
  <2>1. Owed(f, id)' = Picked(f, id)
    BY <1>2, <1>4 DEF Owed, Picked
  <2>2. Missing(f, id)' = Missing(f, id)
    BY <1>2, <1>3 DEF Missing
  <2>3. WithId(f, id)' = WithId(f, id)
    BY <1>1 DEF WithId
  <2>4. CountBefore(f, id)' = CountBefore(f, id)
    BY DEF CountBefore
  <2> QED BY <1>1, <2>1, <2>2, <2>3, <2>4, PickedBalance DEF Balanced
<1> QED BY <1>2, <1>5, <1>6, <1>7 DEF ReturnsOK

-----------------------------------------------------------------------------
\* What the commands of undo do.

LEMMA ReturnIsStep ==
  ASSUME NEW ls \in SUBSET Copies, NEW f \in Folders, Promise!Return(ls, f)
  PROVE  PromiseStep
<1>1. CASE ls # {}
  <2>1. ls \in (SUBSET Copies) \ {{}}
    BY <1>1
  <2> QED BY <2>1 DEF PromiseStep, Promise!Next
<1>2. CASE ls = {}
  <2>1. Discarded' = Discarded /\ restored' = restored
    BY <1>2 DEF Promise!Return
  <2>2. [c \in Copies |-> HeldBy(c)]' = [c \in Copies |-> HeldBy(c)]
    BY <1>2 DEF Promise!Return, Promise!Put
  <2> QED BY <2>1, <2>2 DEF PromiseStep, Promise!places
<1> QED BY <1>1, <1>2

\* What a command of undo starts from.
LEMMA ReturnCall ==
  ASSUME IInv, OwnerInv, ReturnsOK, upc = "moving", MoveStep
  PROVE  /\ mv.src = Trash /\ mv.dst \in Folders /\ mv.dst # Trash
         /\ mv.todo \subseteq found[mv.dst] /\ Chunk \subseteq mv.todo
         /\ mv \in Calls /\ MailInv /\ MoveUIDs /\ CallOut
         /\ mail \in [Boxes -> SUBSET Entry] /\ Folders \subseteq Boxes /\ Trash \in Boxes
         /\ UNCHANGED <<upc, blocked, found, undos>>
         /\ \A c \in Discarded : c \in Copies /\ Home[c] \in Boxes /\ Home[c] # Trash
<1>1. MailInv /\ MoveUIDs /\ InCall /\ mv \in Calls /\ mail \in [Boxes -> SUBSET Entry]
  BY Start, MoveUIDsKeeps DEF MoveStep, MailInv, MailTypeOK
<1>2. mv.dst \in Folders /\ mv.todo \subseteq found[mv.dst]
  BY DEF ReturnsOK
<1>3. mv.src = Trash
  BY <1>1, Start DEF OwnerInv, CallOut, InCall, CallInv, UndoRunning, RunEnded
<1>4. UNCHANGED <<upc, blocked, found, undos>>
  BY DEF MoveStep, undoVars
<1>5. Chunk \subseteq mv.todo
  BY BoundsAreSubsets DEF Chunk
<1>6. \A c \in Discarded : c \in Copies /\ Home[c] \in Boxes /\ Home[c] # Trash
  BY <1>1, BoxAssumption DEF ReturnsOK, Boxes, Discarded, MailInv, MailTypeOK
<1> QED BY <1>1, <1>2, <1>3, <1>4, <1>5, <1>6, BoxAssumption DEF InCall, CallOut, Boxes

\* A message of the run's in a mailbox is in Trash or back in its folder.
LEMMA HeldAtHome ==
  ASSUME ReturnsOK, NEW c \in Discarded
  PROVE  HeldBy(c) \subseteq {Home[c], Trash}
BY DEF ReturnsOK, HeldBy, Boxes

\* What it is for entries of Trash that undo has found for a folder, and not
\* moved yet, to be put into it.
PutsBack(dst, es, kept) ==
  /\ dst \in Folders /\ es \subseteq At(Trash, found[dst]) /\ kept \in BOOLEAN
  /\ \A e \in es : e.msg \notin restored
  /\ (kept /\ CopyEntries(Trash, dst, es)) \/ (~kept /\ MoveEntries(Trash, dst, es))
  /\ Record(Trash, dst, es) /\ found' = found /\ blocked' = blocked

LEMMA PutsBackIs ==
  ASSUME MailInv, ReturnsOK, NEW dst, NEW es, NEW kept, PutsBack(dst, es, kept)
  PROVE  /\ Discarded' = Discarded /\ restored' = restored \cup Msgs(es)
         /\ Msgs(es) \in SUBSET Copies /\ Msgs(es) \subseteq Discarded \ restored
         /\ \A c \in Msgs(es) : Home[c] = dst /\ Trash \in HeldBy(c)
         /\ PutInto(Trash, dst, es, kept) /\ es \in SUBSET mail[Trash]
         /\ \A e, d \in es : e.msg = d.msg => e = d
         /\ \A b \in Boxes : IsFiniteSet(mail'[b])
         /\ \A f \in Folders : \A e \in mail'[f] : Home[e.msg] = f
<1>1. /\ dst \in Folders /\ dst \in Boxes /\ Trash \in Boxes /\ dst # Trash
      /\ mail \in [Boxes -> SUBSET Entry] /\ Folders \subseteq Boxes
      /\ es \in SUBSET mail[Trash] /\ kept \in BOOLEAN
  BY BoxAssumption, AtIsSubset DEF PutsBack, Boxes, MailInv, MailTypeOK
<1>2. trashed' = trashed /\ restored' = restored \cup Msgs(es)
  BY <1>1 DEF PutsBack, Record, Msgs
<1>3. Discarded' = Discarded
  BY <1>2 DEF Discarded
<1>4. \A e \in es : /\ e.msg \in Copies /\ e.msg \in Discarded /\ Home[e.msg] = dst
                    /\ e.msg \notin restored /\ e \in mail[Trash]
  BY <1>1 DEF PutsBack, ReturnsOK, Entry
<1>5. PutInto(Trash, dst, es, kept)
  BY <1>1, PutIntoIs DEF PutsBack
<1>6. \A c \in Msgs(es) : \E e \in es : e.msg = c
  BY DEF Msgs
<1>7. \A c \in Msgs(es) : Trash \in HeldBy(c)
  BY <1>1, <1>4, <1>6, HeldByIs
<1>8. \A e, d \in es : e.msg = d.msg => e = d
  BY <1>4 DEF ReturnsOK
<1>9. IsFiniteSet(es)
  BY <1>1, FS_Subset DEF ReturnsOK
<1>10. ASSUME NEW b \in Boxes PROVE IsFiniteSet(mail'[b])
  <2>1. CASE b = dst
    BY <1>1, <1>5, <1>9, <2>1 DEF PutInto, ReturnsOK
  <2>2. CASE b = Trash
    <3>1. mail'[Trash] \in SUBSET mail[Trash]
      BY <1>5 DEF PutInto
    <3> QED BY <1>1, <2>2, <3>1, FS_Subset DEF ReturnsOK
  <2>3. CASE b \notin {dst, Trash}
    BY <1>5, <2>3 DEF PutInto, ReturnsOK
  <2> QED BY <2>1, <2>2, <2>3
<1>11. ASSUME NEW f \in Folders, NEW e \in mail'[f] PROVE Home[e.msg] = f
  <2>1. CASE f = dst
    <3>1. e \in mail[f] \/ \E d \in es : d.msg = e.msg
      BY <1>5, <2>1 DEF PutInto
    <3> QED BY <1>4, <2>1, <3>1 DEF ReturnsOK
  <2>2. CASE f # dst
    <3>1. mail'[f] = mail[f]
      BY <1>1, <1>5, <2>2, BoxAssumption DEF PutInto
    <3> QED BY <3>1 DEF ReturnsOK
  <2> QED BY <2>1, <2>2
<1> QED BY <1>1, <1>2, <1>3, <1>4, <1>5, <1>6, <1>7, <1>8, <1>10, <1>11

\* The mailboxes that hold a message afterwards.
LEMMA PutsBackHeld ==
  ASSUME MailInv, ReturnsOK, NEW dst, NEW es, NEW kept, PutsBack(dst, es, kept)
  PROVE  /\ \A c : c \notin Msgs(es) => HeldBy(c)' = HeldBy(c)
         /\ \A c \in Msgs(es) : HeldBy(c)' = {dst} \cup (IF kept THEN HeldBy(c) ELSE {})
<1>1. /\ dst \in Folders /\ dst \in Boxes /\ Trash \in Boxes /\ dst # Trash /\ kept \in BOOLEAN
  BY BoxAssumption DEF PutsBack, Boxes
<1>2. /\ PutInto(Trash, dst, es, kept) /\ es \in SUBSET mail[Trash]
      /\ Msgs(es) \subseteq Discarded /\ \A c \in Msgs(es) : Home[c] = dst
  BY PutsBackIs
<1>3. /\ \A b \in Boxes \ {Trash, dst} : mail'[b] = mail[b]
      /\ mail[dst] \subseteq mail'[dst] /\ mail'[Trash] = IF kept THEN mail[Trash] ELSE mail[Trash] \ es
      /\ \A e \in mail'[dst] : e \in mail[dst] \/ \E d \in es : d.msg = e.msg
      /\ \A e \in es : \E d \in mail'[dst] : d.msg = e.msg
  BY <1>2 DEF PutInto
<1>4. ASSUME NEW c, c \notin Msgs(es) PROVE HeldBy(c)' = HeldBy(c)
  <2>1. \A e \in es : e.msg # c
    BY <1>4 DEF Msgs
  <2>2. (\E e \in mail'[dst] : e.msg = c) <=> (\E e \in mail[dst] : e.msg = c)
    BY <1>3, <2>1
  <2>3. (\E e \in mail'[Trash] : e.msg = c) <=> (\E e \in mail[Trash] : e.msg = c)
    BY <1>3, <2>1
  <2>4. \A b \in Boxes : (\E e \in mail'[b] : e.msg = c) <=> (\E e \in mail[b] : e.msg = c)
    BY <1>3, <2>2, <2>3
  <2> QED BY <2>4 DEF HeldBy
<1>5. ASSUME NEW c \in Msgs(es)
      PROVE  HeldBy(c)' = {dst} \cup (IF kept THEN HeldBy(c) ELSE {})
  <2>1. PICK e \in es : e.msg = c
    BY DEF Msgs
  <2>2. \E d \in mail'[dst] : d.msg = c
    BY <1>3, <2>1
  <2>3. HeldBy(c) \subseteq {dst, Trash}
    BY <1>2, HeldAtHome
  <2>4. \A b \in Boxes \ {dst} : b \in HeldBy(c)' <=> b \in HeldBy(c) /\ kept
    <3>1. ASSUME NEW b \in Boxes \ {dst, Trash} PROVE b \notin HeldBy(c)' /\ b \notin HeldBy(c)
      BY <1>3, <2>3 DEF HeldBy
    <3>2. CASE kept
      BY <1>1, <1>3, <3>1, <3>2 DEF HeldBy
    <3>3. CASE ~kept
      <4>1. \A d \in mail[Trash] : d.msg = c => d = e
        BY <1>2, <2>1 DEF ReturnsOK
      <4>2. ~\E d \in mail'[Trash] : d.msg = c
        BY <1>3, <2>1, <3>3, <4>1
      <4> QED BY <3>1, <3>3, <4>2 DEF HeldBy
    <3> QED BY <1>1, <3>2, <3>3
  <2>5. dst \in HeldBy(c)' /\ HeldBy(c)' \subseteq Boxes /\ HeldBy(c) \subseteq Boxes
    BY <1>1, <2>2 DEF HeldBy
  <2> QED BY <1>1, <2>4, <2>5
<1> QED BY <1>4, <1>5

\* What is owed is finite, and so is what is missing.
LEMMA OwedFinite ==
  ASSUME IInv, ReturnsOK, NEW f \in Folders, NEW id
  PROVE  /\ IsFiniteSet(Owed(f, id)) /\ Cardinality(Owed(f, id)) \in Nat
         /\ IsFiniteSet(Missing(f, id)) /\ Cardinality(Missing(f, id)) \in Nat
         /\ IsFiniteSet(WithId(f, id)) /\ Cardinality(WithId(f, id)) \in Nat
<1>1. mail[Trash] \subseteq Entry /\ Trash \in Boxes /\ f \in Boxes /\ Discarded \subseteq Copies
  BY Start DEF MailInv, MailTypeOK, Boxes, Discarded
<1>2. Owed(f, id) \in SUBSET Copies /\ Missing(f, id) \in SUBSET Copies
  BY <1>1 DEF Owed, Missing, At, Entry
<1>3. WithId(f, id) \in SUBSET mail[f]
  BY DEF WithId
<1>4. /\ IsFiniteSet(Owed(f, id)) /\ IsFiniteSet(Missing(f, id)) /\ IsFiniteSet(WithId(f, id))
  BY <1>1, <1>2, <1>3, FS_Subset, FiniteAssumption DEF ReturnsOK
<1> QED BY <1>4, FS_CardinalityType

LEMMA PutsBackBalance ==
  ASSUME IInv, ReturnsOK, NEW dst, NEW es, NEW kept, PutsBack(dst, es, kept),
         NEW f \in Folders, NEW id \in MessageIDs
  PROVE  Balanced(f, id)'
<1> DEFINE ls == {c \in Msgs(es) : IdOf[c] = id}
<1>1. /\ MailInv /\ dst \in Folders /\ dst \in Boxes /\ f \in Boxes /\ f # Trash /\ kept \in BOOLEAN
      /\ found' = found /\ blocked' = blocked /\ dst # Trash /\ es \subseteq At(Trash, found[dst])
      /\ \A e \in es : e.msg \notin restored
  BY Start, BoxAssumption DEF PutsBack, Boxes
<1>2. /\ Discarded' = Discarded /\ restored' = restored \cup Msgs(es)
      /\ \A c \in Msgs(es) : Home[c] = dst
      /\ PutInto(Trash, dst, es, kept) /\ es \in SUBSET mail[Trash]
      /\ \A e, d \in es : e.msg = d.msg => e = d
      /\ IsFiniteSet(mail'[f])
  BY <1>1, PutsBackIs
<1>3. /\ \A c : c \notin Msgs(es) => HeldBy(c)' = HeldBy(c)
      /\ \A c \in Msgs(es) : HeldBy(c)' = {dst} \cup (IF kept THEN HeldBy(c) ELSE {})
  BY <1>1, PutsBackHeld
<1>4. /\ IsFiniteSet(Owed(f, id)) /\ Cardinality(Owed(f, id)) \in Nat
      /\ IsFiniteSet(Missing(f, id)) /\ Cardinality(Missing(f, id)) \in Nat
      /\ IsFiniteSet(WithId(f, id)) /\ Cardinality(WithId(f, id)) \in Nat
      /\ Balanced(f, id)
  BY OwedFinite DEF ReturnsOK
<1>5. CountBefore(f, id)' = CountBefore(f, id)
  BY DEF CountBefore
<1>6. /\ mail'[Trash] \subseteq mail[Trash] /\ mail[Trash] \ es \subseteq mail'[Trash]
      /\ mail[dst] \subseteq mail'[dst] /\ \A b \in Boxes \ {Trash, dst} : mail'[b] = mail[b]
  BY <1>1, <1>2 DEF PutInto
<1>7. CASE f # dst
  <2>1. Missing(f, id)' = Missing(f, id)
    BY <1>2, <1>3, <1>7 DEF Missing
  <2>2. WithId(f, id)' = WithId(f, id)
    BY <1>1, <1>6, <1>7 DEF WithId
  <2>3. \A e \in At(Trash, found[f]) : e.msg \notin Msgs(es)
    BY <1>2, <1>7 DEF ReturnsOK
  <2>4. \A e \in es : e.msg \in Msgs(es)
    BY DEF Msgs
  <2>5. At(Trash, found[f])' = At(Trash, found[f])
    BY <1>1, <1>6, <2>3, <2>4 DEF At
  <2>6. Owed(f, id)' = Owed(f, id)
    BY <1>2, <2>3, <2>5 DEF Owed
  <2> QED BY <1>1, <1>4, <1>5, <2>1, <2>2, <2>6 DEF Balanced
<1>8. CASE f = dst
  <2>1. ls \in SUBSET Owed(f, id)
    <3>1. ASSUME NEW c \in ls PROVE c \in Owed(f, id)
      <4>1. PICK e \in es : e.msg = c
        BY DEF Msgs
      <4>2. e \in At(Trash, found[f]) /\ IdOf[e.msg] = id /\ c \notin restored
        BY <1>1, <1>8, <4>1
      <4> QED BY <4>1, <4>2 DEF Owed
    <3> QED BY <3>1
  <2>2. Owed(f, id)' = Owed(f, id) \ ls
    <3>1. ASSUME NEW c \in Owed(f, id)' PROVE c \in Owed(f, id) /\ c \notin ls
      <4>1. PICK e \in At(Trash, found[f])' : e.msg = c /\ IdOf[e.msg] = id
        BY DEF Owed
      <4>2. e \in At(Trash, found[f]) /\ c \notin restored'
        BY <1>1, <1>6, <4>1 DEF At, Owed
      <4> QED BY <1>2, <4>1, <4>2 DEF Owed
    <3>2. ASSUME NEW c \in Owed(f, id), c \notin ls PROVE c \in Owed(f, id)'
      <4>1. PICK e \in At(Trash, found[f]) : e.msg = c /\ IdOf[e.msg] = id
        BY DEF Owed
      <4>2. c \notin Msgs(es) /\ c \notin restored'
        BY <1>2, <3>2, <4>1 DEF Owed
      <4>3. e \in mail'[Trash] /\ e.uid \in found'[f]
        BY <1>1, <1>6, <4>1, <4>2 DEF Msgs, At
      <4>4. e \in At(Trash, found[f])'
        BY <4>3 DEF At
      <4> QED BY <4>1, <4>2, <4>4 DEF Owed
    <3> QED BY <3>1, <3>2
  <2>3. Missing(f, id)' = Missing(f, id) \ ls
    BY <1>2, <1>3, <1>8 DEF Missing
  <2> DEFINE new == {e \in mail'[f] \ mail[f] : IdOf[e.msg] = id}
             msg == [e \in new |-> e.msg]
  <2>4. IsFiniteSet(new)
    <3>1. new \in SUBSET mail'[f]
      OBVIOUS
    <3> QED BY <1>2, <3>1, FS_Subset
  <2>5. msg \in [new -> ls]
    <3>1. ASSUME NEW e \in new PROVE e.msg \in ls
      BY <1>2, <1>8 DEF PutInto, Msgs
    <3> QED BY <3>1
  <2>6. \A c \in ls : \E e \in new : msg[e] = c
    <3>1. ASSUME NEW c \in ls PROVE \E e \in new : e.msg = c
      BY <1>2, <1>8 DEF PutInto, Msgs
    <3> QED BY <3>1
  <2>7. \A e, d \in new : msg[e] = msg[d] => e = d
    BY <1>2, <1>8 DEF PutInto
  <2>8. WithId(f, id)' = WithId(f, id) \cup new /\ WithId(f, id) \cap new = {}
    BY <1>6, <1>8 DEF WithId
  <2> HIDE DEF ls, new, msg
  <2>9. IsFiniteSet(ls) /\ Cardinality(ls) = Cardinality(new)
    BY <2>4, <2>5, <2>6, <2>7, SameCount
  <2>10. Cardinality(ls) \in Nat /\ Owed(f, id) \cap ls = ls
    BY <2>1, <2>9, FS_CardinalityType
  <2>11. Cardinality(Owed(f, id) \ ls) = Cardinality(Owed(f, id)) - Cardinality(ls)
    BY <1>4, <2>10, FS_Difference
  <2>12. Cardinality(WithId(f, id) \cup new) = Cardinality(WithId(f, id)) + Cardinality(ls)
    <3>1. Cardinality(WithId(f, id) \cup new) =
            Cardinality(WithId(f, id)) + Cardinality(new) - Cardinality(WithId(f, id) \cap new)
      BY <1>4, <2>4, FS_Union
    <3>2. Cardinality(WithId(f, id) \cap new) = 0
      BY <2>8, FS_EmptySet
    <3> QED BY <1>4, <2>9, <2>10, <3>1, <3>2
  <2>13. Cardinality(Missing(f, id) \ ls) >= Cardinality(Missing(f, id)) - Cardinality(ls)
    <3>1. /\ Cardinality(Missing(f, id) \ ls) =
               Cardinality(Missing(f, id)) - Cardinality(Missing(f, id) \cap ls)
      BY <1>4, FS_Difference
    <3>2. Missing(f, id) \cap ls \in SUBSET ls
      OBVIOUS
    <3>3. /\ IsFiniteSet(Missing(f, id) \cap ls)
          /\ Cardinality(Missing(f, id) \cap ls) <= Cardinality(ls)
      BY <2>9, <3>2, FS_Subset
    <3>4. Cardinality(Missing(f, id) \cap ls) \in Nat
      BY <3>3, FS_CardinalityType
    <3> QED BY <1>4, <2>10, <3>1, <3>3, <3>4
  <2>14. Cardinality(Missing(f, id) \ ls) \in Nat
    <3>1. Missing(f, id) \ ls \in SUBSET Missing(f, id)
      OBVIOUS
    <3> QED BY <1>4, <3>1, FS_Subset, FS_CardinalityType
  <2>15. /\ Cardinality(Owed(f, id)') <= Cardinality(Missing(f, id)')
         /\ f \notin blocked =>
              Cardinality(WithId(f, id)') + Cardinality(Owed(f, id)') = CountBefore(f, id)
    BY <1>4, <2>2, <2>3, <2>8, <2>10, <2>11, <2>12, <2>13, <2>14 DEF Balanced
  <2> QED BY <1>1, <1>5, <2>15 DEF Balanced
<1> QED BY <1>7, <1>8

LEMMA SameCardinality == \A S : Promise!Cardinality(S) = Cardinality(S)
BY DEF Promise!Cardinality, Cardinality

\* Putting messages back is a Return of SoftDelete.
LEMMA PutsBackPromise ==
  ASSUME IInv, ReturnsOK, NEW dst, NEW es, NEW kept, PutsBack(dst, es, kept)
  PROVE  PromiseStep
<1>1. /\ MailInv /\ dst \in Folders /\ kept \in BOOLEAN /\ es \subseteq At(Trash, found[dst])
      /\ \A e \in es : e.msg \notin restored
  BY Start DEF PutsBack
<1>2. /\ Discarded' = Discarded /\ restored' = restored \cup Msgs(es)
      /\ Msgs(es) \in SUBSET Copies /\ Msgs(es) \subseteq Discarded \ restored
      /\ \A c \in Msgs(es) : Home[c] = dst /\ Trash \in HeldBy(c)
  BY <1>1, PutsBackIs
<1>3. [c \in Copies |-> HeldBy(c)]' =
        [c \in Copies |-> IF c \in Msgs(es) THEN {dst} \cup (IF kept THEN HeldBy(c) ELSE {})
                                            ELSE HeldBy(c)]
  BY <1>1, PutsBackHeld
<1>4. Promise!Put(Msgs(es), dst)
  BY <1>1, <1>2, <1>3 DEF Promise!Put
<1>5. ASSUME NEW c \in Msgs(es)
      PROVE  Cardinality({m \in Msgs(es) : IdOf[m] = IdOf[c]})
               <= Cardinality(Missing(dst, IdOf[c]))
  <2> DEFINE ls == {m \in Msgs(es) : IdOf[m] = IdOf[c]}
  <2>1. IdOf[c] \in MessageIDs
    BY <1>1 DEF Msgs, ReturnsOK
  <2>2. ls \in SUBSET Owed(dst, IdOf[c])
    <3>1. ASSUME NEW m \in ls PROVE m \in Owed(dst, IdOf[c])
      <4>1. PICK e \in es : e.msg = m /\ IdOf[e.msg] = IdOf[c]
        BY DEF Msgs
      <4>2. e \in At(Trash, found[dst]) /\ m \notin restored
        BY <1>1, <4>1
      <4> QED BY <4>1, <4>2 DEF Owed
    <3> QED BY <3>1
  <2>3. Cardinality(Owed(dst, IdOf[c])) <= Cardinality(Missing(dst, IdOf[c]))
    BY <1>1, <2>1 DEF ReturnsOK, Balanced
  <2>4. /\ IsFiniteSet(Owed(dst, IdOf[c])) /\ Cardinality(Owed(dst, IdOf[c])) \in Nat
        /\ Cardinality(Missing(dst, IdOf[c])) \in Nat
    BY <1>1, OwedFinite
  <2> HIDE DEF ls
  <2>5. /\ IsFiniteSet(ls) /\ Cardinality(ls) <= Cardinality(Owed(dst, IdOf[c]))
    BY <2>2, <2>4, FS_Subset
  <2>6. Cardinality(ls) \in Nat
    BY <2>5, FS_CardinalityType
  <2>7. Cardinality(ls) <= Cardinality(Missing(dst, IdOf[c]))
    BY <2>3, <2>4, <2>5, <2>6
  <2> QED BY <2>7 DEF ls
<1>6. \A id : Promise!Missing(id, dst) = Missing(dst, id)
  <2>1. Discarded \subseteq Copies
    BY Start DEF Discarded, MailInv, MailTypeOK
  <2> QED BY <2>1 DEF Promise!Missing, Missing
<1>7. \A c \in Msgs(es) : c \in Copies /\ Trash \in [l \in Copies |-> HeldBy(l)][c]
  BY <1>2
<1>8. Promise!Return(Msgs(es), dst)
  <2>1. \A c \in Msgs(es) : Cardinality({m \in Msgs(es) : IdOf[m] = IdOf[c]})
                             <= Cardinality(Promise!Missing(IdOf[c], dst))
    BY <1>5, <1>6
  <2> QED BY <1>2, <1>4, <1>7, <2>1, SameCardinality DEF Promise!Return
<1> QED BY <1>1, <1>2, <1>8, ReturnIsStep

LEMMA PutsBackKeeps ==
  ASSUME IInv, ReturnsOK, NEW dst, NEW es, NEW kept, PutsBack(dst, es, kept),
         upc = "moving", upc' = "moving", mv.pc = "chunk", mv.dst = dst, mv'.dst = dst,
         mv'.todo \subseteq found[dst], mv'.pc \in {"store", "expunge"} => mv'.chunk \subseteq mv'.todo,
         mv'.pc # "err" => es = At(Trash, Chunk) /\ Left' = mv.todo \ Chunk
  PROVE  ReturnsOK'
<1>1. /\ MailInv /\ dst \in Folders /\ kept \in BOOLEAN /\ found' = found
      /\ es \subseteq At(Trash, found[dst]) /\ Folders \subseteq Boxes /\ dst \in Boxes
  BY Start DEF PutsBack, Boxes
<1>2. /\ Discarded' = Discarded /\ restored' = restored \cup Msgs(es)
      /\ Msgs(es) \subseteq Discarded \ restored
      /\ \A c \in Msgs(es) : Home[c] = dst
      /\ \A b \in Boxes : IsFiniteSet(mail'[b])
      /\ \A f \in Folders : \A e \in mail'[f] : Home[e.msg] = f
      /\ mail'[Trash] \subseteq mail[Trash]
  <2>1. PutInto(Trash, dst, es, kept)
    BY <1>1, PutsBackIs
  <2>2. mail'[Trash] \subseteq mail[Trash]
    BY <2>1 DEF PutInto
  <2> QED BY <1>1, <2>2, PutsBackIs
<1>3. \A c \in Discarded' : Home[c] \in Folders
  BY <1>2 DEF ReturnsOK
<1>4. \A e, d \in mail'[Trash] : e.msg = d.msg => e = d
  BY <1>2 DEF ReturnsOK
<1>5. ASSUME NEW c \in restored' PROVE c \in Discarded' /\ Home[c] \in HeldBy(c)'
  <2>1. CASE c \in Msgs(es)
    BY <1>1, <1>2, <2>1, PutsBackHeld
  <2>2. CASE c \notin Msgs(es)
    <3>1. HeldBy(c)' = HeldBy(c)
      BY <1>1, <2>2, PutsBackHeld
    <3> QED BY <1>2, <2>2, <3>1 DEF ReturnsOK
  <2> QED BY <2>1, <2>2
<1>6. \A f \in Folders : \A e \in At(Trash, found[f])' : e \in At(Trash, found[f])
  BY <1>1, <1>2 DEF At
<1>7. ASSUME NEW f \in Folders, NEW e \in At(Trash, found[f])'
      PROVE  /\ e.msg \in Discarded' /\ Home[e.msg] = f /\ IdOf[e.msg] \in MessageIDs
             /\ f # dst => e.msg \notin restored'
  <2>1. e.msg \in Discarded' /\ Home[e.msg] = f /\ IdOf[e.msg] \in MessageIDs
    BY <1>2, <1>6 DEF ReturnsOK
  <2>2. f # dst => e.msg \notin restored /\ e.msg \notin Msgs(es)
    BY <1>2, <1>6, <2>1 DEF ReturnsOK
  <2> QED BY <1>2, <2>1, <2>2
<1>8. \A f \in Folders, id \in MessageIDs : Balanced(f, id)'
  BY PutsBackBalance
<1>9. ASSUME mv'.pc # "err", NEW e \in At(Trash, found[dst])'
      PROVE  e.msg \in restored' <=> e.uid \notin Left'
  <2>1. e \in At(Trash, found[dst]) /\ e \in mail[Trash]
    BY <1>1, <1>6 DEF At
  <2>2. e.msg \in restored <=> e.uid \notin mv.todo
    BY <2>1 DEF ReturnsOK, Left
  <2>3. e.msg \in Msgs(es) <=> e.uid \in Chunk
    <3>1. e.uid \in Chunk => e \in es
      BY <1>9, <2>1 DEF At
    <3>2. \A d \in es : d \in mail[Trash] /\ d.uid \in Chunk
      BY <1>9 DEF At
    <3>3. \A d \in es : d.msg = e.msg => d = e
      BY <2>1, <3>2 DEF ReturnsOK
    <3> QED BY <3>1, <3>2, <3>3 DEF Msgs
  <2> QED BY <1>2, <1>9, <2>2, <2>3
<1> QED BY <1>1, <1>2, <1>3, <1>4, <1>5, <1>7, <1>8, <1>9 DEF ReturnsOK

\* MOVE and COPY out of Trash.
LEMMA ReturnPuts ==
  ASSUME IInv, OwnerInv, ReturnsOK, upc = "moving", MoveStep, UidMove \/ UidCopy
  PROVE  ReturnsOK' /\ PromiseStep
<1> DEFINE dst == mv.dst
<1>1. /\ dst \in Folders /\ mv.src = Trash /\ mv.todo \subseteq found[dst]
      /\ Chunk \subseteq mv.todo /\ mv \in Calls /\ mv.pc = "chunk"
      /\ UNCHANGED <<upc, found, blocked>>
  BY ReturnCall DEF UidMove, UidCopy
<1>2. PICK kept \in BOOLEAN, es \in SUBSET At(Trash, Chunk) :
        /\ (kept /\ CopyEntries(Trash, dst, es)) \/ (~kept /\ MoveEntries(Trash, dst, es))
        /\ Record(Trash, dst, es)
        /\ \/ MoveError
           \/ es = At(Trash, Chunk) /\ ChunkDone(Chunk)
           \/ es = At(Trash, Chunk) /\ mv' = [mv EXCEPT !.pc = "store", !.chunk = Chunk]
  <2>1. CASE UidMove
    <3>1. \E es \in SUBSET At(Trash, Chunk) :
            /\ MoveEntries(Trash, dst, es) /\ Record(Trash, dst, es)
            /\ MoveError \/ (es = At(Trash, Chunk) /\ ChunkDone(Chunk))
      BY <1>1, <2>1 DEF UidMove
    <3> QED BY <3>1
  <2>2. CASE UidCopy
    <3>1. \E es \in SUBSET At(Trash, Chunk) :
            /\ CopyEntries(Trash, dst, es) /\ Record(Trash, dst, es)
            /\ \/ MoveError
               \/ es = At(Trash, Chunk) /\ mv' = [mv EXCEPT !.pc = "store", !.chunk = Chunk]
      BY <1>1, <2>2 DEF UidCopy
    <3> QED BY <3>1
  <2> QED BY <2>1, <2>2
<1>3. es \subseteq At(Trash, found[dst]) /\ \A e \in es : e.msg \notin restored
  <2>1. \A e \in es : e \in At(Trash, found[dst]) /\ e.uid \in mv.todo
    BY <1>1 DEF At
  <2>2. \A e \in At(Trash, found[dst]) : e.uid \in mv.todo => e.msg \notin restored
    BY <1>1 DEF ReturnsOK, Left
  <2> QED BY <2>1, <2>2
<1> HIDE DEF dst
<1>4. PutsBack(dst, es, kept)
  BY <1>1, <1>2, <1>3 DEF PutsBack
<1>5. PromiseStep
  BY <1>4, PutsBackPromise
<1>6. /\ mv'.dst = dst /\ mv'.todo \subseteq found[dst]
      /\ mv'.pc \in {"store", "expunge"} => mv'.chunk \subseteq mv'.todo
      /\ mv'.pc # "err" => es = At(Trash, Chunk) /\ Left' = mv.todo \ Chunk
  <2>1. CASE MoveError
    BY <1>1, <2>1 DEF MoveError, Calls, dst
  <2>2. CASE es = At(Trash, Chunk) /\ ChunkDone(Chunk)
    <3>1. /\ mv'.todo = mv.todo \ Chunk /\ mv'.dst = mv.dst
          /\ mv'.pc = IF mv.todo \ Chunk = {} THEN "ok" ELSE "chunk"
      BY <1>1, <2>2 DEF ChunkDone, Calls
    <3>2. Left' = mv.todo \ Chunk
      BY <3>1 DEF Left
    <3> QED BY <1>1, <2>2, <3>1, <3>2 DEF dst
  <2>3. CASE es = At(Trash, Chunk) /\ mv' = [mv EXCEPT !.pc = "store", !.chunk = Chunk]
    <3>1. mv'.todo = mv.todo /\ mv'.dst = mv.dst /\ mv'.pc = "store" /\ mv'.chunk = Chunk
      BY <1>1, <2>3 DEF Calls
    <3>2. Left' = mv.todo \ Chunk
      BY <3>1 DEF Left
    <3> QED BY <1>1, <2>3, <3>1, <3>2 DEF dst
  <2> QED BY <1>2, <2>1, <2>2, <2>3
<1>7. mv.dst = dst /\ upc' = "moving"
  BY <1>1 DEF dst
<1> QED BY <1>1, <1>4, <1>5, <1>6, <1>7, PutsBackKeeps

\* A step that changes nothing but the flags of what Trash holds, and takes
\* from it only what is back in its folder.
ThinsTrash ==
  /\ \A b \in Boxes \ {Trash} : mail'[b] = mail[b]
  /\ IsFiniteSet(mail'[Trash]) /\ SameEntries(Trash)
  /\ \A e, d \in mail'[Trash] : e.msg = d.msg => e = d
  /\ \A e \in mail[Trash] :
       e.msg \in restored \/ \E d \in mail'[Trash] : d.uid = e.uid /\ d.msg = e.msg
  /\ UNCHANGED <<trashed, restored, found, blocked>>

LEMMA ThinsKeeps ==
  ASSUME IInv, ReturnsOK, ThinsTrash, upc = "moving", upc' = "moving", mv'.dst = mv.dst,
         mv'.todo \subseteq mv.todo,
         mv'.pc \in {"store", "expunge"} => mv'.chunk \subseteq mv'.todo,
         mv'.pc # "err" => mv.pc # "err" /\ Left' = Left
  PROVE  ReturnsOK'
<1>1. /\ Discarded' = Discarded /\ restored' = restored /\ found' = found /\ blocked' = blocked
      /\ Trash \in Boxes /\ \A f \in Folders : f \in Boxes /\ f # Trash /\ mail'[f] = mail[f]
      /\ SameEntries(Trash)
  BY BoxAssumption DEF ThinsTrash, Discarded, Boxes
<1>2. \A f \in Folders : \A c : f \in HeldBy(c)' <=> f \in HeldBy(c)
  BY <1>1 DEF HeldBy
<1>3. \A b \in Boxes : IsFiniteSet(mail'[b])
  BY DEF ThinsTrash, ReturnsOK
<1>4. \A f \in Folders : \A e \in At(Trash, found[f])' :
        \E o \in At(Trash, found[f]) : o.uid = e.uid /\ o.msg = e.msg
  BY <1>1 DEF SameEntries, At
<1>5. ASSUME NEW f \in Folders, NEW id \in MessageIDs PROVE Balanced(f, id)'
  <2>1. Owed(f, id)' = Owed(f, id)
    <3>1. ASSUME NEW c \in Owed(f, id)' PROVE c \in Owed(f, id)
      <4>1. PICK e \in At(Trash, found[f])' : e.msg = c /\ IdOf[e.msg] = id
        BY DEF Owed
      <4>2. PICK o \in At(Trash, found[f]) : o.uid = e.uid /\ o.msg = e.msg
        BY <1>4
      <4>3. c \notin restored
        BY <1>1 DEF Owed
      <4> QED BY <4>1, <4>2, <4>3 DEF Owed
    <3>2. ASSUME NEW c \in Owed(f, id) PROVE c \in Owed(f, id)'
      <4>1. PICK e \in At(Trash, found[f]) : e.msg = c /\ IdOf[e.msg] = id
        BY DEF Owed
      <4>2. c \notin restored /\ e \in mail[Trash] /\ e.uid \in found[f]
        BY <4>1 DEF Owed, At
      <4>3. PICK d \in mail'[Trash] : d.uid = e.uid /\ d.msg = e.msg
        BY <4>1, <4>2 DEF ThinsTrash
      <4>4. d \in At(Trash, found[f])'
        BY <1>1, <4>2, <4>3 DEF At
      <4> QED BY <1>1, <4>1, <4>2, <4>3, <4>4 DEF Owed
    <3> QED BY <3>1, <3>2
  <2>2. Missing(f, id)' = Missing(f, id)
    BY <1>1, <1>2 DEF Missing
  <2>3. WithId(f, id)' = WithId(f, id)
    BY <1>1 DEF WithId
  <2>4. CountBefore(f, id)' = CountBefore(f, id) /\ Balanced(f, id)
    BY DEF CountBefore, ReturnsOK
  <2> QED BY <1>1, <2>1, <2>2, <2>3, <2>4 DEF Balanced
<1>6. \A c \in restored' : c \in Discarded' /\ Home[c] \in HeldBy(c)'
  BY <1>1, <1>2 DEF ReturnsOK
<1>7. /\ \A c \in Discarded' : Home[c] \in Folders
      /\ \A f \in Folders : \A e \in mail'[f] : Home[e.msg] = f
      /\ \A e, d \in mail'[Trash] : e.msg = d.msg => e = d
  BY <1>1 DEF ReturnsOK, ThinsTrash
<1>8. ASSUME NEW f \in Folders, NEW e \in At(Trash, found[f])'
      PROVE  /\ e.msg \in Discarded' /\ Home[e.msg] = f /\ IdOf[e.msg] \in MessageIDs
             /\ f # mv.dst => e.msg \notin restored'
  BY <1>1, <1>4 DEF ReturnsOK
<1>9. mv'.dst \in Folders /\ mv'.todo \subseteq found'[mv'.dst]
  BY <1>1 DEF ReturnsOK
<1>10. ASSUME mv'.pc # "err", NEW e \in mail'[Trash], e.uid \in found'[mv'.dst]
       PROVE  e.msg \in restored' <=> e.uid \notin Left'
  <2>1. PICK o \in At(Trash, found[mv.dst]) : o.uid = e.uid /\ o.msg = e.msg
    BY <1>1, <1>10 DEF SameEntries, At
  <2>2. o.msg \in restored <=> o.uid \notin Left
    BY <1>10 DEF ReturnsOK
  <2> QED BY <1>1, <1>10, <2>1, <2>2
<1>11. mv'.pc # "err" =>
         \A e \in At(Trash, found[mv.dst])' : e.msg \in restored' <=> e.uid \notin Left'
  BY <1>10 DEF At
<1> QED BY <1>3, <1>5, <1>6, <1>7, <1>8, <1>9, <1>11 DEF ReturnsOK

LEMMA ReturnMarks ==
  ASSUME IInv, IInv', OwnerInv, ReturnsOK, upc = "moving", MoveStep, UidStore
  PROVE  ReturnsOK' /\ PromiseStep
<1>1. /\ mv.src = Trash /\ mv.dst \in Folders /\ Trash \in Boxes /\ MailInv
      /\ mv \in Calls /\ mv.pc = "store" /\ UNCHANGED <<upc, found, blocked>>
  BY ReturnCall DEF UidStore
<1>2. PICK es \in SUBSET At(Trash, mv.chunk) :
        MarkDeleted(Trash, es) /\ (mv' = [mv EXCEPT !.pc = "expunge"] \/ MoveError)
  BY <1>1 DEF UidStore
<1>3. /\ \A b \in Boxes \ {Trash} : mail'[b] = mail[b]
      /\ SameEntries(Trash) /\ \A c : HeldBy(c)' = HeldBy(c)
      /\ \A e \in mail[Trash] : \E d \in mail'[Trash] : d.uid = e.uid /\ d.msg = e.msg
  <2>1. es \in SUBSET mail[Trash]
    BY AtIsSubset
  <2> QED BY <1>1, <1>2, <2>1, MarkIs
<1>4. UNCHANGED <<trashed, restored>> /\ Discarded' = Discarded
  BY DEF UidStore, Discarded
<1>5. PromiseStep
  BY <1>3, <1>4 DEF PromiseStep, Promise!places
<1>6. \A e, d \in mail'[Trash] : (e.uid = d.uid => e = d) /\ (e.msg = d.msg => e = d)
  <2>1. \A e, d \in mail'[Trash] : e.uid = d.uid => e = d
    BY <1>1, Start DEF IInv, UidsOK
  <2>2. ASSUME NEW e \in mail'[Trash], NEW d \in mail'[Trash], e.msg = d.msg PROVE e.uid = d.uid
    <3>1. PICK o \in mail[Trash] : o.uid = e.uid /\ o.msg = e.msg
      BY <1>3 DEF SameEntries
    <3>2. PICK p \in mail[Trash] : p.uid = d.uid /\ p.msg = d.msg
      BY <1>3 DEF SameEntries
    <3>3. o = p
      BY <2>2, <3>1, <3>2 DEF ReturnsOK
    <3> QED BY <3>1, <3>2, <3>3
  <2> QED BY <2>1, <2>2
<1>7. IsFiniteSet(mail'[Trash])
  <2> DEFINE msg == [e \in mail'[Trash] |-> e.msg]
  <2>1. mail'[Trash] \subseteq Entry
    BY <1>1 DEF IInv, TypeOK, MailTypeOK
  <2>2. msg \in [mail'[Trash] -> Copies] /\ \A e, d \in mail'[Trash] : msg[e] = msg[d] => e = d
    BY <1>6, <2>1 DEF Entry
  <2> HIDE DEF msg
  <2> QED BY <2>2, FewerCount, FiniteAssumption
<1>8. ThinsTrash
  BY <1>1, <1>3, <1>4, <1>6, <1>7 DEF ThinsTrash
<1>9. /\ mv'.dst = mv.dst /\ mv'.todo = mv.todo /\ mv'.chunk = mv.chunk
      /\ mv'.pc \in {"expunge", "err"}
  BY <1>1, <1>2 DEF MoveError, Calls
<1>10. mv.chunk \subseteq mv.todo
  BY <1>1 DEF ReturnsOK
<1>11. mv'.pc # "err" => Left' = Left
  BY <1>1, <1>9 DEF Left
<1> QED BY <1>1, <1>5, <1>8, <1>9, <1>10, <1>11, ThinsKeeps

\* UID EXPUNGE removes from Trash what is back in its folder.
LEMMA ReturnExpunges ==
  ASSUME IInv, OwnerInv, ReturnsOK, upc = "moving", MoveStep, UidExpunge
  PROVE  ReturnsOK' /\ PromiseStep
<1>1. /\ mv.src = Trash /\ mv.dst \in Folders /\ Trash \in Boxes
      /\ mail \in [Boxes -> SUBSET Entry]
      /\ \A c \in Discarded : c \in Copies /\ Home[c] \in Boxes /\ Home[c] # Trash
      /\ mv \in Calls /\ mv.pc = "expunge" /\ UNCHANGED <<upc, found, blocked>>
  BY ReturnCall DEF UidExpunge
<1>2. PICK es \in SUBSET At(Trash, mv.chunk) :
        mail' = [mail EXCEPT ![Trash] = @ \ es] /\ (ChunkDone(mv.chunk) \/ MoveError)
  <2>1. {e \in At(Trash, mv.chunk) : e.deleted} \subseteq At(Trash, mv.chunk)
    OBVIOUS
  <2> QED BY <1>1, <2>1 DEF UidExpunge
<1>3. mail'[Trash] = mail[Trash] \ es /\ \A b \in Boxes \ {Trash} : mail'[b] = mail[b]
  BY <1>1, <1>2
<1>4. UNCHANGED <<trashed, restored>> /\ Discarded' = Discarded
  BY DEF UidExpunge, Discarded
<1>5. mv.chunk \subseteq mv.todo /\ mv.todo \subseteq found[mv.dst]
  BY <1>1 DEF ReturnsOK
<1>6. \A e \in es : e \in mail[Trash] /\ e.msg \in restored
  <2> SUFFICES ASSUME NEW e \in es PROVE e \in mail[Trash] /\ e.msg \in restored
    OBVIOUS
  <2>1. e \in mail[Trash] /\ e.uid \in mv.chunk
    BY DEF At
  <2>2. e \in At(Trash, found[mv.dst]) /\ e.uid \notin Left
    BY <1>1, <1>5, <2>1 DEF At, Left
  <2> QED BY <1>1, <2>1, <2>2 DEF ReturnsOK
<1>7. ThinsTrash
  <2>1. IsFiniteSet(mail'[Trash])
    <3>1. mail'[Trash] \in SUBSET mail[Trash]
      BY <1>3
    <3> QED BY <1>1, <3>1, FS_Subset DEF ReturnsOK
  <2>2. \A e, d \in mail'[Trash] : e.msg = d.msg => e = d
    BY <1>3 DEF ReturnsOK
  <2> QED BY <1>1, <1>3, <1>4, <1>6, <2>1, <2>2 DEF ThinsTrash, SameEntries
<1>8. ASSUME NEW c \in Msgs(es)
      PROVE  /\ c \in Copies /\ c \in Discarded /\ c \in restored
             /\ Trash \in HeldBy(c) /\ HeldBy(c) # {Trash}
             /\ HeldBy(c)' = HeldBy(c) \ {Trash}
  <2>1. PICK e \in es : e.msg = c
    BY DEF Msgs
  <2>2. e \in mail[Trash] /\ c \in restored /\ \A d \in mail[Trash] : d.msg = c => d = e
    BY <1>6, <2>1 DEF ReturnsOK
  <2>3. c \in Discarded /\ Home[c] \in HeldBy(c)
    BY <2>2 DEF ReturnsOK
  <2>4. Trash \in HeldBy(c)
    BY <1>1, <2>1, <2>2, HeldByIs
  <2>5. ~\E d \in mail'[Trash] : d.msg = c
    BY <1>3, <2>1, <2>2
  <2>6. HeldBy(c)' = HeldBy(c) \ {Trash}
    BY <1>3, <2>5 DEF HeldBy
  <2> QED BY <1>1, <2>2, <2>3, <2>4, <2>6
<1>9. ASSUME NEW c \in Copies \ Msgs(es) PROVE HeldBy(c)' = HeldBy(c)
  <2>1. \A e \in es : e.msg # c
    BY DEF Msgs
  <2>2. \A b \in Boxes : (\E e \in mail'[b] : e.msg = c) <=> (\E e \in mail[b] : e.msg = c)
    BY <1>3, <2>1
  <2> QED BY <2>2 DEF HeldBy
<1>10. PromiseStep
  <2>1. Msgs(es) \in SUBSET Copies
    BY <1>8
  <2>2. [c \in Copies |-> HeldBy(c)]' =
          [c \in Copies |-> IF c \in Msgs(es) THEN HeldBy(c) \ {Trash} ELSE HeldBy(c)]
    BY <1>8, <1>9
  <2>3. Promise!Remove(Msgs(es), Trash)
    BY <1>4, <1>8, <2>2 DEF Promise!Remove
  <2> QED BY <1>1, <2>1, <2>3, RemoveIsStep
<1>11. /\ mv'.dst = mv.dst /\ mv'.todo \subseteq mv.todo
       /\ mv'.pc \notin {"store", "expunge"} /\ (mv'.pc # "err" => Left' = Left)
  <2>1. CASE MoveError
    BY <1>1, <2>1 DEF MoveError, Calls
  <2>2. CASE ChunkDone(mv.chunk)
    <3>1. /\ mv'.todo = mv.todo \ mv.chunk /\ mv'.dst = mv.dst
          /\ mv'.pc = IF mv.todo \ mv.chunk = {} THEN "ok" ELSE "chunk"
      BY <1>1, <2>2 DEF ChunkDone, Calls
    <3>2. Left' = mv.todo \ mv.chunk /\ Left = mv.todo \ mv.chunk
      BY <1>1, <3>1 DEF Left
    <3> QED BY <3>1, <3>2
  <2> QED BY <1>2, <2>1, <2>2
<1> QED BY <1>1, <1>7, <1>10, <1>11, ThinsKeeps

\* One command of undo, whatever becomes of it.
LEMMA ReturnMoves ==
  ASSUME IInv, IInv', OwnerInv, ReturnsOK, upc = "moving", MoveStep
  PROVE  ReturnsOK' /\ PromiseStep /\ upc' = "moving"
<1>1. /\ MoveUIDs /\ mv \in Calls /\ Trash \in Boxes /\ UNCHANGED <<upc, found, blocked>>
  BY ReturnCall
<1>2. CASE RefuseMove
  <2>1. UNCHANGED <<mail, trashed, restored>> /\ MoveError /\ mv.pc = "chunk"
    BY <1>2 DEF RefuseMove, serverVars
  <2>2. /\ mv'.dst = mv.dst /\ mv'.todo = mv.todo /\ mv'.pc = "err"
    BY <1>1, <2>1 DEF MoveError, Calls
  <2>3. ThinsTrash
    BY <1>1, <2>1 DEF ThinsTrash, SameEntries, ReturnsOK
  <2> QED BY <1>1, <2>1, <2>2, <2>3, ThinsKeeps, PromiseUnchanged
<1> QED BY <1>1, <1>2, ReturnPuts, ReturnMarks, ReturnExpunges DEF MoveUIDs

\* The steps of undo between two moves.
LEMMA ReturnTurns ==
  ASSUME ReturnsOK, UNCHANGED <<mail, trashed, restored, blocked>>,
         \A f \in Folders : /\ At(Trash, found[f])' \subseteq At(Trash, found[f])
                            /\ \A id : Owed(f, id)' = Owed(f, id),
         \A f \in Folders : \A e \in At(Trash, found[f])' :
           ~(upc' = "moving" /\ mv'.dst = f) => e.msg \notin restored,
         upc' = "moving" =>
           /\ mv'.dst \in Folders /\ mv'.todo \subseteq found'[mv'.dst]
           /\ mv'.pc \in {"store", "expunge"} => mv'.chunk \subseteq mv'.todo
           /\ mv'.pc # "err" =>
                \A e \in At(Trash, found[mv.dst])' : e.msg \in restored <=> e.uid \notin Left'
  PROVE  ReturnsOK'
<1>1. Discarded' = Discarded /\ \A c : HeldBy(c)' = HeldBy(c)
  BY DEF Discarded, HeldBy
<1>2. ASSUME NEW f \in Folders, NEW id \in MessageIDs PROVE Balanced(f, id)'
  <2>1. Missing(f, id)' = Missing(f, id) /\ WithId(f, id)' = WithId(f, id)
    BY <1>1 DEF Missing, WithId
  <2>2. CountBefore(f, id)' = CountBefore(f, id) /\ Balanced(f, id)
    BY DEF CountBefore, ReturnsOK
  <2>3. Owed(f, id)' = Owed(f, id)
    OBVIOUS
  <2> QED BY <2>1, <2>2, <2>3 DEF Balanced
<1>3. ASSUME NEW f \in Folders, NEW e \in At(Trash, found[f])'
      PROVE  e.msg \in Discarded' /\ Home[e.msg] = f /\ IdOf[e.msg] \in MessageIDs
  BY <1>1 DEF ReturnsOK
<1>4. /\ \A b \in Boxes : IsFiniteSet(mail'[b])
      /\ \A c \in Discarded' : Home[c] \in Folders
      /\ \A f \in Folders : \A e \in mail'[f] : Home[e.msg] = f
      /\ \A e, d \in mail'[Trash] : e.msg = d.msg => e = d
      /\ \A c \in restored' : c \in Discarded' /\ Home[c] \in HeldBy(c)'
  BY <1>1 DEF ReturnsOK
<1> QED BY <1>2, <1>3, <1>4 DEF ReturnsOK

\* Nothing of what undo moves is touched.
LEMMA ReturnRests ==
  ASSUME ReturnsOK, UNCHANGED <<mail, trashed, restored, blocked, found, upc, mv>>
  PROVE  ReturnsOK'
<1>1. \A f \in Folders : At(Trash, found[f])' = At(Trash, found[f])
  BY DEF At
<1>2. \A f \in Folders : \A id : Owed(f, id)' = Owed(f, id)
  BY <1>1 DEF Owed
<1>3. Left' = Left
  BY DEF Left
<1>4. upc = "moving" => mv.dst \in Folders /\ mv'.dst = mv.dst
  BY DEF ReturnsOK
<1>5. upc = "moving" => At(Trash, found[mv.dst])' = At(Trash, found[mv.dst])
  BY DEF At
<1> QED BY <1>1, <1>2, <1>3, <1>4, <1>5, ReturnTurns DEF ReturnsOK

LEMMA RestoreCalls ==
  ASSUME IInv, ReturnsOK, upc = "restore", NEW f \in Folders, RestoreFolder(f)
  PROVE  ReturnsOK'
<1>1. /\ UNCHANGED <<mail, trashed, restored, blocked, found>> /\ upc' = "moving"
      /\ MoveCall(Trash, f, found[f])
  BY DEF RestoreFolder, serverVars
<1>2. mv'.pc = "chunk" /\ mv'.dst = f /\ mv'.todo = found[f]
  BY <1>1 DEF MoveCall
<1>3. \A g \in Folders : At(Trash, found[g])' = At(Trash, found[g])
  BY <1>1 DEF At
<1>4. \A g \in Folders : \A id : Owed(g, id)' = Owed(g, id)
  BY <1>1, <1>3 DEF Owed
<1>5. Left' = found[f]
  BY <1>2 DEF Left
<1>6. \A e \in At(Trash, found[f]) : e.msg \notin restored /\ e.uid \in found[f]
  BY DEF ReturnsOK, At
<1>7. At(Trash, found[mv.dst])' = At(Trash, found[f])
  BY <1>1, <1>2 DEF At
<1>8. \A g \in Folders : \A e \in At(Trash, found[g]) : e.msg \notin restored
  BY DEF ReturnsOK
<1> QED BY <1>1, <1>2, <1>3, <1>4, <1>5, <1>6, <1>7, <1>8, ReturnTurns

LEMMA RestoredTurns ==
  ASSUME IInv, ReturnsOK, Restored
  PROVE  ReturnsOK'
<1>1. /\ UNCHANGED <<mail, trashed, restored, blocked>> /\ upc = "moving" /\ upc' = "restore"
      /\ mv.pc = "ok" /\ found' = [found EXCEPT ![mv.dst] = {}]
  BY DEF Restored, serverVars
<1>2. mv.dst \in Folders /\ found \in [Folders -> SUBSET Uids]
  BY <1>1, Start DEF ReturnsOK, UndoTypeOK
<1>3. \A e \in At(Trash, found[mv.dst]) : e.msg \in restored
  BY <1>1 DEF ReturnsOK, Left
<1>4. ASSUME NEW f \in Folders, f # mv.dst
      PROVE  /\ At(Trash, found[f])' = At(Trash, found[f])
             /\ \A e \in At(Trash, found[f]) : e.msg \notin restored
  <2>1. found'[f] = found[f]
    BY <1>1, <1>2, <1>4
  <2> QED BY <1>1, <1>4, <2>1 DEF At, ReturnsOK
<1>5. ASSUME NEW f \in Folders, f = mv.dst PROVE At(Trash, found[f])' = {}
  <2>1. found'[f] = {}
    BY <1>1, <1>2, <1>5
  <2> QED BY <2>1 DEF At
<1>6. ASSUME NEW f \in Folders, NEW id PROVE Owed(f, id)' = Owed(f, id)
  <2>1. CASE f # mv.dst
    BY <1>1, <1>4, <2>1 DEF Owed
  <2>2. CASE f = mv.dst
    <3>1. Owed(f, id) = {}
      BY <1>3, <2>2 DEF Owed
    <3>2. Owed(f, id)' = {}
      BY <1>5, <2>2 DEF Owed
    <3> QED BY <3>1, <3>2
  <2> QED BY <2>1, <2>2
<1>7. \A f \in Folders : /\ At(Trash, found[f])' \subseteq At(Trash, found[f])
                         /\ \A e \in At(Trash, found[f])' : e.msg \notin restored
  BY <1>4, <1>5
<1> QED BY <1>1, <1>6, <1>7, ReturnTurns

\* An undo that ends has nothing left to move back.
LEMMA EndBalances ==
  ASSUME IInv, ReturnsOK, UndoEnds, NEW f \in Folders \ blocked, NEW id \in MessageIDs
  PROVE  Cardinality(WithId(f, id)') = CountBefore(f, id)
<1>1. mail' = mail /\ found = NothingFound
  BY DEF UndoEnds, UndoReads, serverVars
<1>2. Owed(f, id) = {}
  BY <1>1 DEF Owed, At, NothingFound
<1>3. Cardinality(Owed(f, id)) = 0 /\ Cardinality(WithId(f, id)) \in Nat
  BY <1>2, OwedFinite, FS_EmptySet
<1>4. Cardinality(WithId(f, id)) + Cardinality(Owed(f, id)) = CountBefore(f, id)
  BY DEF ReturnsOK, Balanced
<1>5. WithId(f, id)' = WithId(f, id)
  BY <1>1 DEF WithId
<1> QED BY <1>3, <1>4, <1>5

\* Every step of an undo.
LEMMA UndoReturns ==
  ASSUME UndoOnce, OneSource, IInv, DiscardInv, LedgerInv, CheckInv, GoneInv, LossInv, ReturnInv,
         UndoNext
  PROVE  ReturnInv' /\ PromiseStep
<1>1. UNCHANGED <<mail, trashed, restored>> /\ Discarded' = Discarded
  BY UndoNextFrame DEF UndoFrame, serverVars, Discarded
<1>2. PromiseStep
  BY <1>1, PromiseUnchanged
<1>3. restored' \subseteq Discarded'
  BY <1>1 DEF ReturnInv
<1>4. \A f, id : WithId(f, id)' = WithId(f, id)
  BY <1>1 DEF WithId
<1>5. CASE upc' \notin {"restore", "moving", "ended"}
  BY <1>2, <1>3, <1>5 DEF ReturnInv
<1>6. CASE Locate /\ upc' = "restore"
  <2>1. upc = "check" /\ undos \in 0 .. MaxUndos /\ MaxUndos \in Nat
    BY <1>6, Start, UndoAssumption DEF Locate, UndoTypeOK
  <2>2. undos = 1
    BY <2>1 DEF DiscardInv, UndoOnce
  <2>3. HomesOK
    BY <2>1, <2>2 DEF DiscardInv, Untouched
  <2>4. NothingLost /\ ConfirmedMeansGone
    BY DEF LossInv, GoneInv, ConfirmedMeansGone, UidsIn, Vanished
  <2>5. ReturnsOK'
    BY <1>6, <2>3, <2>4, LocateReturns DEF LedgerInv
  <2> QED BY <1>2, <1>3, <1>6, <2>5 DEF ReturnInv
<1>7. CASE Restored
  <2>1. upc = "moving" /\ upc' = "restore"
    BY <1>7 DEF Restored
  <2>2. ReturnsOK'
    BY <1>7, <2>1, RestoredTurns DEF ReturnInv
  <2> QED BY <1>2, <1>3, <2>1, <2>2 DEF ReturnInv
<1>8. CASE UndoEnds
  <2>1. upc = "restore" /\ upc' = "ended" /\ blocked' = blocked
    BY <1>8 DEF UndoEnds
  <2>2. \A f \in Folders \ blocked, id \in MessageIDs :
          Cardinality(WithId(f, id)') = CountBefore(f, id)
    BY <1>8, <2>1, EndBalances DEF ReturnInv
  <2>3. \A f, id : CountBefore(f, id)' = CountBefore(f, id)
    BY DEF CountBefore
  <2> QED BY <1>2, <1>3, <2>1, <2>2, <2>3 DEF ReturnInv
<1>9. CASE \E f \in Folders : RestoreFolder(f)
  <2>1. upc = "restore" /\ upc' = "moving"
    BY <1>9 DEF RestoreFolder
  <2>2. ReturnsOK'
    BY <1>9, <2>1, RestoreCalls DEF ReturnInv
  <2> QED BY <1>2, <1>3, <2>1, <2>2 DEF ReturnInv
<1>10. CASE RestoreFailed \/ (Locate /\ upc' # "restore") \/ \E f \in Folders : CheckSource(f)
  BY <1>5, <1>10 DEF RestoreFailed, Locate, CheckSource
<1> QED BY <1>6, <1>7, <1>8, <1>9, <1>10 DEF UndoNext, UndoStep

LEMMA ReturnStep ==
  ASSUME UndoOnce, OneSource, IInv, IInv', DiscardInv, LedgerInv, CheckInv, GoneInv, LossInv,
         ReturnInv, [Next]_vars
  PROVE  ReturnInv' /\ PromiseStep
<1>1. DiscardInv' /\ (Untouched' => PromiseStep)
  BY DiscardStep DEF UndoOnce
<1>2. CASE undos' = 0
  <2>1. Untouched' /\ upc' = "none"
    BY <1>1, <1>2 DEF Untouched, DiscardInv
  <2>2. restored' = {}
    BY <1>1, <2>1 DEF DiscardInv, HomesOK
  <2> QED BY <1>1, <2>1, <2>2 DEF ReturnInv
<1>3. CASE UndoNext
  BY <1>3, UndoReturns
<1>4. CASE MoveStep /\ undos' # 0
  <2>1. undos' = undos /\ CallOut
    BY <1>4, Start, MoveUIDsKeeps DEF MoveStep, undoVars, InCall, CallOut
  <2>2. upc = "moving"
    BY <1>4, <2>1 DEF DiscardInv, OwnerInv, RunEnded
  <2>3. ReturnsOK /\ OwnerInv
    BY <2>2 DEF ReturnInv, DiscardInv
  <2>4. ReturnsOK' /\ PromiseStep /\ upc' = "moving"
    BY <1>4, <2>2, <2>3, ReturnMoves
  <2>5. restored' \subseteq Discarded'
    BY <2>4 DEF ReturnsOK
  <2> QED BY <2>4, <2>5 DEF ReturnInv
<1>5. CASE UNCHANGED <<mail, trashed, restored>> /\ upc' \in {"check", "failed", "crashed"}
  <2>1. Discarded' = Discarded
    BY <1>5 DEF Discarded
  <2> QED BY <1>5, <2>1, PromiseUnchanged DEF ReturnInv
<1>6. CASE UNCHANGED <<mail, trashed, restored, blocked, upc>> /\ upc \notin {"restore", "moving"}
  <2>1. Discarded' = Discarded /\ \A f, id : WithId(f, id)' = WithId(f, id)
    BY <1>6 DEF Discarded, WithId
  <2>2. \A f, id : CountBefore(f, id)' = CountBefore(f, id)
    BY DEF CountBefore
  <2> QED BY <1>6, <2>1, <2>2, PromiseUnchanged DEF ReturnInv
<1>7. CASE UNCHANGED <<mail, trashed, restored, blocked, found, upc, mv>>
  <2>1. CASE upc \in {"restore", "moving"}
    <3>1. ReturnsOK'
      BY <1>7, <2>1, ReturnRests DEF ReturnInv
    <3>2. restored' \subseteq Discarded'
      BY <3>1 DEF ReturnsOK
    <3> QED BY <1>7, <2>1, <3>1, <3>2, PromiseUnchanged DEF ReturnInv
  <2> QED BY <1>6, <1>7, <2>1
<1>8. CASE Undo
  <2>1. UNCHANGED <<mail, trashed, restored>> /\ upc' \in {"check", "failed"}
    BY <1>8, UndoStartFrame DEF UndoFrame, serverVars
  <2> QED BY <1>5, <2>1
<1>9. CASE Crash
  <2>1. /\ UNCHANGED <<mail, trashed, restored, blocked>>
        /\ upc' = IF UndoRunning THEN "crashed" ELSE upc
    BY <1>9 DEF Crash, serverVars
  <2> QED BY <1>5, <1>6, <2>1 DEF UndoRunning
<1>10. CASE OtherClient \/ Cancel \/ UNCHANGED vars
  <2>1. UNCHANGED <<mail, trashed, restored, mv, undoVars>>
    BY <1>10, ClientStars DEF UndoOnce, Cancel, vars, mailVars, serverVars
  <2> QED BY <1>7, <2>1 DEF undoVars
<1>11. CASE ApplyNext
  <2>1. undos' = 0
    BY <1>11, ApplyRuns, ApplyFrame DEF undoVars, DiscardInv
  <2> QED BY <1>2, <2>1
<1> QED BY <1>2, <1>3, <1>4, <1>8, <1>9, <1>10, <1>11, StepIsOne

\* All of it together.
KeptInv == IInv /\ DiscardInv /\ LedgerInv /\ CheckInv /\ GoneInv /\ LossInv /\ ReturnInv

LEMMA KeptInitially == Init => KeptInv /\ Promise!Init
<1> SUFFICES ASSUME Init PROVE KeptInv /\ Promise!Init
  OBVIOUS
<1>1. /\ pc = "review" /\ Len(audit.lines) = 0 /\ upc = "none" /\ restored = {}
      /\ mv.pc = "idle"
  BY DEF Init, ApplyInit, AuditInit, UndoInit, MailInit, Idle
<1>2. \A f : Confirmed(f) = {}
  BY <1>1, ConfirmedIs DEF Lines
<1>3. GoneInv
  BY <1>1, <1>2, OwnerInitially DEF GoneInv
<1>4. NothingLost
  <2> SUFFICES ASSUME NEW c \in Copies PROVE \E b \in Boxes : \E e \in mail[b] : e.msg = c
    BY DEF NothingLost
  <2>1. Promise!Init
    BY DiscardInitially
  <2>2. [d \in Copies |-> HeldBy(d)] = [d \in Copies |-> {Home[d]}]
    BY <2>1 DEF Promise!Init
  <2>3. HeldBy(c) = {Home[c]}
    BY <2>2
  <2> QED BY <2>3 DEF HeldBy
<1>5. LossInv
  BY <1>1, <1>4, OwnerInitially DEF LossInv
<1>6. CheckInv /\ ReturnInv
  BY <1>1 DEF CheckInv, ReturnInv
<1> QED BY <1>3, <1>5, <1>6, InitHolds, DiscardInitially, LedgerInitially DEF KeptInv

LEMMA KeptStep ==
  ASSUME UndoOnce, OneSource, KeptInv, [Next]_vars
  PROVE  KeptInv' /\ PromiseStep
<1>1. IInv /\ DiscardInv /\ LedgerInv /\ CheckInv /\ GoneInv /\ LossInv /\ ReturnInv
  BY DEF KeptInv
<1>2. IInv'
  BY <1>1, StepHolds
<1>3. DiscardInv' /\ LedgerInv' /\ CheckInv' /\ GoneInv' /\ LossInv'
  BY <1>1, DiscardStep, LedgerStep, CheckStep, GoneStep, LossStep DEF UndoOnce
<1>4. ReturnInv' /\ PromiseStep
  BY <1>1, <1>2, ReturnStep
<1> QED BY <1>2, <1>3, <1>4 DEF KeptInv

LEMMA KeptAlways ==
  ASSUME UndoOnce, OneSource
  PROVE  Spec => []KeptInv
<1>1. Init => KeptInv
  BY KeptInitially
<1>2. KeptInv /\ [Next]_vars => KeptInv'
  BY KeptStep
<1> QED BY <1>1, <1>2, PTL DEF Spec

\* Undo pulls only the run's own copies out of Trash (internal/undo Run: the
\* newest UIDs of a Message-ID, as many as were recorded and moved). It is
\* called at most once here, every folder it asks for can be selected, nobody
\* else moves mail, and a Message-ID of a folder is in no other folder.
THEOREM OnlyOwnCopiesHolds ==
  ASSUME UndoOnce, OneSource
  PROVE  Spec => []OnlyOwnCopies
<1>1. KeptInv => OnlyOwnCopies
  BY DEF KeptInv, ReturnInv, OnlyOwnCopies, Discarded
<1> QED BY <1>1, KeptAlways, PTL

\* Under the same assumptions, an undo that ends without an error brings every
\* folder it may restore into back to as many copies of each Message-ID as it
\* had before the run, wherever the run stopped.
THEOREM RoundTripHolds ==
  ASSUME UndoOnce, OneSource
  PROVE  Spec => []RoundTrip
<1>1. KeptInv => RoundTrip
  BY DEF KeptInv, ReturnInv, RoundTrip
<1> QED BY <1>1, KeptAlways, PTL

\* Under the same assumptions, the commands of apply and of undo do what
\* SoftDelete promises: every state of the session maps to one of SoftDelete,
\* and every step to a Discard, a Return, a Remove or to none.
THEOREM SoftDeleteImplemented ==
  ASSUME UndoOnce, OneSource
  PROVE  Spec => ImplementsSoftDelete
<1>1. Init => Promise!Init
  BY KeptInitially
<1>2. KeptInv /\ [Next]_vars => [Promise!Next]_Promise!places
  BY KeptStep DEF PromiseStep
<1> QED BY <1>1, <1>2, KeptAlways, PTL DEF Spec, ImplementsSoftDelete, Promise!Spec
=============================================================================
