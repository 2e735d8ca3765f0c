--------------------------- MODULE AuditLogProofs ---------------------------
\* What holds of the mailboxes whatever MoveUIDs and another client do to them,
\* and what the writes and syncs of the audit log do to it.
EXTENDS AuditLog, TLAPS

\* The chunk of a call, and the copies undo takes, are among what they are
\* taken from.
LEMMA BoundsAreSubsets ==
  ASSUME NEW U, NEW n
  PROVE  Lowest(U, n) \subseteq U /\ Highest(U, n) \subseteq U
BY DEF Lowest, Highest

\* A message that is moved or copied gets a UID its new mailbox never used.
LEMMA EnteringIsFresh ==
  ASSUME MailInv, NEW src \in Boxes, NEW dst \in Boxes,
         NEW es, es \subseteq mail[src]
  PROVE  /\ Entering(dst, es) \subseteq Entry
         /\ \A e \in Entering(dst, es) :
              e.uid > uidnext[dst] /\ e.uid < uidnext[dst] + uidnext[src]
         /\ \A e, d \in Entering(dst, es) : e.uid = d.uid => e = d
<1>1. /\ mail[src] \subseteq Entry /\ uidnext[dst] \in Nat /\ uidnext[src] \in Nat
      /\ \A e, d \in es : e.uid < uidnext[src] /\ (e.uid = d.uid => e = d)
  BY DEF MailInv, MailTypeOK, UidsOK
<1>2. ASSUME NEW x \in Entering(dst, es)
      PROVE  \E e \in es : /\ x = [uid |-> uidnext[dst] + e.uid, msg |-> e.msg, deleted |-> FALSE]
                           /\ e.uid \in Nat /\ e.uid > 0 /\ e.msg \in Copies
  BY <1>1 DEF Entering, Entry, Uids
<1>3. ASSUME NEW x \in Entering(dst, es)
      PROVE  x \in Entry
  <2>1. PICK e \in es : /\ x = [uid |-> uidnext[dst] + e.uid, msg |-> e.msg, deleted |-> FALSE]
                        /\ e.uid \in Nat /\ e.uid > 0 /\ e.msg \in Copies
    BY <1>2
  <2>2. uidnext[dst] + e.uid \in Uids
    BY <1>1, <2>1 DEF Uids
  <2> QED BY <2>1, <2>2 DEF Entry
<1>4. \A x \in Entering(dst, es) :
        x.uid > uidnext[dst] /\ x.uid < uidnext[dst] + uidnext[src]
  BY <1>1, <1>2
<1>5. ASSUME NEW x \in Entering(dst, es), NEW y \in Entering(dst, es), x.uid = y.uid
      PROVE  x = y
  <2>1. PICK e \in es : /\ x = [uid |-> uidnext[dst] + e.uid, msg |-> e.msg, deleted |-> FALSE]
                        /\ e.uid \in Nat
    BY <1>2
  <2>2. PICK d \in es : /\ y = [uid |-> uidnext[dst] + d.uid, msg |-> d.msg, deleted |-> FALSE]
                        /\ d.uid \in Nat
    BY <1>2
  <2>3. e.uid = d.uid
    BY <2>1, <2>2, <1>1, <1>5
  <2> QED BY <2>1, <2>2, <2>3, <1>1
<1> QED BY <1>3, <1>4, <1>5

\* A step that only takes messages out of mailboxes and lets fresh ones in.
LEMMA FreshKeeps ==
  ASSUME MailInv,
         mail' \in [Boxes -> SUBSET Entry], uidnext' \in [Boxes -> Nat],
         NEW dst \in Boxes, NEW fresh,
         \A b \in Boxes : uidnext[b] <= uidnext'[b],
         \A b \in Boxes : b # dst => mail'[b] \subseteq mail[b],
         mail'[dst] \subseteq mail[dst] \cup fresh,
         \A e \in fresh : e.uid > uidnext[dst] /\ e.uid < uidnext'[dst],
         \A e, d \in fresh : e.uid = d.uid => e = d,
         fresh \subseteq Entry
  PROVE  BoxesOK' /\ \A b \in Boxes : KeepsUids(b)
<1>1. /\ \A b \in Boxes : uidnext[b] \in Nat /\ uidnext'[b] \in Nat
      /\ \A b \in Boxes : mail[b] \subseteq Entry /\ mail'[b] \subseteq Entry
      /\ \A b \in Boxes : \A e, d \in mail[b] :
           e.uid < uidnext[b] /\ (e.uid = d.uid => e = d)
  BY DEF MailInv, MailTypeOK, UidsOK
<1>2. ASSUME NEW b \in Boxes, NEW e \in mail'[b]
      PROVE  /\ e.uid \in Nat /\ e.uid < uidnext'[b]
             /\ e \in mail[b] \/ (b = dst /\ e \in fresh)
  BY <1>1 DEF Entry, Uids
<1>3. ASSUME NEW b \in Boxes, NEW e \in mail'[b], NEW d \in mail'[b], e.uid = d.uid
      PROVE  e = d
  <2>1. CASE e \in mail[b] /\ d \in mail[b]
    BY <2>1, <1>1, <1>3
  <2>2. CASE b = dst /\ e \in fresh /\ d \in fresh
    BY <2>2, <1>3
  <2>3. CASE b = dst /\ e \in fresh /\ d \in mail[b]
    BY <2>3, <1>1, <1>2, <1>3
  <2>4. CASE b = dst /\ e \in mail[b] /\ d \in fresh
    BY <2>4, <1>1, <1>2, <1>3
  <2> QED BY <2>1, <2>2, <2>3, <2>4, <1>2
<1>4. ASSUME NEW b \in Boxes, NEW e \in mail'[b], e.uid < uidnext[b]
      PROVE  e \in mail[b]
  BY <1>1, <1>2, <1>4
<1>5. \A b \in Boxes : KeepsUids(b)
  BY <1>4 DEF KeepsUids
<1> QED BY <1>2, <1>3, <1>5 DEF BoxesOK, UidsOK

LEMMA MoveKeeps ==
  ASSUME MailInv, NEW src \in Boxes, NEW dst \in Boxes,
         NEW es, es \subseteq mail[src], MoveEntries(src, dst, es)
  PROVE  BoxesOK' /\ \A b \in Boxes : KeepsUids(b)
<1> DEFINE fresh == Entering(dst, es)
<1>1. mail \in [Boxes -> SUBSET Entry] /\ uidnext \in [Boxes -> Nat]
  BY DEF MailInv, MailTypeOK
<1>2. /\ fresh \subseteq Entry
      /\ \A e \in fresh : e.uid > uidnext[dst] /\ e.uid < uidnext[dst] + uidnext[src]
      /\ \A e, d \in fresh : e.uid = d.uid => e = d
  BY EnteringIsFresh
<1> HIDE DEF fresh
<1>3. mail' = [mail EXCEPT ![src] = @ \ es, ![dst] = @ \cup fresh]
  BY DEF MoveEntries, fresh
<1>4. uidnext' = [uidnext EXCEPT ![dst] = @ + uidnext[src]]
  BY DEF MoveEntries
<1>5. mail' \in [Boxes -> SUBSET Entry]
  BY <1>1, <1>2, <1>3
<1>6. /\ uidnext' \in [Boxes -> Nat] /\ uidnext'[dst] = uidnext[dst] + uidnext[src]
      /\ \A b \in Boxes : uidnext[b] <= uidnext'[b]
  BY <1>1, <1>4
<1>7. /\ mail'[dst] \subseteq mail[dst] \cup fresh
      /\ \A b \in Boxes : b # dst => mail'[b] \subseteq mail[b]
  BY <1>1, <1>3
<1> QED BY <1>2, <1>5, <1>6, <1>7, FreshKeeps

LEMMA CopyKeeps ==
  ASSUME MailInv, NEW src \in Boxes, NEW dst \in Boxes,
         NEW es, es \subseteq mail[src], CopyEntries(src, dst, es)
  PROVE  BoxesOK' /\ \A b \in Boxes : KeepsUids(b)
<1> DEFINE fresh == Entering(dst, es)
<1>1. mail \in [Boxes -> SUBSET Entry] /\ uidnext \in [Boxes -> Nat]
  BY DEF MailInv, MailTypeOK
<1>2. /\ fresh \subseteq Entry
      /\ \A e \in fresh : e.uid > uidnext[dst] /\ e.uid < uidnext[dst] + uidnext[src]
      /\ \A e, d \in fresh : e.uid = d.uid => e = d
  BY EnteringIsFresh
<1> HIDE DEF fresh
<1>3. mail' = [mail EXCEPT ![dst] = @ \cup fresh]
  BY DEF CopyEntries, fresh
<1>4. uidnext' = [uidnext EXCEPT ![dst] = @ + uidnext[src]]
  BY DEF CopyEntries
<1>5. mail' \in [Boxes -> SUBSET Entry]
  BY <1>1, <1>2, <1>3
<1>6. /\ uidnext' \in [Boxes -> Nat] /\ uidnext'[dst] = uidnext[dst] + uidnext[src]
      /\ \A b \in Boxes : uidnext[b] <= uidnext'[b]
  BY <1>1, <1>4
<1>7. /\ mail'[dst] \subseteq mail[dst] \cup fresh
      /\ \A b \in Boxes : b # dst => mail'[b] \subseteq mail[b]
  BY <1>1, <1>3
<1> QED BY <1>2, <1>5, <1>6, <1>7, FreshKeeps

LEMMA ExpungeKeeps ==
  ASSUME MailInv, NEW box \in Boxes, NEW es,
         mail' = [mail EXCEPT ![box] = @ \ es], uidnext' = uidnext
  PROVE  BoxesOK' /\ \A b \in Boxes : KeepsUids(b)
<1> DEFINE fresh == {}
<1>1. mail \in [Boxes -> SUBSET Entry] /\ uidnext \in [Boxes -> Nat]
  BY DEF MailInv, MailTypeOK
<1>2. mail' \in [Boxes -> SUBSET Entry] /\ uidnext' \in [Boxes -> Nat]
  BY <1>1
<1>3. /\ \A b \in Boxes : uidnext[b] <= uidnext'[b]
      /\ \A b \in Boxes : b # box => mail'[b] \subseteq mail[b]
      /\ mail'[box] \subseteq mail[box] \cup fresh
  BY <1>1
<1>4. /\ \A e \in fresh : e.uid > uidnext[box] /\ e.uid < uidnext'[box]
      /\ \A e, d \in fresh : e.uid = d.uid => e = d
      /\ fresh \subseteq Entry
  OBVIOUS
<1> HIDE DEF fresh
<1> QED BY <1>2, <1>3, <1>4, FreshKeeps

\* \Deleted changes neither the UIDs nor the messages.
LEMMA MarkKeeps ==
  ASSUME MailInv, NEW box \in Boxes, NEW es, es \subseteq mail[box],
         MarkDeleted(box, es), uidnext' = uidnext
  PROVE  BoxesOK' /\ \A b \in Boxes : KeepsUids(b)
<1> DEFINE mark(e) == [e EXCEPT !.deleted = TRUE]
<1>1. /\ mail \in [Boxes -> SUBSET Entry] /\ uidnext \in [Boxes -> Nat]
      /\ \A b \in Boxes : mail[b] \subseteq Entry /\ uidnext[b] \in Nat
      /\ \A b \in Boxes : \A e, d \in mail[b] :
           e.uid < uidnext[b] /\ (e.uid = d.uid => e = d)
  BY DEF MailInv, MailTypeOK, UidsOK
<1>2. \A e \in Entry : mark(e) \in Entry /\ mark(e).uid = e.uid /\ mark(e).msg = e.msg
  BY DEF Entry
<1>3. mail' = [mail EXCEPT ![box] = (@ \ es) \cup {mark(e) : e \in es}]
  BY DEF MarkDeleted
<1> HIDE DEF mark
<1>4. mail' \in [Boxes -> SUBSET Entry]
  BY <1>1, <1>2, <1>3
<1>5. ASSUME NEW b \in Boxes, NEW e \in mail'[b]
      PROVE  \E d \in mail[b] : /\ d.uid = e.uid /\ d.msg = e.msg
                               /\ e = IF b = box /\ d \in es THEN mark(d) ELSE d
  BY <1>1, <1>2, <1>3
<1>6. ASSUME NEW b \in Boxes, NEW e \in mail'[b], NEW d \in mail'[b]
      PROVE  e.uid < uidnext'[b] /\ (e.uid = d.uid => e = d)
  BY <1>1, <1>5
<1>7. \A b \in Boxes : KeepsUids(b)
  BY <1>1, <1>5 DEF KeepsUids
<1> QED BY <1>1, <1>4, <1>6, <1>7 DEF BoxesOK, UidsOK

\* A mailbox that is rebuilt gets other UIDs, still unique and below the next.
LEMMA RebuildKeeps ==
  ASSUME MailInv, NEW box \in Boxes,
         mail' = [mail EXCEPT ![box] = {[e EXCEPT !.uid = uidnext[box] - @] : e \in mail[box]}],
         uidnext' = uidnext
  PROVE  BoxesOK' /\ \A b \in Boxes \ {box} : KeepsUids(b)
<1> DEFINE moved(e) == [e EXCEPT !.uid = uidnext[box] - @]
<1>1. /\ mail \in [Boxes -> SUBSET Entry] /\ uidnext \in [Boxes -> Nat]
      /\ \A b \in Boxes : mail[b] \subseteq Entry /\ uidnext[b] \in Nat
      /\ \A b \in Boxes : \A e, d \in mail[b] :
           e.uid < uidnext[b] /\ (e.uid = d.uid => e = d)
  BY DEF MailInv, MailTypeOK, UidsOK
<1>2. ASSUME NEW e \in mail[box]
      PROVE  moved(e) \in Entry /\ moved(e).uid = uidnext[box] - e.uid /\ e.uid \in Nat /\ e.uid > 0
  <2>1. e \in Entry /\ e.uid < uidnext[box] /\ e.uid \in Nat /\ e.uid > 0
    BY <1>1 DEF Entry, Uids
  <2>2. uidnext[box] - e.uid \in Uids
    BY <2>1, <1>1 DEF Uids
  <2> QED BY <2>1, <2>2 DEF Entry
<1>3. mail' = [mail EXCEPT ![box] = {moved(e) : e \in mail[box]}]
  OBVIOUS
<1> HIDE DEF moved
<1>4. mail' \in [Boxes -> SUBSET Entry]
  BY <1>1, <1>2, <1>3
<1>5. \A x \in mail'[box] : \E e \in mail[box] : x = moved(e)
  BY <1>1, <1>3
<1>6. \A b \in Boxes \ {box} : mail'[b] = mail[b]
  BY <1>1, <1>3
<1>7. ASSUME NEW b \in Boxes, NEW x \in mail'[b], NEW y \in mail'[b]
      PROVE  x.uid < uidnext'[b] /\ (x.uid = y.uid => x = y)
  <2>1. CASE b # box
    BY <2>1, <1>1, <1>6
  <2>2. CASE b = box
    <3>1. PICK e \in mail[box], d \in mail[box] : x = moved(e) /\ y = moved(d)
      BY <2>2, <1>5
    <3>2. /\ x.uid = uidnext[box] - e.uid /\ e.uid \in Nat /\ e.uid > 0
          /\ y.uid = uidnext[box] - d.uid /\ d.uid \in Nat /\ d.uid > 0
      BY <3>1, <1>2
    <3>3. x.uid = y.uid => e.uid = d.uid
      BY <3>2, <1>1
    <3> QED BY <3>1, <3>2, <3>3, <2>2, <1>1
  <2> QED BY <2>1, <2>2
<1>8. \A b \in Boxes \ {box} : KeepsUids(b)
  BY <1>1, <1>6 DEF KeepsUids
<1> QED BY <1>1, <1>4, <1>7, <1>8 DEF BoxesOK, UidsOK

-----------------------------------------------------------------------------
\* MoveUIDs.

\* What one IMAP command of a call does: to the mailboxes, to the call, and to
\* the history of what went into Trash.
InCall == mv.pc \in {"chunk", "store", "expunge"}
Gone(src, e) == [folder |-> src, uid |-> e.uid, msg |-> e.msg]

LEMMA AtIsSubset ==
  ASSUME NEW b, NEW U
  PROVE  At(b, U) \subseteq mail[b] /\ \A e \in At(b, U) : e.uid \in U
BY DEF At

LEMMA FaultTyped ==
  ASSUME MailInv, NEW k, Fault(k) \/ UNCHANGED faults
  PROVE  faults' \in 0 .. MaxFaults
BY BoundAssumption DEF MailInv, MailTypeOK, Fault

LEMMA RecordTyped ==
  ASSUME MailInv, NEW src \in Boxes, NEW dst \in Boxes,
         NEW es, es \subseteq mail[src], Record(src, dst, es)
  PROVE  /\ trashed' \subseteq [folder : Boxes, uid : Uids, msg : Copies]
         /\ restored' \subseteq Copies
         /\ dst # Trash => trashed' = trashed
         /\ \A t \in trashed' : t \in trashed \/ \E e \in es : t = Gone(src, e)
<1>1. /\ \A e \in es : e.uid \in Uids /\ e.msg \in Copies
      /\ trashed \subseteq [folder : Boxes, uid : Uids, msg : Copies]
      /\ restored \subseteq Copies
  BY DEF MailInv, MailTypeOK, Entry
<1>2. /\ trashed' = IF dst = Trash THEN trashed \cup {Gone(src, e) : e \in es} ELSE trashed
      /\ restored' = IF src = Trash THEN restored \cup {e.msg : e \in es} ELSE restored
  BY DEF Record, Gone
<1>3. \A e \in es : Gone(src, e) \in [folder : Boxes, uid : Uids, msg : Copies]
  BY <1>1 DEF Gone
<1> HIDE DEF Gone
<1> QED BY <1>1, <1>2, <1>3

LEMMA CallTyped ==
  ASSUME MailInv, NEW c \in SUBSET Uids,
         \/ ChunkDone(c) \/ MoveError
         \/ mv' = [mv EXCEPT !.pc = "store", !.chunk = Chunk]
         \/ mv' = [mv EXCEPT !.pc = "expunge"]
  PROVE  /\ mv' \in [pc : {"idle", "chunk", "store", "expunge", "ok", "err"},
                     src : Boxes, dst : Boxes, todo : SUBSET Uids, chunk : SUBSET Uids]
         /\ mv'.src = mv.src /\ mv'.dst = mv.dst /\ mv'.pc # "idle"
         /\ mv'.todo \subseteq mv.todo /\ mv'.chunk \subseteq mv.chunk \cup mv.todo
<1>1. mv \in [pc : {"idle", "chunk", "store", "expunge", "ok", "err"},
             src : Boxes, dst : Boxes, todo : SUBSET Uids, chunk : SUBSET Uids]
  BY DEF MailInv, MailTypeOK
<1>2. Chunk \subseteq mv.todo
  BY BoundsAreSubsets DEF Chunk
<1>3. CASE ChunkDone(c)
  BY <1>1, <1>3 DEF ChunkDone
<1>4. CASE MoveError
  BY <1>1, <1>4 DEF MoveError
<1>5. CASE mv' = [mv EXCEPT !.pc = "store", !.chunk = Chunk]
  BY <1>1, <1>2, <1>5
<1>6. CASE mv' = [mv EXCEPT !.pc = "expunge"]
  BY <1>1, <1>6
<1> QED BY <1>3, <1>4, <1>5, <1>6

\* Every step of MoveUIDs keeps the mailboxes in order, works through its own
\* UIDs and puts nothing else into Trash.
CallKept ==
  /\ mv'.src = mv.src /\ mv'.dst = mv.dst /\ mv'.pc # "idle"
  /\ mv'.todo \subseteq mv.todo /\ mv'.chunk \subseteq mv.chunk \cup mv.todo
  /\ mv.dst # Trash => trashed' = trashed
  /\ \A t \in trashed' : t \in trashed \/
       \E e \in mail[mv.src] : e.uid \in mv.todo /\ t = Gone(mv.src, e)

LEMMA MoveUIDsKeeps ==
  ASSUME MailInv, MoveUIDs
  PROVE  /\ MailTypeOK' /\ BoxesOK' /\ \A b \in Boxes : KeepsUids(b)
         /\ InCall /\ CallKept
         /\ UNCHANGED <<validity, starred, selected>>
<1>1. /\ mv.src \in Boxes /\ mv.dst \in Boxes
      /\ Chunk \subseteq mv.todo /\ Chunk \in SUBSET Uids /\ mv.chunk \in SUBSET Uids
      /\ trashed \subseteq [folder : Boxes, uid : Uids, msg : Copies] /\ restored \subseteq Copies
  BY BoundsAreSubsets DEF MailInv, MailTypeOK, Chunk
<1>2. /\ cancelled \in BOOLEAN /\ userActs \in 0 .. MaxUserActs /\ starred \subseteq Copies
      /\ validity \in [Boxes -> Nat] /\ selected \in Boxes \cup {"none"}
      /\ mail \in [Boxes -> SUBSET Entry] /\ uidnext \in [Boxes -> Nat] /\ UidsOK
  BY DEF MailInv, MailTypeOK
<1> DEFINE es == At(mv.src, Chunk)
<1>3. /\ es \subseteq mail[mv.src] /\ \A e \in es : e.uid \in mv.todo
      /\ \A some \in SUBSET es : some \subseteq mail[mv.src] /\ \A e \in some : e.uid \in mv.todo
  BY <1>1, AtIsSubset
<1>4. SUFFICES
        /\ BoxesOK' /\ \A b \in Boxes : KeepsUids(b)
        /\ mv' \in [pc : {"idle", "chunk", "store", "expunge", "ok", "err"},
                    src : Boxes, dst : Boxes, todo : SUBSET Uids, chunk : SUBSET Uids]
        /\ trashed' \subseteq [folder : Boxes, uid : Uids, msg : Copies] /\ restored' \subseteq Copies
        /\ faults' \in 0 .. MaxFaults
        /\ InCall /\ CallKept
        /\ UNCHANGED <<validity, starred, selected, cancelled, userActs>>
  BY <1>2 DEF MailTypeOK, BoxesOK
<1>5. CASE RefuseMove
  <2>1. UNCHANGED <<mail, uidnext, validity, starred, selected, cancelled, faults, userActs,
                    trashed, restored>> /\ MoveError /\ InCall
    BY <1>5 DEF RefuseMove, serverVars, InCall
  <2>2. BoxesOK' /\ \A b \in Boxes : KeepsUids(b)
    <3>1. \A b \in Boxes : uidnext[b] \in Nat
      BY <1>2
    <3> QED BY <1>2, <2>1, <3>1 DEF BoxesOK, UidsOK, KeepsUids
  <2>3. faults' \in 0 .. MaxFaults
    BY <2>1 DEF MailInv, MailTypeOK
  <2> QED BY <1>1, <2>1, <2>2, <2>3, CallTyped DEF CallKept
<1>6. CASE UidMove
  <2>1. PICK moved \in SUBSET es :
          /\ MoveEntries(mv.src, mv.dst, moved) /\ Record(mv.src, mv.dst, moved)
          /\ ChunkDone(Chunk) \/ MoveError
          /\ Fault("move") \/ UNCHANGED faults
    BY <1>6 DEF UidMove
  <2>2. InCall /\ UNCHANGED <<validity, starred, selected, cancelled, userActs>>
    BY <1>6 DEF UidMove, InCall
  <2>3. BoxesOK' /\ \A b \in Boxes : KeepsUids(b)
    BY <1>1, <1>3, <2>1, MoveKeeps
  <2>4. moved \subseteq mail[mv.src] /\ \A e \in moved : e.uid \in mv.todo
    BY <1>3
  <2>5. /\ trashed' \subseteq [folder : Boxes, uid : Uids, msg : Copies]
        /\ restored' \subseteq Copies
        /\ mv.dst # Trash => trashed' = trashed
        /\ \A t \in trashed' : t \in trashed \/ \E e \in moved : t = Gone(mv.src, e)
    BY <1>1, <2>1, <2>4, RecordTyped
  <2>6. CallKept
    BY <1>1, <2>1, <2>4, <2>5, CallTyped DEF CallKept
  <2>7. faults' \in 0 .. MaxFaults
    BY <2>1, FaultTyped
  <2> QED BY <1>1, <2>1, <2>2, <2>3, <2>5, <2>6, <2>7, CallTyped
<1>7. CASE UidCopy
  <2>1. PICK copied \in SUBSET es :
          /\ CopyEntries(mv.src, mv.dst, copied) /\ Record(mv.src, mv.dst, copied)
          /\ mv' = [mv EXCEPT !.pc = "store", !.chunk = Chunk] \/ MoveError
          /\ Fault("move") \/ UNCHANGED faults
    BY <1>7 DEF UidCopy
  <2>2. InCall /\ UNCHANGED <<validity, starred, selected, cancelled, userActs>>
    BY <1>7 DEF UidCopy, InCall
  <2>3. BoxesOK' /\ \A b \in Boxes : KeepsUids(b)
    BY <1>1, <1>3, <2>1, CopyKeeps
  <2>4. copied \subseteq mail[mv.src] /\ \A e \in copied : e.uid \in mv.todo
    BY <1>3
  <2>5. /\ trashed' \subseteq [folder : Boxes, uid : Uids, msg : Copies]
        /\ restored' \subseteq Copies
        /\ mv.dst # Trash => trashed' = trashed
        /\ \A t \in trashed' : t \in trashed \/ \E e \in copied : t = Gone(mv.src, e)
    BY <1>1, <2>1, <2>4, RecordTyped
  <2>6. CallKept
    BY <1>1, <2>1, <2>4, <2>5, CallTyped DEF CallKept
  <2>7. faults' \in 0 .. MaxFaults
    BY <2>1, FaultTyped
  <2> QED BY <1>1, <2>1, <2>2, <2>3, <2>5, <2>6, <2>7, CallTyped
<1>8. CASE UidStore
  <2>1. PICK marked \in SUBSET At(mv.src, mv.chunk) :
          /\ MarkDeleted(mv.src, marked)
          /\ mv' = [mv EXCEPT !.pc = "expunge"] \/ MoveError
          /\ Fault("move") \/ UNCHANGED faults
    BY <1>8 DEF UidStore
  <2>2. InCall /\ UNCHANGED <<uidnext, validity, starred, selected, cancelled, userActs,
                              trashed, restored>>
    BY <1>8 DEF UidStore, InCall
  <2>3. BoxesOK' /\ \A b \in Boxes : KeepsUids(b)
    BY <1>1, <2>1, <2>2, AtIsSubset, MarkKeeps
  <2> QED BY <1>1, <2>1, <2>2, <2>3, FaultTyped, CallTyped DEF CallKept
<1>9. CASE UidExpunge
  <2>1. PICK gone :
          /\ mail' = [mail EXCEPT ![mv.src] = @ \ gone]
          /\ ChunkDone(mv.chunk) \/ MoveError
          /\ Fault("move") \/ UNCHANGED faults
    BY <1>9 DEF UidExpunge
  <2>2. InCall /\ UNCHANGED <<uidnext, validity, starred, selected, cancelled, userActs,
                              trashed, restored>>
    BY <1>9 DEF UidExpunge, InCall
  <2>3. BoxesOK' /\ \A b \in Boxes : KeepsUids(b)
    BY <1>1, <2>1, <2>2, ExpungeKeeps
  <2> QED BY <1>1, <2>1, <2>2, <2>3, FaultTyped, CallTyped DEF CallKept
<1> QED BY <1>5, <1>6, <1>7, <1>8, <1>9 DEF MoveUIDs

-----------------------------------------------------------------------------
\* The other client, and a step that leaves the mailboxes alone.

LEMMA SameKeeps ==
  ASSUME MailInv, UNCHANGED <<mail, uidnext>>
  PROVE  BoxesOK' /\ \A b \in Boxes : KeepsUids(b)
<1>1. /\ mail \in [Boxes -> SUBSET Entry] /\ uidnext \in [Boxes -> Nat] /\ UidsOK
      /\ \A b \in Boxes : uidnext[b] \in Nat
  BY DEF MailInv, MailTypeOK
<1> QED BY <1>1 DEF BoxesOK, UidsOK, KeepsUids

\* Whatever another client does, the mailbox the session has selected keeps its
\* UIDs.
LEMMA UserClientKeeps ==
  ASSUME MailInv, UserClient
  PROVE  /\ MailTypeOK' /\ BoxesOK'
         /\ \A b \in Boxes : b = selected => KeepsUids(b)
         /\ UNCHANGED <<selected, mv, cancelled, faults, trashed, restored>>
<1>1. /\ starred \subseteq Copies /\ validity \in [Boxes -> Nat] /\ userActs \in Nat
  BY BoundAssumption DEF MailInv, MailTypeOK
<1>2. ASSUME NEW kind, UserAct(kind)
      PROVE  /\ userActs' \in 0 .. MaxUserActs
             /\ UNCHANGED <<selected, mv, cancelled, faults, trashed, restored>>
  BY <1>1, <1>2, BoundAssumption DEF UserAct
<1>3. SUFFICES
        /\ BoxesOK' /\ \A b \in Boxes : b = selected => KeepsUids(b)
        /\ starred' \subseteq Copies /\ validity' \in [Boxes -> Nat]
  <2>1. /\ userActs' \in 0 .. MaxUserActs
        /\ UNCHANGED <<selected, mv, cancelled, faults, trashed, restored>>
    BY <1>2 DEF UserClient, UserStars, UserUnstars, UserMoves, UserRebuilds
  <2> QED BY <1>3, <2>1 DEF MailInv, MailTypeOK, BoxesOK
<1>4. CASE UserStars \/ UserUnstars
  <2>1. UNCHANGED <<mail, uidnext, validity>> /\ starred' \subseteq Copies
    BY <1>1, <1>4 DEF UserStars, UserUnstars
  <2> QED BY <1>1, <2>1, SameKeeps
<1>5. CASE UserMoves
  <2>1. PICK src \in Boxes, dst \in Boxes :
          \E e \in mail[src] : MoveEntries(src, dst, {e})
    BY <1>5 DEF UserMoves
  <2>2. PICK e \in mail[src] : MoveEntries(src, dst, {e})
    BY <2>1
  <2>3. UNCHANGED <<validity, starred>>
    BY <1>5 DEF UserMoves
  <2>4. {e} \subseteq mail[src]
    OBVIOUS
  <2> QED BY <1>1, <2>2, <2>3, <2>4, MoveKeeps
<1>6. CASE UserRebuilds
  <2>1. PICK b \in Folders \ {selected}, bump \in {0, 1} :
          /\ mail' = [mail EXCEPT ![b] = {[e EXCEPT !.uid = uidnext[b] - @] : e \in mail[b]}]
          /\ validity' = [validity EXCEPT ![b] = @ + bump]
    BY <1>6 DEF UserRebuilds
  <2>2. UNCHANGED <<uidnext, starred>> /\ b \in Boxes /\ b # selected
    BY <1>6 DEF UserRebuilds, Boxes
  <2>3. BoxesOK' /\ \A x \in Boxes \ {b} : KeepsUids(x)
    BY <2>1, <2>2, RebuildKeeps
  <2>4. validity' \in [Boxes -> Nat]
    <3>1. validity[b] + bump \in Nat
      BY <1>1, <2>1, <2>2
    <3> QED BY <1>1, <2>1, <3>1
  <2> QED BY <1>1, <2>2, <2>3, <2>4
<1> QED BY <1>4, <1>5, <1>6 DEF UserClient

LEMMA MailInitially ==
  ASSUME MailInit
  PROVE  MailTypeOK /\ BoxesOK
<1>1. /\ \A c \in Copies : /\ FirstUid[c] \in Uids /\ FirstUid[c] < FirstNext
                            /\ Home[c] \in Boxes
      /\ FirstNext \in Nat /\ Starred0 \subseteq Copies
      /\ \A c, d \in Copies : Home[c] = Home[d] /\ FirstUid[c] = FirstUid[d] => c = d
  BY CopyAssumption DEF Uids
<1> DEFINE first(c) == [uid |-> FirstUid[c], msg |-> c, deleted |-> FALSE]
<1>2. \A c \in Copies : first(c) \in Entry /\ first(c).uid = FirstUid[c]
  BY <1>1 DEF Entry
<1>3. /\ mail = [b \in Boxes |-> {first(c) : c \in {d \in Copies : Home[d] = b}}]
      /\ uidnext = [b \in Boxes |-> FirstNext]
  BY DEF MailInit
<1> HIDE DEF first
<1>4. mail \in [Boxes -> SUBSET Entry] /\ uidnext \in [Boxes -> Nat]
  BY <1>1, <1>2, <1>3
<1>5. UidsOK
  <2> SUFFICES ASSUME NEW b \in Boxes, NEW e \in mail[b], NEW d \in mail[b]
               PROVE  e.uid < uidnext[b] /\ (e.uid = d.uid => e = d)
    BY DEF UidsOK
  <2>1. PICK c1 \in Copies, c2 \in Copies :
          e = first(c1) /\ d = first(c2) /\ Home[c1] = b /\ Home[c2] = b
    BY <1>3
  <2> QED BY <1>1, <1>2, <1>3, <2>1
<1>6. /\ validity \in [Boxes -> Nat] /\ starred \subseteq Copies /\ cancelled \in BOOLEAN
      /\ selected \in Boxes \cup {"none"}
  BY <1>1 DEF MailInit
<1>8. faults \in 0 .. MaxFaults /\ userActs \in 0 .. MaxUserActs
  BY BoundAssumption DEF MailInit
<1>9. trashed \subseteq [folder : Boxes, uid : Uids, msg : Copies] /\ restored \subseteq Copies
  BY DEF MailInit
<1>7. mv \in [pc : {"idle", "chunk", "store", "expunge", "ok", "err"},
              src : Boxes, dst : Boxes, todo : SUBSET Uids, chunk : SUBSET Uids]
  BY DEF MailInit, Idle, Boxes
<1> QED BY <1>4, <1>5, <1>6, <1>7, <1>8, <1>9 DEF MailTypeOK, BoxesOK

-----------------------------------------------------------------------------
\* The audit log.

LEMMA ExtendedTyped ==
  ASSUME AuditTypeOK, NEW l \in Line
  PROVE  /\ Extended(l) \in [lines : Seq(Line), synced : Nat, torn : BOOLEAN]
         /\ Extended(l).lines = Append(audit.lines, l)
         /\ Extended(l).synced = audit.synced /\ Extended(l).torn = audit.torn
         /\ Len(Extended(l).lines) = Len(audit.lines) + 1
         /\ \A i \in 1 .. Len(audit.lines) : Extended(l).lines[i] = audit.lines[i]
         /\ Extended(l).lines[Len(audit.lines) + 1] = l
<1>1. audit \in [lines : Seq(Line), synced : Nat, torn : BOOLEAN]
  BY DEF AuditTypeOK
<1>2. audit.lines \in Seq(Line) /\ Append(audit.lines, l) \in Seq(Line)
  BY <1>1
<1> HIDE DEF Line
<1>3. /\ Extended(l) \in [lines : Seq(Line), synced : Nat, torn : BOOLEAN]
      /\ Extended(l).lines = Append(audit.lines, l)
      /\ Extended(l).synced = audit.synced /\ Extended(l).torn = audit.torn
  BY <1>1, <1>2 DEF Extended
<1> QED BY <1>2, <1>3

\* A log that stays as it is, or is only extended by one line, keeps its lines.
LEMMA PutKeeps ==
  ASSUME AuditTypeOK, NEW l \in Line, Put(l)
  PROVE  /\ AuditTypeOK' /\ KeepsLines
         /\ ~auErr' => /\ ~auErr /\ Len(audit'.lines) = Len(audit.lines) + 1
                       /\ audit'.lines[Len(audit.lines) + 1] = l
<1>1. CASE auErr
  BY <1>1 DEF Put, AuditTypeOK, KeepsLines
<1>2. CASE ~auErr
  <2>1. audit' = Extended(l) /\ auErr' = auErr
    BY <1>2 DEF Put
  <2>2. audit.synced \in Nat /\ Len(audit.lines) \in Nat /\ audit.synced <= Len(audit.lines)
    BY DEF AuditTypeOK
  <2>3. /\ audit' \in [lines : Seq(Line), synced : Nat, torn : BOOLEAN]
        /\ audit'.synced = audit.synced /\ Len(audit'.lines) = Len(audit.lines) + 1
        /\ \A i \in 1 .. Len(audit.lines) : audit'.lines[i] = audit.lines[i]
        /\ audit'.lines[Len(audit.lines) + 1] = l
    BY <2>1, ExtendedTyped
  <2>4. auErr' \in BOOLEAN
    BY <2>1 DEF AuditTypeOK
  <2>5. AuditTypeOK' /\ KeepsLines
    BY <2>2, <2>3, <2>4 DEF AuditTypeOK, KeepsLines
  <2> QED BY <1>2, <2>3, <2>5
<1> QED BY <1>1, <1>2

LEMMA PutFailsKeeps ==
  ASSUME AuditTypeOK, PutFails
  PROVE  AuditTypeOK' /\ KeepsLines /\ auErr'
<1>1. PICK cut \in BOOLEAN : audit' = [audit EXCEPT !.torn = @ \/ cut]
  BY DEF PutFails
<1>2. /\ audit \in [lines : Seq(Line), synced : Nat, torn : BOOLEAN]
      /\ audit.synced <= Len(audit.lines) /\ audit.synced \in Nat
      /\ (audit.torn \/ cut) \in BOOLEAN
  BY DEF AuditTypeOK
<1>3. /\ audit' \in [lines : Seq(Line), synced : Nat, torn : BOOLEAN]
      /\ audit'.lines = audit.lines /\ audit'.synced = audit.synced
  BY <1>1, <1>2
<1>4. auErr' = TRUE
  BY DEF PutFails
<1> QED BY <1>2, <1>3, <1>4 DEF AuditTypeOK, KeepsLines

LEMMA WriteKeeps ==
  ASSUME MailInv, AuditTypeOK, NEW l \in Line, Write(l)
  PROVE  /\ AuditTypeOK' /\ KeepsLines /\ faults' \in 0 .. MaxFaults
         /\ ~auErr' => /\ ~auErr /\ Len(audit'.lines) = Len(audit.lines) + 1
                       /\ audit'.lines[Len(audit.lines) + 1] = l
<1>1. CASE Put(l) /\ UNCHANGED faults
  BY <1>1, PutKeeps, FaultTyped
<1>2. CASE PutFails
  BY <1>2, PutFailsKeeps, FaultTyped DEF PutFails
<1> QED BY <1>1, <1>2 DEF Write

\* After a Sync that succeeds every line is on disk.
LEMMA SyncKeeps ==
  ASSUME MailInv, AuditTypeOK, SyncOk \/ SyncFails
  PROVE  /\ AuditTypeOK' /\ KeepsLines /\ faults' \in 0 .. MaxFaults
         /\ SyncOk => ~auErr /\ audit'.synced = Len(audit.lines)
<1>1. /\ audit \in [lines : Seq(Line), synced : Nat, torn : BOOLEAN]
      /\ audit.synced <= Len(audit.lines) /\ audit.synced \in Nat /\ Len(audit.lines) \in Nat
      /\ auErr \in BOOLEAN
  BY DEF AuditTypeOK
<1>2. CASE SyncOk
  <2>1. /\ audit' \in [lines : Seq(Line), synced : Nat, torn : BOOLEAN]
        /\ audit'.lines = audit.lines /\ audit'.synced = Len(audit.lines)
    BY <1>1, <1>2 DEF SyncOk, Synced
  <2>2. ~auErr /\ UNCHANGED <<auErr, faults>>
    BY <1>2 DEF SyncOk
  <2> QED BY <1>1, <2>1, <2>2, FaultTyped DEF AuditTypeOK, KeepsLines
<1>3. CASE SyncFails
  <2>1. audit' = audit /\ auErr' = TRUE /\ (Fault("audit") \/ UNCHANGED faults)
    BY <1>3 DEF SyncFails
  <2>2. ~SyncOk
    BY <1>3 DEF SyncFails, SyncOk, Fault
  <2> QED BY <1>1, <2>1, <2>2, FaultTyped DEF AuditTypeOK, KeepsLines
<1> QED BY <1>2, <1>3

LEMMA WriteAndSyncKeeps ==
  ASSUME MailInv, AuditTypeOK, NEW l \in Line, WriteSynced(l) \/ WriteUnsynced(l)
  PROVE  AuditTypeOK' /\ KeepsLines /\ faults' \in 0 .. MaxFaults
<1>1. /\ audit.synced <= Len(audit.lines) /\ audit.synced \in Nat /\ Len(audit.lines) \in Nat
      /\ auErr \in BOOLEAN
  BY DEF AuditTypeOK
<1>2. CASE WriteSynced(l)
  <2>1. audit' = Synced(Extended(l)) /\ UNCHANGED <<auErr, faults>>
    BY <1>2 DEF WriteSynced
  <2>2. /\ audit' \in [lines : Seq(Line), synced : Nat, torn : BOOLEAN]
        /\ audit'.lines = Extended(l).lines /\ audit'.synced = Len(Extended(l).lines)
    BY <2>1, ExtendedTyped DEF Synced
  <2>5. Len(Extended(l).lines) = Len(audit.lines) + 1
    BY ExtendedTyped
  <2>6. \A i \in 1 .. Len(audit.lines) : Extended(l).lines[i] = audit.lines[i]
    BY ExtendedTyped
  <2>3. /\ Len(audit'.lines) = Len(audit.lines) + 1
        /\ \A i \in 1 .. Len(audit.lines) : audit'.lines[i] = audit.lines[i]
    BY <2>2, <2>5, <2>6
  <2>4. faults' \in 0 .. MaxFaults
    BY <2>1, FaultTyped
  <2> QED BY <1>1, <2>1, <2>2, <2>3, <2>4 DEF AuditTypeOK, KeepsLines
<1>3. CASE PutFails
  BY <1>3, PutFailsKeeps, FaultTyped DEF PutFails
<1>4. CASE Fault("audit") /\ audit' = Extended(l) /\ auErr' = TRUE
  <2>1. /\ audit' \in [lines : Seq(Line), synced : Nat, torn : BOOLEAN]
        /\ audit'.synced = audit.synced /\ Len(audit'.lines) = Len(audit.lines) + 1
        /\ \A i \in 1 .. Len(audit.lines) : audit'.lines[i] = audit.lines[i]
    BY <1>4, ExtendedTyped
  <2>2. faults' \in 0 .. MaxFaults
    BY <1>4, FaultTyped
  <2> QED BY <1>1, <1>4, <2>1, <2>2 DEF AuditTypeOK, KeepsLines
<1> QED BY <1>2, <1>3, <1>4 DEF WriteUnsynced

\* A crash loses no line that was on disk.
LEMMA LoseTailKeeps ==
  ASSUME AuditTypeOK, LoseTail, auErr' = FALSE
  PROVE  AuditTypeOK' /\ KeepsSynced
<1>1. /\ audit \in [lines : Seq(Line), synced : Nat, torn : BOOLEAN]
      /\ audit.synced <= Len(audit.lines) /\ audit.synced \in Nat /\ Len(audit.lines) \in Nat
  BY DEF AuditTypeOK
<1>2. PICK n \in audit.synced .. Len(audit.lines), cut \in BOOLEAN :
        audit' = [audit EXCEPT !.lines = SubSeq(@, 1, n), !.torn = @ \/ cut]
  BY DEF LoseTail
<1>3. /\ n \in Nat /\ n <= Len(audit.lines) /\ audit.synced <= n
      /\ (audit.torn \/ cut) \in BOOLEAN
  BY <1>1
<1> DEFINE kept == SubSeq(audit.lines, 1, n)
<1>4. kept \in Seq(Line) /\ Len(kept) = n /\ \A i \in 1 .. n : kept[i] = audit.lines[i]
  BY <1>1, <1>3
<1> HIDE DEF kept
<1>5. audit' = [audit EXCEPT !.lines = kept, !.torn = @ \/ cut]
  BY <1>2 DEF kept
<1>6. /\ audit' \in [lines : Seq(Line), synced : Nat, torn : BOOLEAN]
      /\ audit'.lines = kept /\ audit'.synced = audit.synced
  BY <1>1, <1>3, <1>4, <1>5
<1>7. /\ audit'.synced <= Len(audit'.lines) /\ audit.synced <= audit'.synced
      /\ \A i \in 1 .. audit.synced : audit'.lines[i] = audit.lines[i]
  BY <1>1, <1>3, <1>4, <1>6
<1>8. auErr' \in BOOLEAN
  OBVIOUS
<1> QED BY <1>6, <1>7, <1>8 DEF AuditTypeOK, KeepsSynced

LEMMA LinesAreSynced ==
  ASSUME AuditTypeOK, KeepsLines
  PROVE  KeepsSynced
BY DEF AuditTypeOK, KeepsLines, KeepsSynced
=============================================================================
