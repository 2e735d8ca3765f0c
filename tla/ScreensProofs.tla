--------------------------- MODULE ScreensProofs ---------------------------
\* Proofs about Screens: the review, the accounts screen, the form, and the
\* tokens, in every session they can have together.
EXTENDS Screens, FiniteSetTheorems, TLAPS

-----------------------------------------------------------------------------
\* The review.

\* The cursor is put on an item that is shown, or on nothing when none is.
LEMMA RestoredShown ==
  ASSUME NEW old, NEW it \in Restored(old)
  PROVE  IF Items = {} THEN it = NoItem ELSE it \in Items
BY DEF Restored

LEMMA RestoredShownNext ==
  ASSUME NEW old, cursor' \in Restored(old)'
  PROVE  (IF Items = {} THEN cursor = NoItem ELSE cursor \in Items)'
BY DEF Restored

\* What is shown depends on the view and on who is protected.
LEMMA ItemsSame ==
  ASSUME UNCHANGED <<view, protected>>
  PROVE  Items' = Items
BY DEF Items, Listed, BaseItems, DomainRows, SenderRows, RowOf, Of, DomainOf, Matches, Decided,
       StillSending, SectionOf, Protected, Keepish, Header, Shown, Expandable, Children

\* Every item stands for senders of the account.
LEMMA ItemMembers ==
  ASSUME NEW it \in Items PROVE it.members \subseteq Senders
<1>1. \A r \in BaseItems : r.members \subseteq Senders
  BY DEF BaseItems, DomainRows, SenderRows, RowOf, Of
<1>2. \A r \in Shown : r.members \subseteq Senders
  BY <1>1 DEF Shown, Listed
<1>3. \A r \in Shown : \A c \in Children(r) : c.members \subseteq Senders
  BY <1>2 DEF Children, RowOf
<1>4. \A r \in Listed : Header(SectionOf(r)).members \subseteq Senders
  BY DEF Header
<1> QED BY <1>2, <1>3, <1>4 DEF Items

LEMMA CursorMembers ==
  ASSUME ReviewTypeOK PROVE cursor.members \subseteq Senders
<1>1. NoItem.members = {} BY DEF NoItem
<1> QED BY ItemMembers, <1>1 DEF ReviewTypeOK

\* No key of the review but the ones that set marks gives a sender marks that
\* select nothing.
LEMMA KeptSelects ==
  ASSUME NEW marks \in SUBSET Marks
  PROVE  /\ Kept(marks) \subseteq Marks /\ Kept(marks) \subseteq marks
         /\ Kept(marks) # {} => Selects(Kept(marks))
BY DEF Kept, Selects

\* Marks may be set on senders that are not protected, and an escalation that
\* was asked about only.
LEMMA MarksSet ==
  ASSUME ReviewInv, NEW who \in SUBSET Senders, who \cap protected = {},
         NEW marks \in [Senders -> SUBSET Marks], SetSelection(who, marks),
         \A s \in who : marks[s] \cap {"delete_all", "include_kept"} \subseteq acked',
         acked \subseteq acked', UNCHANGED protected
  PROVE  /\ sel' \in [Senders -> SUBSET Marks]
         /\ \A s \in Senders : sel'[s] \subseteq Marks /\ (sel'[s] # {} => Selects(sel'[s]))
         /\ Unmarked' /\ EscalationsAsked'
<1> SUFFICES ASSUME TRUE
             PROVE  /\ \A s \in Senders : /\ sel'[s] \subseteq Marks
                                          /\ sel'[s] # {} => Selects(sel'[s])
                                          /\ s \in protected => sel'[s] = {}
                                          /\ sel'[s] \cap {"delete_all", "include_kept"} \subseteq acked'
                    /\ sel' \in [Senders -> SUBSET Marks]
  BY DEF ReviewInv, Unmarked, EscalationsAsked
<1>1. \A s \in Senders : sel'[s] = IF s \in who THEN Kept(marks[s]) ELSE sel[s]
  BY DEF SetSelection
<1>2. ASSUME NEW s \in who
      PROVE  /\ Kept(marks[s]) \in SUBSET Marks /\ Kept(marks[s]) \subseteq marks[s]
             /\ Kept(marks[s]) # {} => Selects(Kept(marks[s]))
  <2>1. marks[s] \in SUBSET Marks OBVIOUS
  <2> QED BY <2>1, KeptSelects
<1>3. sel' = [s \in Senders |-> IF s \in who THEN Kept(marks[s]) ELSE sel[s]]
  BY DEF SetSelection
<1>4. sel' \in [Senders -> SUBSET Marks]
  <2>1. \A s \in Senders : (IF s \in who THEN Kept(marks[s]) ELSE sel[s]) \in SUBSET Marks
    BY <1>2 DEF ReviewInv
  <2> QED BY <2>1, <1>3
<1>5. ASSUME NEW s \in Senders
      PROVE  /\ sel'[s] \subseteq Marks
             /\ sel'[s] # {} => Selects(sel'[s])
             /\ s \in protected => sel'[s] = {}
             /\ sel'[s] \cap {"delete_all", "include_kept"} \subseteq acked'
  <2>1. CASE s \in who
    <3>1. sel'[s] = Kept(marks[s]) /\ s \notin protected
      BY <1>1, <2>1
    <3>2. \A x \in Kept(marks[s]) : x \in marks[s]
      BY <1>2, <2>1
    <3>3. \A x \in marks[s] : x \in {"delete_all", "include_kept"} => x \in acked'
      BY <2>1
    <3> QED BY <1>2, <2>1, <3>1, <3>2, <3>3
  <2>2. CASE s \notin who
    BY <1>1, <2>2 DEF ReviewInv, ReviewTypeOK, Unmarked, EscalationsAsked
  <2> QED BY <2>1, <2>2
<1> QED BY <1>4, <1>5

\* A key that sets no mark keeps the invariant when the cursor ends on an item.
LEMMA MarksKept ==
  ASSUME ReviewInv, UNCHANGED <<sel, protected, newlyProtected, acked, pending>>,
         left' \in {"no", "quit", "written"},
         (IF Items = {} THEN cursor = NoItem ELSE cursor \in Items)'
  PROVE  ReviewInv'
BY DEF ReviewInv, ReviewTypeOK, Unmarked, AsksUnprotected, EscalationsAsked, Selects

LEMMA CursorKept ==
  ASSUME ReviewInv, UNCHANGED <<view, protected, cursor>>
  PROVE  (IF Items = {} THEN cursor = NoItem ELSE cursor \in Items)'
BY ItemsSame DEF ReviewInv, ReviewTypeOK

LEMMA MoveStep == ASSUME ReviewInv, Move PROVE ReviewInv'
<1>1. Items' = Items BY ItemsSame DEF Move
<1>2. cursor' \in Items' BY <1>1 DEF Move
<1>3. left' \in {"no", "quit", "written"} BY DEF Move, ReviewInv, ReviewTypeOK
<1> QED BY <1>2, <1>3, MarksKept DEF Move

LEMMA RebuiltShown ==
  ASSUME Rebuilt PROVE (IF Items = {} THEN cursor = NoItem ELSE cursor \in Items)'
BY RestoredShownNext DEF Rebuilt

LEMMA ViewStep == ASSUME ReviewInv, NEW v, View(v) PROVE ReviewInv'
<1>1. left' \in {"no", "quit", "written"} BY DEF View, ReviewInv, ReviewTypeOK
<1>2. Rebuilt BY DEF View
<1> QED BY <1>1, <1>2, RebuiltShown, MarksKept DEF View

\* Marks that are set on unprotected senders, with no question left open, keep it.
LEMMA MarksStep ==
  ASSUME ReviewInv, NEW who \in SUBSET Senders, who \cap protected = {},
         NEW marks \in [Senders -> SUBSET Marks], SetSelection(who, marks),
         \A s \in who : marks[s] \cap {"delete_all", "include_kept"} \subseteq acked',
         acked \subseteq acked', acked' \subseteq {"delete_all", "include_kept"},
         UNCHANGED <<protected, newlyProtected, left>>, pending' = NoQuestion, Rebuilt
  PROVE  ReviewInv'
<1>1. UNCHANGED protected OBVIOUS
<1>2. /\ sel' \in [Senders -> SUBSET Marks]
      /\ \A s \in Senders : sel'[s] \subseteq Marks /\ (sel'[s] # {} => Selects(sel'[s]))
      /\ Unmarked' /\ EscalationsAsked'
  BY <1>1, MarksSet
<1>3. (IF Items = {} THEN cursor = NoItem ELSE cursor \in Items)'
  BY RebuiltShown
<1>4. newlyProtected' \subseteq protected' /\ left' \in {"no", "quit", "written"}
  BY DEF ReviewInv, ReviewTypeOK
<1>5. (\A s \in Senders : sel[s] \subseteq Marks /\ (sel[s] # {} => Selects(sel[s])))'
  BY <1>2 DEF Selects
<1>6. ReviewTypeOK' BY <1>3, <1>4, <1>5 DEF ReviewTypeOK
<1>7. AsksUnprotected' BY DEF AsksUnprotected
<1> QED BY <1>2, <1>6, <1>7 DEF ReviewInv

\* A flip adds the field it is about and no other.
LEMMA ToggleStep ==
  ASSUME ReviewInv, NEW field \in Marks, Toggle(field),
         field \in {"delete_all", "include_kept"} => field \in acked
  PROVE  ReviewInv'
<1> DEFINE marks == [s \in Senders |-> Flip(sel[s], field)]
<1>1. marks \in [Senders -> SUBSET Marks]
  BY DEF ReviewInv, Flip, Marks
<1>2. cursor.members \in SUBSET Senders /\ cursor.members \cap protected = {}
  BY CursorMembers DEF Toggle, Protected, ReviewInv
<1>3. ASSUME NEW s \in cursor.members
      PROVE  marks[s] \cap {"delete_all", "include_kept"} \subseteq acked
  <2>1. s \in Senders /\ marks[s] = Flip(sel[s], field) BY <1>2
  <2>2. sel[s] \cap {"delete_all", "include_kept"} \subseteq acked
    BY <2>1 DEF ReviewInv, EscalationsAsked
  <2>3. \A x \in marks[s] : x \in sel[s] \/ x = field BY <2>1 DEF Flip
  <2> QED BY <2>2, <2>3
<1>4. SetSelection(cursor.members, marks) /\ Rebuilt /\ pending' = NoQuestion
  BY DEF Toggle, Free
<1>5. UNCHANGED <<protected, newlyProtected, left, acked>>
  BY DEF Toggle
<1>6. acked \subseteq {"delete_all", "include_kept"} BY DEF ReviewInv, ReviewTypeOK
<1> HIDE DEF marks
<1> QED BY <1>1, <1>2, <1>3, <1>4, <1>5, <1>6, MarksStep

LEMMA AskStep ==
  ASSUME ReviewInv, NEW field \in {"delete_all", "include_kept"}, Ask(field)
  PROVE  ReviewInv'
<1>1. (IF Items = {} THEN cursor = NoItem ELSE cursor \in Items)'
  BY CursorKept DEF Ask
<1>2. ReviewTypeOK' BY <1>1 DEF Ask, ReviewInv, ReviewTypeOK, Selects
<1>3. cursor.members \in SUBSET Senders /\ cursor.members \cap protected = {}
  BY CursorMembers DEF Ask, MayEscalate, Protected, ReviewInv
<1>4. pending'.field = field /\ pending'.keys = cursor.members /\ UNCHANGED protected
  BY DEF Ask
<1>5. AsksUnprotected' BY <1>3, <1>4 DEF AsksUnprotected
<1>6. UNCHANGED <<sel, protected, acked>> BY DEF Ask
<1> QED BY <1>2, <1>5, <1>6 DEF ReviewInv, Unmarked, EscalationsAsked

\* The answer sets marks on the rows that were asked about, which are still
\* unprotected, and only after it is remembered.
LEMMA ConfirmStep ==
  ASSUME ReviewInv, NEW yes \in BOOLEAN, Confirm(yes)
  PROVE  ReviewInv'
<1>1. /\ pending.field \in {"delete_all", "include_kept"}
      /\ pending.keys \in SUBSET Senders /\ pending.keys \cap protected = {}
  BY DEF Confirm, ReviewInv, AsksUnprotected
<1>2. UNCHANGED <<protected, newlyProtected, view, left>> /\ pending' = NoQuestion
  BY DEF Confirm
<1>3. acked' = IF yes THEN acked \cup {pending.field} ELSE acked
  BY DEF Confirm, Remembered
<1>4. acked \subseteq {"delete_all", "include_kept"} BY DEF ReviewInv, ReviewTypeOK
<1>5. CASE ~yes /\ UNCHANGED <<sel, cursor>>
  <2>1. (IF Items = {} THEN cursor = NoItem ELSE cursor \in Items)'
    BY <1>2, <1>5, CursorKept
  <2>2. ReviewTypeOK' BY <1>2, <1>3, <1>5, <2>1 DEF ReviewInv, ReviewTypeOK, Selects
  <2> QED
    BY <1>2, <1>3, <1>5, <2>2 DEF ReviewInv, Unmarked, EscalationsAsked, AsksUnprotected
<1>6. CASE /\ yes
           /\ SetSelection(pending.keys, [s \in Senders |-> Set(sel[s], pending.field, pending.value)])
           /\ Rebuilt
  <2> DEFINE marks == [s \in Senders |-> Set(sel[s], pending.field, pending.value)]
  <2>1. marks \in [Senders -> SUBSET Marks]
    BY <1>1 DEF ReviewInv, Set, Marks
  <2>2. ASSUME NEW s \in pending.keys
        PROVE  marks[s] \cap {"delete_all", "include_kept"} \subseteq acked'
    <3>1. s \in Senders /\ marks[s] = Set(sel[s], pending.field, pending.value) BY <1>1
    <3>2. sel[s] \cap {"delete_all", "include_kept"} \subseteq acked
      BY <3>1 DEF ReviewInv, EscalationsAsked
    <3>3. \A x \in marks[s] : x \in sel[s] \/ x = pending.field BY <3>1 DEF Set
    <3> QED BY <1>3, <1>6, <3>2, <3>3
  <2>3. SetSelection(pending.keys, marks) /\ Rebuilt BY <1>6
  <2>4. acked \subseteq acked' /\ acked' \subseteq {"delete_all", "include_kept"}
    BY <1>1, <1>3, <1>4
  <2> HIDE DEF marks
  <2> QED BY <1>1, <1>2, <2>1, <2>2, <2>3, <2>4, MarksStep
<1> QED BY <1>5, <1>6 DEF Confirm

\* The bulk keys reach no protected row, and no escalation.
LEMMA BulkMembers ==
  ASSUME NEW s \in UNION {it.members : it \in BulkRows}
  PROVE  s \in Senders /\ s \notin protected
<1>1. PICK it \in BulkRows : s \in it.members OBVIOUS
<1>2. it \in BaseItems /\ it.members \cap protected = {}
  BY DEF BulkRows, Shown, Listed, Protected
<1>3. it.members \subseteq Senders
  BY <1>2 DEF BaseItems, DomainRows, SenderRows, RowOf, Of
<1> QED BY <1>1, <1>2, <1>3

LEMMA BulkStep ==
  ASSUME ReviewInv, BulkKey PROVE ReviewInv'
<1> DEFINE who == UNION {it.members : it \in BulkRows}
<1>1. who \in SUBSET Senders /\ who \cap protected = {} BY BulkMembers
<1>2. /\ UNCHANGED <<protected, newlyProtected, left, acked>> /\ Rebuilt
      /\ pending' = NoQuestion
  BY DEF BulkKey, Clear, AllUnsub, AllDelete, Bulk, Free
<1>3. PICK marks \in [Senders -> SUBSET Marks] :
        /\ SetSelection(who, marks)
        /\ \A s \in Senders : marks[s] \subseteq sel[s] \cup {"unsubscribe", "delete_matched"}
  <2>1. CASE Clear
    <3> DEFINE marks == [s \in Senders |-> {}]
    <3>1. marks \in [Senders -> SUBSET Marks] /\ SetSelection(who, marks)
          /\ \A s \in Senders : marks[s] \subseteq sel[s] \cup {"unsubscribe", "delete_matched"}
      BY <2>1 DEF Clear, Bulk
    <3> QED BY <3>1
  <2>2. CASE AllUnsub
    <3> DEFINE marks == [s \in Senders |-> sel[s] \cup {"unsubscribe"}]
    <3>1. marks \in [Senders -> SUBSET Marks] BY DEF ReviewInv, Marks
    <3>2. SetSelection(who, marks) BY <2>2 DEF AllUnsub, Bulk
    <3>3. \A s \in Senders : marks[s] \subseteq sel[s] \cup {"unsubscribe", "delete_matched"}
      OBVIOUS
    <3> QED BY <3>1, <3>2, <3>3
  <2>3. CASE AllDelete
    <3> DEFINE marks == [s \in Senders |-> sel[s] \cup {"delete_matched"}]
    <3>1. marks \in [Senders -> SUBSET Marks] BY DEF ReviewInv, Marks
    <3>2. SetSelection(who, marks) BY <2>3 DEF AllDelete, Bulk
    <3>3. \A s \in Senders : marks[s] \subseteq sel[s] \cup {"unsubscribe", "delete_matched"}
      OBVIOUS
    <3> QED BY <3>1, <3>2, <3>3
  <2> QED BY <2>1, <2>2, <2>3 DEF BulkKey
<1>4. ASSUME NEW s \in who
      PROVE  marks[s] \cap {"delete_all", "include_kept"} \subseteq acked'
  <2>1. s \in Senders BY <1>1
  <2>2. marks[s] \subseteq sel[s] \cup {"unsubscribe", "delete_matched"} BY <1>3, <2>1
  <2>3. sel[s] \cap {"delete_all", "include_kept"} \subseteq acked'
    BY <1>2, <2>1 DEF ReviewInv, EscalationsAsked
  <2> QED BY <2>2, <2>3
<1>5. acked \subseteq {"delete_all", "include_kept"} BY DEF ReviewInv, ReviewTypeOK
<1> HIDE DEF who
<1> QED BY <1>1, <1>2, <1>3, <1>4, <1>5, MarksStep

\* Who becomes protected loses the marks there were.
LEMMA ProtectStep == ASSUME ReviewInv, ProtectCurrent PROVE ReviewInv'
<1>1. cursor.members \in SUBSET Senders BY CursorMembers DEF ReviewInv
<1>2. /\ protected' = protected \cup cursor.members
      /\ newlyProtected' = newlyProtected \cup cursor.members
      /\ sel' = [s \in Senders |-> IF s \in cursor.members THEN {} ELSE sel[s]]
      /\ UNCHANGED <<acked, left>> /\ pending' = NoQuestion
  BY DEF ProtectCurrent, Unselected, Free
<1>3. (IF Items = {} THEN cursor = NoItem ELSE cursor \in Items)'
  BY RebuiltShown DEF ProtectCurrent
<1>4. sel' \in [Senders -> SUBSET Marks] BY <1>2 DEF ReviewInv
<1>5. \A s \in Senders : sel'[s] = {} \/ sel'[s] = sel[s] BY <1>2
<1>6. ReviewTypeOK' BY <1>2, <1>3, <1>5 DEF ReviewInv, ReviewTypeOK, Selects
<1>7. Unmarked' BY <1>1, <1>2 DEF ReviewInv, Unmarked
<1>8. EscalationsAsked' BY <1>2, <1>5 DEF ReviewInv, EscalationsAsked
<1>9. AsksUnprotected' BY <1>2 DEF AsksUnprotected
<1> QED BY <1>4, <1>6, <1>7, <1>8, <1>9 DEF ReviewInv

\* Leaving, and the question before it.
LEMMA StayStep ==
  ASSUME ReviewInv, left' \in {"no", "quit", "written"},
         UNCHANGED <<sel, protected, newlyProtected, view, cursor, acked, pending>>
  PROVE  ReviewInv'
BY CursorKept, MarksKept

LEMMA ReviewStep == ASSUME ReviewInv, ReviewKey PROVE ReviewInv'
<1>1. CASE Move BY <1>1, MoveStep
<1>2. CASE Toggle("unsubscribe") \/ Toggle("delete_matched")
  BY <1>2, ToggleStep DEF Marks
<1>3. CASE \E field \in {"delete_all", "include_kept"} : Ask(field) \/ ToggleAcked(field)
  <2>1. PICK field \in {"delete_all", "include_kept"} : Ask(field) \/ ToggleAcked(field)
    BY <1>3
  <2>2. CASE Ask(field) BY <2>2, AskStep
  <2>3. CASE ToggleAcked(field)
    <3>1. Toggle(field) /\ field \in acked BY <2>3 DEF ToggleAcked
    <3> QED BY <3>1, ToggleStep DEF Marks
  <2> QED BY <2>1, <2>2, <2>3
<1>4. CASE \E yes \in BOOLEAN : Confirm(yes) BY <1>4, ConfirmStep
<1>5. CASE BulkKey \/ ProtectCurrent BY <1>5, BulkStep, ProtectStep
<1>6. CASE ToggleGroup \/ ShowDecided \/ Enter \/ Filter
  BY <1>6, ViewStep DEF ToggleGroup, ShowDecided, Enter, Filter
<1>7. CASE QuitReview \/ AnswerQuit \/ WriteKey \/ ReviewAgain
  <2>1. left' \in {"no", "quit", "written"}
    BY <1>7 DEF QuitReview, AnswerQuit, WriteKey, ReviewAgain, Leave, ReviewInv, ReviewTypeOK
  <2>2. UNCHANGED <<sel, protected, newlyProtected, view, cursor, acked, pending>>
    BY <1>7 DEF QuitReview, AnswerQuit, WriteKey, ReviewAgain, Leave
  <2> QED BY <2>1, <2>2, StayStep
<1> QED BY <1>1, <1>2, <1>3, <1>4, <1>5, <1>6, <1>7 DEF ReviewKey

\* A review starts with nothing marked and nothing asked.
LEMMA FirstReview == ASSUME ReviewInit PROVE ReviewInv
<1>1. IF Items = {} THEN cursor = NoItem ELSE cursor \in Items
  BY RestoredShown DEF ReviewInit
<1>2. ReviewTypeOK BY <1>1 DEF ReviewInit, ReviewTypeOK
<1> QED BY <1>2 DEF ReviewInit, ReviewInv, Unmarked, AsksUnprotected, EscalationsAsked

LEMMA NewReviewStep == ASSUME NewReview PROVE ReviewInv'
<1>1. (IF Items = {} THEN cursor = NoItem ELSE cursor \in Items)'
  BY RestoredShownNext DEF NewReview
<1>2. ReviewTypeOK' BY <1>1 DEF NewReview, ReviewTypeOK
<1> QED BY <1>2 DEF NewReview, ReviewInv, Unmarked, AsksUnprotected, EscalationsAsked

\* What is decided is unprotected.
LEMMA DecidedUnprotected == ASSUME ReviewInv PROVE NoProtectedDecision
BY DEF ReviewInv, Unmarked, NoProtectedDecision, Result, Selects

\* A row with a sender of receipts is in the keep section unless it is protected.
LEMMA KeepRow ==
  ASSUME NEW it \in BulkRows, NEW s \in it.members, Group[s].keepCategories
  PROVE  SectionOf(it) = "keep"
<1>1. it \in BaseItems /\ ~Protected(it) BY DEF BulkRows, Shown, Listed
<1>2. it.members \subseteq Senders
  BY <1>1 DEF BaseItems, DomainRows, SenderRows, RowOf, Of
<1>3. it.members \in KeepishRows BY <1>2 DEF KeepishRows, KeepCategories
<1> QED BY <1>1, <1>3 DEF SectionOf, Keepish

LEMMA SelectAllSparesStep ==
  ASSUME ReviewInv, AllUnsub \/ AllDelete, NEW s \in Senders, sel'[s] # sel[s]
  PROVE  s \notin protected /\ (Group[s].keepCategories => SectionShown(cursor) = "keep")
<1>1. s \in UNION {it.members : it \in BulkRows}
  BY DEF AllUnsub, AllDelete, Bulk, SetSelection
<1>2. PICK it \in BulkRows : s \in it.members BY <1>1
<1>3. SectionOf(it) = SectionShown(cursor) BY DEF BulkRows
<1> QED BY <1>1, <1>2, <1>3, BulkMembers, KeepRow

-----------------------------------------------------------------------------
\* The tokens. Each step of a refresh or of a sign-in keeps TokenInv.

LEMMA StartRefreshRecords ==
  ASSUME TokenInv, NEW w \in Workers, NEW n \in Names, StartRefresh(w, n)
  PROVE  TokenRecords'
<1>1. token[n] \in 1 .. issued BY DEF TokenInv, TokenRecords, StartRefresh
<1>2. refreshes' = [refreshes EXCEPT ![w] = [of |-> n, at |-> "sent", had |-> token[n], got |-> Blank]]
      /\ UNCHANGED <<token, accepted, issued, spoiled, login>>
  BY DEF StartRefresh, Goes
<1> QED BY <1>1, <1>2 DEF TokenInv, TokenRecords, Blank, NoLogin, Idle

LEMMA StartRefreshStep ==
  ASSUME TokenInv, NEW w \in Workers, NEW n \in Names, StartRefresh(w, n)
  PROVE  TokenInv'
<1>1. token[n] \in 1 .. issued /\ token[n] # NoFile
  BY DEF TokenInv, TokenRecords, StartRefresh
<1>2. /\ refreshes' = [refreshes EXCEPT ![w] = [of |-> n, at |-> "sent", had |-> token[n], got |-> Blank]]
      /\ UNCHANGED <<token, accepted, issued, spoiled, login>> /\ refreshes[w] = Idle
  BY DEF StartRefresh, Goes
<1>3. /\ refreshes'[w].of = n /\ refreshes'[w].at = "sent"
      /\ refreshes'[w].had = token[n] /\ refreshes'[w].got = Blank
      /\ \A v \in Workers \ {w} : refreshes'[v] = refreshes[v]
  BY <1>2 DEF TokenInv, TokenRecords
<1>4. FreshInv'
  BY <1>2, <1>3 DEF TokenInv, FreshInv, Unwritten
<1>5. OwnInv'
  <2>1. \A v \in Workers : refreshes[v].of # n => token[n] # refreshes[v].had
    BY DEF TokenInv, OwnInv
  <2> QED BY <1>1, <1>2, <1>3, <2>1 DEF TokenInv, OwnInv
<1>6. KeptInv'
  BY <1>1, <1>2, <1>3 DEF TokenInv, KeptInv
<1>7. RotatedInv'
  <2>1. refreshes[w].got = Blank BY <1>2 DEF Idle
  <2> QED BY <1>2, <1>3, <2>1 DEF TokenInv, RotatedInv
<1> QED BY <1>4, <1>5, <1>6, <1>7, StartRefreshRecords DEF TokenInv

\* The request of an account that does not rotate is answered with no new token.
LEMMA ServedSameStep ==
  ASSUME TokenInv, NEW w \in Workers, refreshes[w].at = "sent",
         refreshes[w].of \notin Rotating, Goes(w, [refreshes[w] EXCEPT !.at = "served"]),
         UNCHANGED <<token, accepted, issued, spoiled, login>>
  PROVE  TokenInv'
<1>1. refreshes' = [refreshes EXCEPT ![w] = [refreshes[w] EXCEPT !.at = "served"]]
  BY DEF Goes
<1>2. refreshes[w] # Idle BY DEF Idle
<1>3. /\ refreshes'[w].of = refreshes[w].of /\ refreshes'[w].had = refreshes[w].had
      /\ refreshes'[w].got = refreshes[w].got /\ refreshes'[w] # Idle
      /\ \A v \in Workers \ {w} : refreshes'[v] = refreshes[v]
  BY <1>1, <1>2 DEF TokenInv, TokenRecords, Idle
<1>4. TokenRecords'
  <2>1. refreshes'[w] \in [of : Names \cup {"none"}, at : {"idle", "sent", "served"},
                           had : 0 .. issued, got : 0 .. issued]
    BY <1>1 DEF TokenInv, TokenRecords
  <2>2. refreshes' \in [Workers -> [of : Names \cup {"none"}, at : {"idle", "sent", "served"},
                                    had : 0 .. issued, got : 0 .. issued]]
    BY <1>1, <2>1 DEF TokenInv, TokenRecords
  <2> QED BY <1>2, <1>3, <2>2 DEF TokenInv, TokenRecords
<1>5. FreshInv' BY <1>3 DEF TokenInv, FreshInv, Unwritten
<1>6. OwnInv' BY <1>3 DEF TokenInv, OwnInv
<1>7. KeptInv' BY <1>2, <1>3 DEF TokenInv, KeptInv
<1>8. RotatedInv' BY <1>2, <1>3 DEF TokenInv, RotatedInv
<1> QED BY <1>4, <1>5, <1>6, <1>7, <1>8 DEF TokenInv

\* What is issued is nobody's yet.
LEMMA IssuedFresh ==
  ASSUME TokenInv
  PROVE  /\ issued + 1 \in Nat \ {0} /\ issued + 1 \notin accepted
         /\ \A n \in Names : token[n] # issued + 1
         /\ \A w \in Workers : refreshes[w].had # issued + 1 /\ refreshes[w].got # issued + 1
         /\ login.got # issued + 1
<1>1. issued \in Nat /\ accepted \subseteq 1 .. issued BY DEF TokenInv, TokenRecords
<1>2. \A n \in Names : token[n] \in {NoFile} \cup 1 .. issued BY DEF TokenInv, TokenRecords
<1>3. \A w \in Workers : refreshes[w].had \in 0 .. issued /\ refreshes[w].got \in 0 .. issued
  BY DEF TokenInv, TokenRecords
<1>4. login.got \in 0 .. issued BY DEF TokenInv, TokenRecords
<1> QED BY <1>1, <1>2, <1>3, <1>4 DEF NoFile

LEMMA IssuedRange ==
  ASSUME TokenInv, issued' = issued + 1
  PROVE  /\ 1 .. issued \subseteq 1 .. issued' /\ 0 .. issued \subseteq 0 .. issued'
         /\ issued' \in Nat /\ issued' \in 1 .. issued' /\ issued' \in 0 .. issued'
BY DEF TokenInv, TokenRecords

\* With rotation the answer replaces the token the request carried.
LEMMA ServedNewStep ==
  ASSUME TokenInv, NEW w \in Workers, refreshes[w].at = "sent",
         refreshes[w].of \in Rotating, Issue({refreshes[w].had}),
         Goes(w, [refreshes[w] EXCEPT !.at = "served", !.got = issued + 1]),
         UNCHANGED <<token, spoiled, login>>
  PROVE  TokenInv'
<1>1. /\ refreshes' = [refreshes EXCEPT ![w] = [refreshes[w] EXCEPT !.at = "served", !.got = issued + 1]]
      /\ issued' = issued + 1
      /\ accepted' = (accepted \ {refreshes[w].had}) \cup {issued + 1}
  BY DEF Goes, Issue
<1>2. refreshes[w] # Idle BY DEF Idle
<1>3. /\ refreshes'[w].of = refreshes[w].of /\ refreshes'[w].had = refreshes[w].had
      /\ refreshes'[w].got = issued + 1 /\ refreshes'[w].at = "served"
      /\ refreshes'[w] # Idle
      /\ \A v \in Workers \ {w} : refreshes'[v] = refreshes[v]
  BY <1>1, <1>2 DEF TokenInv, TokenRecords, Idle
<1>4. /\ refreshes[w].of \in Names /\ refreshes[w].got = Blank
  BY <1>2 DEF TokenInv, TokenRecords, RotatedInv
<1>5. TokenRecords'
  <2>1. refreshes'[w] \in [of : Names \cup {"none"}, at : {"idle", "sent", "served"},
                           had : 0 .. issued', got : 0 .. issued']
    <3> DEFINE old == refreshes[w]
               new == [old EXCEPT !.at = "served", !.got = issued + 1]
    <3>1. old \in [of : Names \cup {"none"}, at : {"idle", "sent", "served"},
                    had : 0 .. issued, got : 0 .. issued]
      BY DEF TokenInv, TokenRecords
    <3>2. refreshes'[w] = new
      BY <1>1 DEF TokenInv, TokenRecords
    <3>3. 0 .. issued \subseteq 0 .. issued' /\ issued + 1 \in 0 .. issued'
      BY <1>1, IssuedRange
    <3> HIDE DEF old
    <3> QED BY <3>1, <3>2, <3>3
  <2>2. refreshes' \in [Workers -> [of : Names \cup {"none"}, at : {"idle", "sent", "served"},
                                    had : 0 .. issued', got : 0 .. issued']]
    BY <1>1, <2>1, IssuedRange DEF TokenInv, TokenRecords
  <2>3. \A v \in Workers : refreshes'[v] = Idle \/ (refreshes'[v].of \in Names /\ refreshes'[v].had # Blank)
    BY <1>2, <1>3 DEF TokenInv, TokenRecords
  <2>4. token' \in [Names -> {NoFile} \cup 1 .. issued']
    BY IssuedRange, <1>1 DEF TokenInv, TokenRecords
  <2>5. login.got \in 0 .. issued' /\ accepted' \subseteq 1 .. issued' /\ issued' \in Nat
    BY IssuedRange, <1>1 DEF TokenInv, TokenRecords
  <2>6. login' \in [of : Names \cup {"none"}, at : {"none", "listening", "issued"}, once : BOOLEAN,
                    handled : {"none", "code", "error"}, chan : {"none", "code", "error"},
                    got : 0 .. issued']
    BY <2>5 DEF TokenInv, TokenRecords
  <2> QED BY <2>2, <2>3, <2>4, <2>5, <2>6 DEF TokenInv, TokenRecords
<1>6. FreshInv'
  <2>1. \A v \in Workers : refreshes[v].got # Blank => refreshes[v].got # refreshes[w].had
    BY DEF TokenInv, FreshInv, Unwritten
  <2>2. login.got # Blank => login.got # refreshes[w].had
    BY DEF TokenInv, FreshInv, Unwritten
  <2> QED BY <1>1, <1>3, <2>1, <2>2, IssuedFresh DEF TokenInv, FreshInv, Unwritten
<1>7. OwnInv' BY <1>3 DEF TokenInv, OwnInv
<1>8. KeptInv'
  <2>1. \A n \in Names \ Rotating : token[n] # refreshes[w].had
    BY DEF TokenInv, OwnInv
  <2>2. \A v \in Workers : refreshes[v].of \notin Rotating => refreshes[v].had # refreshes[w].had
    BY DEF TokenInv, OwnInv
  <2> QED BY <1>1, <1>3, <2>1, <2>2 DEF TokenInv, KeptInv
<1>9. RotatedInv'
  <2>1. \A v \in Workers :
          refreshes'[v].of \in Rotating => (refreshes'[v].got # Blank <=> refreshes'[v].at = "served")
    BY <1>3, IssuedFresh DEF TokenInv, RotatedInv, Blank
  <2>2. ASSUME NEW n \in Rotating \ spoiled, token[n] # NoFile, token[n] \notin accepted'
        PROVE  \E v \in Workers : refreshes'[v].of = n /\ refreshes'[v].got # Blank
                                  /\ refreshes'[v].had = token[n]
    <3>1. CASE token[n] = refreshes[w].had
      <4>1. n = refreshes[w].of BY <3>1, TokenAssumption DEF TokenInv, OwnInv
      <4> QED BY <1>3, <3>1, <4>1, IssuedFresh DEF Blank
    <3>2. CASE token[n] # refreshes[w].had
      <4>1. token[n] \notin accepted BY <1>1, <3>2, <2>2
      <4>2. PICK v \in Workers : refreshes[v].of = n /\ refreshes[v].got # Blank
                                 /\ refreshes[v].had = token[n]
        BY <4>1, <2>2 DEF TokenInv, RotatedInv
      <4> QED BY <1>3, <1>4, <4>2
    <3> QED BY <3>1, <3>2
  <2> QED BY <2>1, <2>2 DEF RotatedInv
<1> QED BY <1>5, <1>6, <1>7, <1>8, <1>9 DEF TokenInv

LEMMA ServedStep ==
  ASSUME TokenInv, NEW w \in Workers, Served(w) PROVE TokenInv'
BY ServedSameStep, ServedNewStep DEF Served

\* A worker that is done holds nothing.
LEMMA IdleRecords ==
  ASSUME TokenInv, NEW w \in Workers, Goes(w, Idle),
         token' \in [Names -> {NoFile} \cup 1 .. issued], spoiled' \subseteq Names,
         UNCHANGED <<accepted, issued, login>>
  PROVE  /\ TokenRecords'
         /\ refreshes'[w] = Idle /\ \A v \in Workers \ {w} : refreshes'[v] = refreshes[v]
<1>1. refreshes' = [refreshes EXCEPT ![w] = Idle] BY DEF Goes
<1>2. issued \in Nat BY DEF TokenInv, TokenRecords
<1>3. Idle \in [of : Names \cup {"none"}, at : {"idle", "sent", "served"},
                had : 0 .. issued, got : 0 .. issued]
  BY <1>2 DEF Idle, Blank
<1>4. refreshes'[w] = Idle /\ \A v \in Workers \ {w} : refreshes'[v] = refreshes[v]
  BY <1>1 DEF TokenInv, TokenRecords
<1>5. refreshes' \in [Workers -> [of : Names \cup {"none"}, at : {"idle", "sent", "served"},
                                  had : 0 .. issued, got : 0 .. issued]]
  BY <1>1, <1>3 DEF TokenInv, TokenRecords
<1>6. \A v \in Workers : refreshes'[v] = Idle \/ (refreshes'[v].of \in Names /\ refreshes'[v].had # Blank)
  BY <1>4 DEF TokenInv, TokenRecords
<1>7. TokenRecords' BY <1>5, <1>6 DEF TokenInv, TokenRecords
<1> QED BY <1>4, <1>7

\* A refresh that comes to nothing: the account is spoiled when its token on
\* disk is the one that was replaced.
LEMMA RefreshFailsStep ==
  ASSUME TokenInv, NEW w \in Workers, RefreshFails(w) PROVE TokenInv'
<1>1. /\ UNCHANGED <<token, accepted, issued, login>> /\ Goes(w, Idle)
      /\ refreshes[w].at \in {"sent", "served"}
      /\ spoiled' = IF refreshes[w].got # Blank /\ token[refreshes[w].of] = refreshes[w].had
                    THEN spoiled \cup {refreshes[w].of} ELSE spoiled
  BY DEF RefreshFails
<1>2. refreshes[w] # Idle BY <1>1 DEF Idle
<1>3. refreshes[w].of \in Names BY <1>2 DEF TokenInv, TokenRecords
<1>4. spoiled' \subseteq Names /\ spoiled \subseteq spoiled'
  BY <1>1, <1>3 DEF TokenInv, TokenRecords
<1>5. token' \in [Names -> {NoFile} \cup 1 .. issued] BY <1>1 DEF TokenInv, TokenRecords
<1>6. TokenRecords' /\ refreshes'[w] = Idle /\ \A v \in Workers \ {w} : refreshes'[v] = refreshes[v]
  BY <1>1, <1>4, <1>5, IdleRecords
<1>7. /\ Idle.of = "none" /\ Idle.had = 0 /\ Idle.got = 0 /\ Idle.at = "idle" /\ Blank = 0
  BY DEF Idle, Blank
<1>8. /\ \A n \in Names : token[n] # 0
      /\ \A v \in Workers : refreshes[v].of \in Names => refreshes[v].had # 0
      /\ accepted \subseteq 1 .. issued /\ issued \in Nat
  BY <1>7, TokenAssumption DEF TokenInv, TokenRecords, NoFile
<1>9. FreshInv' BY <1>1, <1>6, <1>7 DEF TokenInv, FreshInv, Unwritten
<1>10. OwnInv'
  <2>1. \A v \in Workers : refreshes[v] = Idle \/ refreshes[v].of \in Names
    BY DEF TokenInv, TokenRecords
  <2> QED BY <1>1, <1>6, <1>7, <1>8, <2>1 DEF TokenInv, OwnInv
<1>11. KeptInv' BY <1>1, <1>6 DEF TokenInv, KeptInv
<1>12. RotatedInv'
  <2>1. "none" \notin Rotating BY TokenAssumption
  <2>2. \A v \in Workers :
          refreshes'[v].of \in Rotating => (refreshes'[v].got # Blank <=> refreshes'[v].at = "served")
    BY <1>6, <1>7, <2>1 DEF TokenInv, RotatedInv
  <2>3. ASSUME NEW n \in Rotating \ spoiled', token[n] # NoFile, token[n] \notin accepted
        PROVE  \E v \in Workers : refreshes'[v].of = n /\ refreshes'[v].got # Blank
                                  /\ refreshes'[v].had = token[n]
    <3>1. PICK v \in Workers : refreshes[v].of = n /\ refreshes[v].got # Blank
                               /\ refreshes[v].had = token[n]
      BY <1>4, <2>3 DEF TokenInv, RotatedInv
    <3>2. v # w BY <1>1, <2>3, <3>1
    <3> QED BY <1>6, <3>1, <3>2
  <2> QED BY <1>1, <2>2, <2>3 DEF RotatedInv
<1> QED BY <1>6, <1>9, <1>10, <1>11, <1>12 DEF TokenInv

\* What a refresh stores: the new token, which is good and nobody else's, or
\* where none came back the old one, which stayed good.
LEMMA CarriedGood ==
  ASSUME TokenInv, NEW w \in Workers, refreshes[w].at = "served"
  PROVE  /\ Carried(refreshes[w]) \in accepted
         /\ \A n \in Names \ {refreshes[w].of} : token[n] # Carried(refreshes[w])
         /\ \A v \in Workers \ {w} : /\ refreshes[v].of # refreshes[w].of =>
                                           refreshes[v].had # Carried(refreshes[w])
                                     /\ refreshes[v].got # Blank =>
                                           refreshes[v].got # Carried(refreshes[w])
         /\ login.got # Blank => login.got # Carried(refreshes[w])
<1>1. refreshes[w] # Idle BY DEF Idle
<1>2. CASE refreshes[w].got # Blank
  BY <1>2 DEF Carried, TokenInv, FreshInv, Unwritten
<1>3. CASE refreshes[w].got = Blank
  <2>1. refreshes[w].of \notin Rotating BY <1>3 DEF TokenInv, RotatedInv
  <2>2. refreshes[w].had \in accepted BY <1>1, <2>1 DEF TokenInv, KeptInv
  <2>3. Carried(refreshes[w]) = refreshes[w].had BY <1>3 DEF Carried
  <2> QED BY <2>2, <2>3 DEF TokenInv, OwnInv, FreshInv, Unwritten
<1> QED BY <1>2, <1>3

LEMMA RefreshedStep ==
  ASSUME TokenInv, NEW w \in Workers, Refreshed(w) PROVE TokenInv'
<1> DEFINE new == Carried(refreshes[w])
           name == refreshes[w].of
<1>1. /\ UNCHANGED <<accepted, issued, spoiled, login>> /\ Goes(w, Idle)
      /\ refreshes[w].at = "served" /\ token' = [token EXCEPT ![name] = new]
  BY DEF Refreshed
<1>2. /\ new \in accepted /\ \A n \in Names \ {name} : token[n] # new
      /\ \A v \in Workers \ {w} : /\ refreshes[v].of # name => refreshes[v].had # new
                                  /\ refreshes[v].got # Blank => refreshes[v].got # new
      /\ login.got # Blank => login.got # new
  BY <1>1, CarriedGood
<1>3. refreshes[w] # Idle BY <1>1 DEF Idle
<1>4. name \in Names BY <1>3 DEF TokenInv, TokenRecords
<1> HIDE DEF new, name
<1>5. token'[name] = new /\ \A n \in Names \ {name} : token'[n] = token[n]
  BY <1>1, <1>4 DEF TokenInv, TokenRecords
<1>6. new \in 1 .. issued BY <1>2 DEF TokenInv, TokenRecords
<1>7. token' \in [Names -> {NoFile} \cup 1 .. issued] BY <1>1, <1>6 DEF TokenInv, TokenRecords
<1>8. spoiled' \subseteq Names BY <1>1 DEF TokenInv, TokenRecords
<1>9. TokenRecords' /\ refreshes'[w] = Idle /\ \A v \in Workers \ {w} : refreshes'[v] = refreshes[v]
  BY <1>1, <1>7, <1>8, IdleRecords
<1>10. /\ Idle.of = "none" /\ Idle.had = 0 /\ Idle.got = 0 /\ Idle.at = "idle" /\ Blank = 0
  BY DEF Idle, Blank
<1>11. /\ \A n \in Names : token'[n] # 0
       /\ \A v \in Workers : refreshes[v].of \in Names => refreshes[v].had # 0
       /\ accepted \subseteq 1 .. issued /\ issued \in Nat /\ new # NoFile
  BY <1>6, <1>7, <1>10, TokenAssumption DEF TokenInv, TokenRecords, NoFile
<1>12. FreshInv'
  BY <1>1, <1>2, <1>5, <1>9, <1>10 DEF TokenInv, FreshInv, Unwritten
<1>13. OwnInv'
  <2>1. \A m, n \in Names : m # n /\ token'[m] # NoFile => token'[n] # token'[m]
    BY <1>2, <1>5, <1>11 DEF TokenInv, OwnInv
  <2>2. \A v \in Workers : refreshes[v] = Idle \/ refreshes[v].of \in Names
    BY DEF TokenInv, TokenRecords
  <2>3. ASSUME NEW v \in Workers, NEW n \in Names \ {refreshes'[v].of}
        PROVE  token'[n] # refreshes'[v].had
    <3>1. CASE v = w BY <3>1, <1>9, <1>10, <1>11
    <3>2. CASE v # w /\ n = name BY <3>2, <1>2, <1>5, <1>9
    <3>3. CASE v # w /\ n # name BY <3>3, <1>5, <1>9 DEF TokenInv, OwnInv
    <3> QED BY <3>1, <3>2, <3>3
  <2>4. \A u, v \in Workers :
          refreshes'[u].of # refreshes'[v].of => refreshes'[u].had # refreshes'[v].had
    BY <1>9, <1>10, <1>11, <2>2 DEF TokenInv, OwnInv
  <2> QED BY <2>1, <2>3, <2>4 DEF OwnInv
<1>14. KeptInv' BY <1>1, <1>2, <1>5, <1>9 DEF TokenInv, KeptInv
<1>15. RotatedInv'
  <2>1. "none" \notin Rotating BY TokenAssumption
  <2>2. \A v \in Workers :
          refreshes'[v].of \in Rotating => (refreshes'[v].got # Blank <=> refreshes'[v].at = "served")
    BY <1>9, <1>10, <2>1 DEF TokenInv, RotatedInv
  <2>3. ASSUME NEW n \in Rotating \ spoiled, token'[n] # NoFile, token'[n] \notin accepted
        PROVE  \E v \in Workers : refreshes'[v].of = n /\ refreshes'[v].got # Blank
                                  /\ refreshes'[v].had = token'[n]
    <3>1. n # name /\ n \in Names BY <1>2, <1>5, <2>3, TokenAssumption
    <3>2. token'[n] = token[n] BY <1>5, <3>1
    <3>3. PICK v \in Workers : refreshes[v].of = n /\ refreshes[v].got # Blank
                               /\ refreshes[v].had = token[n]
      BY <2>3, <3>2 DEF TokenInv, RotatedInv
    <3>4. v # w BY <3>1, <3>3 DEF name
    <3> QED BY <1>9, <3>2, <3>3, <3>4
  <2> QED BY <1>1, <2>2, <2>3 DEF RotatedInv
<1> QED BY <1>9, <1>12, <1>13, <1>14, <1>15 DEF TokenInv

\* The sign-in, up to the code's exchange, leaves the tokens alone.
LoginRecords ==
  [of : Names \cup {"none"}, at : {"none", "listening", "issued"}, once : BOOLEAN,
   handled : {"none", "code", "error"}, chan : {"none", "code", "error"}, got : 0 .. issued]

LEMMA LoginStep1 ==
  ASSUME TokenInv, UNCHANGED <<token, accepted, issued, spoiled, refreshes>>,
         login' \in LoginRecords, login' = NoLogin \/ login'.of \in Names,
         login'.at = "issued" <=> login'.got # Blank, login'.got \in {login.got, Blank}
  PROVE  TokenInv'
<1>1. TokenRecords' BY DEF TokenInv, TokenRecords, LoginRecords
<1>2. FreshInv' BY DEF TokenInv, FreshInv, Unwritten
<1>3. OwnInv' BY DEF TokenInv, OwnInv
<1>4. KeptInv' BY DEF TokenInv, KeptInv
<1>5. RotatedInv' BY DEF TokenInv, RotatedInv
<1> QED BY <1>1, <1>2, <1>3, <1>4, <1>5 DEF TokenInv

LEMMA NoLoginRecord ==
  ASSUME TokenInv
  PROVE  /\ NoLogin \in LoginRecords /\ NoLogin.got = Blank /\ NoLogin.at = "none"
         /\ NoLogin.of = "none" /\ login \in LoginRecords
<1>1. issued \in Nat BY DEF TokenInv, TokenRecords
<1> QED BY <1>1 DEF NoLogin, LoginRecords, Blank, TokenInv, TokenRecords

LEMMA StartLoginStep ==
  ASSUME TokenInv, NEW n \in Names, StartLogin(n) PROVE TokenInv' /\ login'.of = n
<1>1. login' = [NoLogin EXCEPT !.of = n, !.at = "listening"]
  BY DEF StartLogin
<1>2. login' \in LoginRecords /\ login'.of = n /\ login'.at = "listening" /\ login'.got = Blank
  BY <1>1, NoLoginRecord DEF NoLogin, LoginRecords
<1>3. UNCHANGED <<token, accepted, issued, spoiled, refreshes>> BY DEF StartLogin
<1> QED BY <1>2, <1>3, LoginStep1

LEMMA CallbackStep ==
  ASSUME TokenInv, NEW kind \in {"code", "error"}, Callback(kind)
  PROVE  TokenInv' /\ login'.of = login.of /\ login # NoLogin
<1>1. login.at = "listening" /\ login \in LoginRecords /\ login # NoLogin
  BY NoLoginRecord DEF Callback
<1>2. login' = login \/ login' = [login EXCEPT !.once = TRUE, !.handled = kind]
  BY DEF Callback
<1>3. /\ login' \in LoginRecords /\ login'.of = login.of /\ login'.at = login.at
      /\ login'.got = login.got
  BY <1>1, <1>2 DEF LoginRecords
<1>4. login.of \in Names /\ (login.at = "issued" <=> login.got # Blank)
  BY <1>1 DEF TokenInv, TokenRecords
<1>5. UNCHANGED <<token, accepted, issued, spoiled, refreshes>> BY DEF Callback
<1> QED BY <1>1, <1>3, <1>4, <1>5, LoginStep1

LEMMA DeliverStep ==
  ASSUME TokenInv, Deliver PROVE TokenInv' /\ login'.of = login.of /\ login # NoLogin
<1>1. login.at = "listening" /\ login \in LoginRecords /\ login # NoLogin
  BY NoLoginRecord DEF Deliver
<1>2. login' = [login EXCEPT !.chan = login.handled, !.handled = "none"]
  BY DEF Deliver
<1>3. /\ login' \in LoginRecords /\ login'.of = login.of /\ login'.at = login.at
      /\ login'.got = login.got
  BY <1>1, <1>2 DEF LoginRecords
<1>4. login.of \in Names /\ (login.at = "issued" <=> login.got # Blank)
  BY <1>1 DEF TokenInv, TokenRecords
<1>5. UNCHANGED <<token, accepted, issued, spoiled, refreshes>> BY DEF Deliver
<1> QED BY <1>1, <1>3, <1>4, <1>5, LoginStep1

LEMMA LoginFailsStep ==
  ASSUME TokenInv, LoginFails PROVE TokenInv' /\ login' = NoLogin
<1>1. login' = NoLogin /\ UNCHANGED <<token, accepted, issued, spoiled, refreshes>>
  BY DEF LoginFails, LoginOver
<1> QED BY <1>1, NoLoginRecord, LoginStep1

LEMMA ExchangeStep ==
  ASSUME TokenInv, Exchange PROVE TokenInv' /\ login'.of = login.of /\ login # NoLogin
<1>1. /\ login' = [login EXCEPT !.at = "issued", !.got = issued + 1]
      /\ issued' = issued + 1 /\ accepted' = accepted \cup {issued + 1}
      /\ UNCHANGED <<token, spoiled, refreshes>> /\ login.at = "listening"
  BY DEF Exchange, Issue
<1>2. login \in LoginRecords /\ login # NoLogin
  BY <1>1, NoLoginRecord
<1>3. /\ login'.of = login.of /\ login'.at = "issued" /\ login'.got = issued + 1
      /\ login' \in LoginRecords'
  BY <1>1, <1>2, IssuedRange DEF LoginRecords
<1>4. TokenRecords'
  <2>1. refreshes' \in [Workers -> [of : Names \cup {"none"}, at : {"idle", "sent", "served"},
                                    had : 0 .. issued', got : 0 .. issued']]
    BY <1>1, IssuedRange DEF TokenInv, TokenRecords
  <2>2. token' \in [Names -> {NoFile} \cup 1 .. issued']
    BY IssuedRange, <1>1 DEF TokenInv, TokenRecords
  <2>3. accepted' \subseteq 1 .. issued' /\ issued' \in Nat
    BY IssuedRange, <1>1 DEF TokenInv, TokenRecords
  <2>4. login'.got # Blank BY <1>3, IssuedFresh DEF Blank
  <2> QED BY <1>1, <1>2, <1>3, <2>1, <2>2, <2>3, <2>4 DEF TokenInv, TokenRecords, LoginRecords
<1>5. FreshInv' BY <1>1, <1>3, IssuedFresh DEF TokenInv, FreshInv, Unwritten
<1>6. OwnInv' BY <1>1 DEF TokenInv, OwnInv
<1>7. KeptInv' BY <1>1 DEF TokenInv, KeptInv
<1>8. RotatedInv' BY <1>1 DEF TokenInv, RotatedInv
<1> QED BY <1>2, <1>3, <1>4, <1>5, <1>6, <1>7, <1>8 DEF TokenInv

\* A sign-in stores a token that is good, whatever was lost before.
LEMMA LoginSavedStep ==
  ASSUME TokenInv, LoginSaved PROVE TokenInv' /\ login' = NoLogin
<1> DEFINE new == login.got
           name == login.of
<1>1. /\ UNCHANGED <<accepted, issued, refreshes>> /\ login' = NoLogin
      /\ token' = [token EXCEPT ![name] = new] /\ spoiled' = spoiled \ {name}
      /\ login.at = "issued"
  BY DEF LoginSaved
<1>2. new # Blank /\ name \in Names
  BY <1>1, NoLoginRecord DEF TokenInv, TokenRecords
<1>3. /\ new \in accepted /\ \A n \in Names : token[n] # new
      /\ \A w \in Workers : refreshes[w].had # new /\ refreshes[w].got # new
  BY <1>2 DEF TokenInv, FreshInv, Unwritten
<1>4. /\ NoLogin \in LoginRecords /\ NoLogin.got = Blank /\ NoLogin.at = "none"
  BY NoLoginRecord
<1> HIDE DEF new, name
<1>5. token'[name] = new /\ \A n \in Names \ {name} : token'[n] = token[n]
  BY <1>1, <1>2 DEF TokenInv, TokenRecords
<1>6. new \in 1 .. issued BY <1>3 DEF TokenInv, TokenRecords
<1>7. TokenRecords'
  <2>1. token' \in [Names -> {NoFile} \cup 1 .. issued] BY <1>1, <1>6 DEF TokenInv, TokenRecords
  <2> QED BY <1>1, <1>4, <2>1 DEF TokenInv, TokenRecords, LoginRecords
<1>8. FreshInv' BY <1>1, <1>3, <1>4, <1>5 DEF TokenInv, FreshInv, Unwritten
<1>9. OwnInv'
  <2>1. \A m, n \in Names : m # n /\ token'[m] # NoFile => token'[n] # token'[m]
    BY <1>3, <1>5 DEF TokenInv, OwnInv
  <2>2. \A w \in Workers : \A n \in Names \ {refreshes[w].of} : token'[n] # refreshes[w].had
    BY <1>3, <1>5 DEF TokenInv, OwnInv
  <2> QED BY <1>1, <2>1, <2>2 DEF TokenInv, OwnInv
<1>10. KeptInv' BY <1>1, <1>3, <1>5 DEF TokenInv, KeptInv
<1>11. RotatedInv'
  <2>1. ASSUME NEW n \in Rotating \ spoiled', token'[n] # NoFile, token'[n] \notin accepted
        PROVE  \E v \in Workers : refreshes[v].of = n /\ refreshes[v].got # Blank
                                  /\ refreshes[v].had = token'[n]
    <3>1. n # name /\ n \in Names BY <1>3, <1>5, <2>1, TokenAssumption
    <3>2. n \notin spoiled /\ token'[n] = token[n] BY <1>1, <1>5, <2>1, <3>1
    <3> QED BY <2>1, <3>2 DEF TokenInv, RotatedInv
  <2> QED BY <1>1, <2>1 DEF TokenInv, RotatedInv
<1> QED BY <1>1, <1>7, <1>8, <1>9, <1>10, <1>11 DEF TokenInv

\* A token that is deleted is nobody's.
LEMMA DeletedStep ==
  ASSUME TokenInv, NEW n \in Names, token' = Deleted(n),
         UNCHANGED <<accepted, issued, spoiled, refreshes, login>>
  PROVE  TokenInv'
<1>1. token'[n] = NoFile /\ \A m \in Names \ {n} : token'[m] = token[m]
  BY DEF TokenInv, TokenRecords, Deleted
<1>2. TokenRecords' BY DEF TokenInv, TokenRecords, Deleted
<1>3. /\ \A m \in Names : token[m] # NoFile => token[m] # 0
      /\ accepted \subseteq 1 .. issued /\ issued \in Nat
      /\ \A w \in Workers : refreshes[w].had \in 0 .. issued /\ refreshes[w].got \in 0 .. issued
      /\ login.got \in 0 .. issued
  BY DEF TokenInv, TokenRecords, NoFile
<1>4. NoFile \notin Nat BY DEF NoFile
<1>5. FreshInv' BY <1>1, <1>3, <1>4 DEF TokenInv, FreshInv, Unwritten
<1>6. OwnInv'
  <2>1. \A w \in Workers : refreshes[w].had # NoFile BY <1>3, <1>4
  <2> QED BY <1>1, <2>1 DEF TokenInv, OwnInv
<1>7. KeptInv' BY <1>1 DEF TokenInv, KeptInv
<1>8. RotatedInv'
  <2>1. ASSUME NEW m \in Rotating \ spoiled, token'[m] # NoFile, token'[m] \notin accepted
        PROVE  \E v \in Workers : refreshes[v].of = m /\ refreshes[v].got # Blank
                                  /\ refreshes[v].had = token'[m]
    <3>1. m # n /\ m \in Names BY <1>1, <2>1, TokenAssumption
    <3>2. token'[m] = token[m] BY <1>1, <3>1
    <3> QED BY <2>1, <3>2 DEF TokenInv, RotatedInv
  <2> QED BY <2>1 DEF TokenInv, RotatedInv
<1> QED BY <1>2, <1>5, <1>6, <1>7, <1>8 DEF TokenInv

LEMMA TokensSame ==
  ASSUME TokenInv, UNCHANGED tokenVars PROVE TokenInv'
BY DEF tokenVars, TokenInv, TokenRecords, FreshInv, Unwritten, OwnInv, KeptInv, RotatedInv

LEMMA TokensAccepted == ASSUME TokenInv PROVE TokenAccepted /\ TokenTypeOK
<1>1. TokenAccepted
  BY DEF TokenInv, KeptInv, RotatedInv, TokenAccepted, Replaced
<1>2. TokenTypeOK
  BY DEF TokenInv, TokenRecords, TokenTypeOK, NoFile
<1> QED BY <1>1, <1>2

-----------------------------------------------------------------------------
\* The form.

Good(f) ==
  /\ f \in FormRecords(Names)
  /\ f.looking => f.mxSeq > 0
  /\ f.saving => f.resolved # Unresolved /\ f.name # "" /\ ~f.looking
  /\ f.choice # "auto" => f.resolved = f.choice

LEMMA FormGood ==
  /\ Good(form) <=> form \in FormRecords(Names) /\ FormInv
BY DEF Good, FormRecords, FormInv, FormTypeOK, HandPickKept

LEMMA FormGoodNext ==
  ASSUME Good(form') PROVE form' \in FormRecords(Names) /\ FormInv'
BY DEF Good, FormRecords, FormInv, FormTypeOK, HandPickKept

LEMMA StopsAre ==
  /\ "auto" \in {Stops[i] : i \in DOMAIN Stops}
  /\ \A c \in {Stops[i] : i \in DOMAIN Stops} : c = "auto" \/ c \in ProviderSet
<1>1. Providers \in Seq(STRING) BY FormAssumption
<1>2. /\ Len(Stops) = Len(Providers) + 1 /\ DOMAIN Stops = 1 .. Len(Providers) + 1
      /\ Stops[1] = "auto"
      /\ \A i \in 1 .. Len(Providers) + 1 : i # 1 => Stops[i] = Providers[i - 1]
  BY <1>1 DEF Stops
<1>3. \A i \in 1 .. Len(Providers) + 1 : i # 1 => i - 1 \in DOMAIN Providers
  BY <1>1
<1>4. Len(Providers) \in Nat BY <1>1
<1> QED BY <1>2, <1>3, <1>4 DEF ProviderSet

LEMMA AdoptRecord ==
  ASSUME NEW f \in FormRecords(Names), NEW p \in ProviderSet
  PROVE  /\ Adopt(f, p) \in FormRecords(Names) /\ Adopt(f, p).resolved = p
         /\ Adopt(f, p).name = f.name /\ Adopt(f, p).choice = f.choice
         /\ Adopt(f, p).looking = f.looking /\ Adopt(f, p).mxSeq = f.mxSeq
         /\ Adopt(f, p).saving = f.saving
BY DEF Adopt, FormRecords

\* A form whose provider is settled anew is good unless it is being saved.
LEMMA ResolvedGood ==
  ASSUME NEW f \in FormRecords(Names), f.looking => f.mxSeq > 0, ~f.saving
  PROVE  Good(Resolved(f)) /\ ~Resolved(f).saving
<1>1. CASE f.choice # "auto"
  <2>1. f.choice \in ProviderSet BY <1>1, StopsAre DEF FormRecords
  <2>2. Resolved(f) = Adopt(f, f.choice) BY <1>1 DEF Resolved
  <2>3. /\ Resolved(f) \in FormRecords(Names) /\ Resolved(f).resolved = f.choice
        /\ Resolved(f).choice = f.choice /\ Resolved(f).looking = f.looking
        /\ Resolved(f).mxSeq = f.mxSeq /\ Resolved(f).saving = f.saving
    BY <2>1, <2>2, AdoptRecord
  <2> QED BY <1>1, <2>3 DEF Good
<1>2. CASE f.choice = "auto" /\ DomainTable[f.domain] = "none"
  <2>1. Resolved(f) = [f EXCEPT !.resolved = Unresolved] BY <1>2 DEF Resolved
  <2>2. /\ Resolved(f) \in FormRecords(Names) /\ Resolved(f).choice = f.choice
        /\ Resolved(f).looking = f.looking /\ Resolved(f).mxSeq = f.mxSeq
        /\ Resolved(f).saving = f.saving
    BY <2>1 DEF FormRecords
  <2> QED BY <1>2, <2>2 DEF Good
<1>3. CASE f.choice = "auto" /\ DomainTable[f.domain] # "none"
  <2>1. f.domain \in Domains BY DEF FormRecords
  <2>2. DomainTable[f.domain] \in ProviderSet BY <1>3, <2>1, FormAssumption DEF ProviderSet
  <2>3. Resolved(f) = Adopt(f, DomainTable[f.domain]) BY <1>3 DEF Resolved
  <2>4. /\ Resolved(f) \in FormRecords(Names) /\ Resolved(f).resolved = DomainTable[f.domain]
        /\ Resolved(f).choice = f.choice /\ Resolved(f).looking = f.looking
        /\ Resolved(f).mxSeq = f.mxSeq /\ Resolved(f).saving = f.saving
    BY <2>2, <2>3, AdoptRecord
  <2> QED BY <1>3, <2>4 DEF Good
<1> QED BY <1>1, <1>2, <1>3

LEMMA NewFormGood ==
  ASSUME NEW mode \in {"first", "add", "edit"}, NEW name \in Names \cup {""},
         NEW domain \in Domains, NEW oauth \in BOOLEAN, NEW existing \in SUBSET Names
  PROVE  Good(NewForm(mode, name, domain, oauth, existing))
<1> DEFINE f == [mode |-> mode, name |-> name, domain |-> domain, existing |-> existing,
                 choice |-> "auto", resolved |-> Unresolved,
                 authChoice |-> IF oauth THEN "oauth" ELSE "password",
                 looking |-> FALSE, mxSeq |-> 0, submitAfterMX |-> FALSE,
                 saving |-> FALSE, signingIn |-> FALSE]
<1>1. f \in FormRecords(Names) BY StopsAre DEF FormRecords
<1>2. ~f.looking /\ ~f.saving OBVIOUS
<1>3. NewForm(mode, name, domain, oauth, existing) = Resolved(f) BY DEF NewForm
<1> HIDE DEF f
<1> QED BY <1>1, <1>2, <1>3, ResolvedGood

LEMMA LookUpGood ==
  ASSUME NEW f, Good(f), ~f.saving, LookUp(f) PROVE Good(form') /\ ~form'.saving
<1>1. form' = [f EXCEPT !.mxSeq = f.mxSeq + 1, !.looking = TRUE] BY DEF LookUp, Looking
<1>2. f \in FormRecords(Names) /\ f.mxSeq \in Nat BY DEF Good, FormRecords
<1>3. f.mxSeq + 1 \in Nat /\ f.mxSeq + 1 > 0 BY <1>2
<1> DEFINE k == f.mxSeq + 1
<1> HIDE DEF k
<1>4. form' = [f EXCEPT !.mxSeq = k, !.looking = TRUE] /\ k \in Nat /\ k > 0
  BY <1>1, <1>3 DEF k
<1>5. form' \in FormRecords(Names)
  BY <1>2, <1>4 DEF FormRecords
<1>6. /\ form'.choice = f.choice /\ form'.resolved = f.resolved
      /\ form'.saving = f.saving /\ form'.mxSeq = k
  BY <1>2, <1>4 DEF FormRecords
<1> QED BY <1>4, <1>5, <1>6 DEF Good

LEMMA SubmittedGood ==
  ASSUME NEW f, Good(f), ~f.looking, Submitted(f) PROVE Good(form')
<1>1. CASE form' = f BY <1>1
<1>2. CASE Complete(f) /\ form' = [f EXCEPT !.saving = TRUE]
  <2>1. /\ form' \in FormRecords(Names) /\ form'.choice = f.choice /\ form'.resolved = f.resolved
        /\ form'.looking = f.looking /\ form'.mxSeq = f.mxSeq /\ form'.name = f.name
    BY <1>2 DEF Good, FormRecords
  <2> QED BY <1>2, <2>1 DEF Good, Complete
<1> QED BY <1>1, <1>2 DEF Submitted

LEMMA FormKeyGood ==
  ASSUME Good(form), FormKey PROVE Good(form')
<1>1. form \in FormRecords(Names) BY DEF Good
<1>2. CASE \E n \in Typed : TypeName(n)
  <2>1. PICK n \in Typed : TypeName(n) BY <1>2
  <2>2. form' = [form EXCEPT !.name = n] /\ ~form.saving /\ n \in Names \cup {""}
    BY <2>1, AccountsAssumption DEF TypeName, FormFree
  <2>3. /\ form' \in FormRecords(Names) /\ form'.choice = form.choice
        /\ form'.resolved = form.resolved /\ form'.looking = form.looking
        /\ form'.mxSeq = form.mxSeq /\ form'.saving = form.saving
    BY <1>1, <2>2 DEF FormRecords
  <2> QED BY <2>2, <2>3 DEF Good
<1>3. CASE \E d \in Domains : TypeEmail(d)
  <2>1. PICK d \in Domains : TypeEmail(d) BY <1>3
  <2> DEFINE f == [form EXCEPT !.domain = d]
  <2>2. form' = Resolved(f) /\ ~form.saving BY <2>1 DEF TypeEmail, FormFree
  <2>3. /\ f \in FormRecords(Names) /\ f.looking = form.looking /\ f.mxSeq = form.mxSeq
        /\ f.saving = form.saving
    BY <1>1 DEF FormRecords
  <2> HIDE DEF f
  <2> QED BY <2>2, <2>3, ResolvedGood DEF Good
<1>4. CASE LeaveEmail BY <1>4, LookUpGood DEF LeaveEmail, FormFree
<1>5. CASE \E choice \in {Stops[i] : i \in DOMAIN Stops} : Cycle(choice)
  <2>1. PICK choice \in {Stops[i] : i \in DOMAIN Stops} : Cycle(choice) BY <1>5
  <2> DEFINE f == [form EXCEPT !.choice = choice]
  <2>2. /\ LookUp(Resolved(f)) \/ form' = Resolved(f)
        /\ ~form.saving
    BY <2>1 DEF Cycle, FormFree
  <2>3. /\ f \in FormRecords(Names) /\ f.looking = form.looking /\ f.mxSeq = form.mxSeq
        /\ f.saving = form.saving
    BY <1>1 DEF FormRecords
  <2> HIDE DEF f
  <2>4. Good(Resolved(f)) /\ ~Resolved(f).saving BY <2>2, <2>3, ResolvedGood DEF Good
  <2> QED BY <2>2, <2>4, LookUpGood
<1>6. CASE CycleAuth
  <2>1. /\ form' = [form EXCEPT !.authChoice = IF @ = "oauth" THEN "password" ELSE "oauth"]
        /\ ~form.saving
    BY <1>6 DEF CycleAuth, FormFree
  <2>2. /\ form' \in FormRecords(Names) /\ form'.choice = form.choice
        /\ form'.resolved = form.resolved /\ form'.looking = form.looking
        /\ form'.mxSeq = form.mxSeq /\ form'.saving = form.saving
    BY <1>1, <2>1 DEF FormRecords
  <2> QED BY <2>1, <2>2 DEF Good
<1>7. CASE Submit
  <2> DEFINE f == [form EXCEPT !.submitAfterMX = TRUE]
  <2>1. Good(f) /\ f.saving = form.saving
    <3>1. /\ f \in FormRecords(Names) /\ f.choice = form.choice /\ f.name = form.name
          /\ f.resolved = form.resolved /\ f.looking = form.looking
          /\ f.mxSeq = form.mxSeq /\ f.saving = form.saving
      BY <1>1 DEF FormRecords
    <3> QED BY <3>1 DEF Good
  <2>2. form' = f \/ LookUp(f) \/ (~form.looking /\ Submitted(form))
    BY <1>7 DEF Submit
  <2>3. ~form.saving BY <1>7 DEF Submit, FormFree
  <2> HIDE DEF f
  <2> QED BY <2>1, <2>2, <2>3, LookUpGood, SubmittedGood
<1> QED BY <1>2, <1>3, <1>4, <1>5, <1>6, <1>7 DEF FormKey

LEMMA AnswersGood ==
  ASSUME Good(form), FormAnswers PROVE Good(form')
<1>1. PICK i \in DOMAIN lookups, p \in ProviderSet : MXAnswer(i, p) BY DEF FormAnswers
<1> DEFINE settled == [form EXCEPT !.looking = FALSE]
           adopted == [Adopt(settled, p) EXCEPT !.submitAfterMX = FALSE]
<1>2. /\ settled \in FormRecords(Names) /\ settled.choice = form.choice /\ settled.name = form.name
      /\ settled.resolved = form.resolved /\ ~settled.looking
      /\ settled.mxSeq = form.mxSeq /\ settled.saving = form.saving
  BY DEF Good, FormRecords
<1>3. Good(settled) BY <1>2 DEF Good
<1>4. \/ UNCHANGED form
      \/ form' = settled
      \/ /\ form.looking /\ form.choice = "auto"
         /\ form' = adopted \/ Submitted(adopted)
  BY <1>1 DEF MXAnswer, Ignores, Overridden
<1>5. ASSUME form.looking, form.choice = "auto" PROVE Good(adopted) /\ ~adopted.looking
  <2>1. ~settled.saving BY <1>2, <1>5 DEF Good
  <2>2. /\ Adopt(settled, p) \in FormRecords(Names)
        /\ Adopt(settled, p).choice = settled.choice /\ Adopt(settled, p).looking = settled.looking
        /\ Adopt(settled, p).saving = settled.saving
    BY <1>2, AdoptRecord
  <2>3. /\ adopted \in FormRecords(Names) /\ adopted.choice = Adopt(settled, p).choice
        /\ adopted.looking = Adopt(settled, p).looking
        /\ adopted.saving = Adopt(settled, p).saving
    BY <2>2 DEF FormRecords
  <2> QED BY <1>2, <1>5, <2>1, <2>2, <2>3 DEF Good
<1> HIDE DEF settled, adopted
<1> QED BY <1>3, <1>4, <1>5, SubmittedGood

-----------------------------------------------------------------------------
\* Sequences of commands, and sets written as sequences.

LEMMA SetSequence ==
  ASSUME NEW S, IsFiniteSet(S)
  PROVE  /\ SetToSeq(S) \in Seq(S) /\ Len(SetToSeq(S)) \in Nat
         /\ DOMAIN SetToSeq(S) = 1 .. Len(SetToSeq(S))
         /\ \A x \in S : \E i \in DOMAIN SetToSeq(S) : SetToSeq(S)[i] = x
<1> DEFINE k == Cardinality(S)
           f == SetToSeq(S)
<1>1. k \in Nat /\ \E g : g \in Bijection(1 .. k, S)
  BY FS_CardinalityType DEF ExistsBijection
<1>2. \E g \in [1 .. k -> S] : IsInjective(g) BY <1>1 DEF Bijection, Injection
<1>3. f \in [1 .. k -> S] /\ IsInjective(f) BY <1>2 DEF SetToSeq
<1> HIDE DEF f
<1>4. Cardinality(1 .. k) = k BY <1>1, FS_Interval
<1>5. f \in Injection(1 .. k, S) BY <1>3 DEF Injection
<1>6. f \in Surjection(1 .. k, S)
  <2>1. Cardinality(1 .. k) = Cardinality(S) BY <1>4
  <2> HIDE DEF k
  <2> QED BY <1>5, <2>1, FS_Injection
<1>7. \A x \in S : \E i \in 1 .. k : f[i] = x BY <1>6 DEF Surjection
<1> HIDE DEF k
<1>8. f \in Seq(S) /\ Len(f) = k /\ DOMAIN f = 1 .. k BY <1>1, <1>3
<1> QED BY <1>1, <1>7, <1>8 DEF f

LEMMA RemovedIn ==
  ASSUME NEW S, NEW s \in Seq(S), NEW i \in DOMAIN s
  PROVE  RemoveAt(s, i) \in Seq(S)
<1>1. Len(s) \in Nat /\ i \in 1 .. Len(s) OBVIOUS
<1>2. SubSeq(s, 1, i - 1) \in Seq(S) BY <1>1
<1>3. SubSeq(s, i + 1, Len(s)) \in Seq(S) BY <1>1
<1> QED BY <1>2, <1>3 DEF RemoveAt

LEMMA JoinedLength ==
  ASSUME NEW S, NEW s \in Seq(S), NEW t \in Seq(S) PROVE Len(s \o t) = Len(s) + Len(t)
OBVIOUS

LEMMA RemovedAt ==
  ASSUME NEW S, NEW s \in Seq(S), NEW i \in DOMAIN s
  PROVE  /\ RemoveAt(s, i) \in Seq(S)
         /\ DOMAIN RemoveAt(s, i) = 1 .. Len(s) - 1
         /\ \A p \in 1 .. Len(s) - 1 : RemoveAt(s, i)[p] = s[IF p < i THEN p ELSE p + 1]
<1>1. Len(s) \in Nat /\ i \in 1 .. Len(s) /\ DOMAIN s = 1 .. Len(s) OBVIOUS
<1> DEFINE head == SubSeq(s, 1, i - 1)
           tail == SubSeq(s, i + 1, Len(s))
<1>2. head \in Seq(S) /\ Len(head) = i - 1 /\ \A p \in 1 .. i - 1 : head[p] = s[p] BY <1>1
<1>3. tail \in Seq(S) /\ Len(tail) = Len(s) - i /\ \A p \in 1 .. Len(s) - i : tail[p] = s[i + p]
  BY <1>1
<1>4. RemoveAt(s, i) = head \o tail BY DEF RemoveAt
<1> HIDE DEF head, tail
<1>5. /\ head \o tail \in Seq(S) /\ Len(head \o tail) = Len(s) - 1
      /\ DOMAIN (head \o tail) = 1 .. Len(s) - 1
  <2>1. head \o tail \in Seq(S) BY <1>2, <1>3
  <2>4. Len(head \o tail) = Len(head) + Len(tail) BY <1>2, <1>3, JoinedLength
  <2>2. (i - 1) + (Len(s) - i) = Len(s) - 1 BY <1>1
  <2>3. Len(head \o tail) = Len(s) - 1 BY <1>2, <1>3, <2>4, <2>2
  <2>5. DOMAIN (head \o tail) = 1 .. Len(head \o tail) BY <2>1
  <2> QED BY <2>1, <2>3, <2>5
<1>6. ASSUME NEW p \in 1 .. Len(s) - 1
      PROVE  (head \o tail)[p] = s[IF p < i THEN p ELSE p + 1]
  <2>1. CASE p < i BY <1>1, <1>2, <1>3, <2>1
  <2>2. CASE ~(p < i)
    <3> DEFINE q == p - (i - 1)
    <3>1. q \in 1 .. Len(s) - i /\ i + q = p + 1 /\ ~(p < i) BY <1>1, <2>2
    <3>2. (head \o tail)[p] = tail[q] BY <1>1, <1>2, <1>3, <2>2
    <3> HIDE DEF q
    <3>3. tail[q] = s[i + q] BY <1>3, <3>1
    <3>4. s[i + q] = s[p + 1] /\ (IF p < i THEN p ELSE p + 1) = p + 1 BY <3>1
    <3> QED BY <3>2, <3>3, <3>4
  <2> QED BY <2>1, <2>2
<1> QED BY <1>1, <1>4, <1>5, <1>6

\* Two sequences of commands with the same edits, but for the one at an index.
RunOn(s, t, gone) ==
  /\ \A p \in DOMAIN t : Edits(t[p]) => \E j \in DOMAIN s \ {gone} : s[j] = t[p]
  /\ \A p, q \in DOMAIN t :
       p # q /\ Edits(t[p]) /\ Edits(t[q])
         => \E j, k \in DOMAIN s \ {gone} : j # k /\ s[j] = t[p] /\ s[k] = t[q]
  /\ \A j \in DOMAIN s \ {gone} : Edits(s[j]) => \E p \in DOMAIN t : t[p] = s[j]

LEMMA KeptSame ==
  ASSUME NEW s \in Seq(Commands) PROVE RunOn(s, s, 0)
<1>1. DOMAIN s = 1 .. Len(s) /\ Len(s) \in Nat OBVIOUS
<1>2. DOMAIN s \ {0} = DOMAIN s BY <1>1
<1> QED BY <1>2 DEF RunOn

LEMMA KeptAppend ==
  ASSUME NEW s, NEW t \in Seq(Commands), NEW gone, RunOn(s, t, gone), NEW c, ~Edits(c)
  PROVE  RunOn(s, Append(t, c), gone)
<1> DEFINE u == Append(t, c)
<1>1. /\ Len(t) \in Nat /\ DOMAIN t = 1 .. Len(t) /\ DOMAIN u = 1 .. Len(t) + 1
      /\ u[Len(t) + 1] = c /\ \A p \in DOMAIN t : u[p] = t[p]
  OBVIOUS
<1> HIDE DEF u
<1>2. \A p \in DOMAIN u : Edits(u[p]) => p \in DOMAIN t /\ u[p] = t[p] BY <1>1
<1>3. DOMAIN t \subseteq DOMAIN u BY <1>1
<1>4. \A p \in DOMAIN u : Edits(u[p]) => \E j \in DOMAIN s \ {gone} : s[j] = u[p]
  BY <1>2 DEF RunOn
<1>5. \A p, q \in DOMAIN u :
        p # q /\ Edits(u[p]) /\ Edits(u[q])
          => \E j, k \in DOMAIN s \ {gone} : j # k /\ s[j] = u[p] /\ s[k] = u[q]
  BY <1>2 DEF RunOn
<1>6. \A j \in DOMAIN s \ {gone} : Edits(s[j]) => \E p \in DOMAIN u : u[p] = s[j]
  BY <1>1, <1>3 DEF RunOn
<1> QED BY <1>4, <1>5, <1>6 DEF RunOn, u

LEMMA KeptDone ==
  ASSUME NEW s \in Seq(Commands), NEW i \in DOMAIN s
  PROVE  RunOn(s, RemoveAt(s, i), i) /\ (~Edits(s[i]) => RunOn(s, RemoveAt(s, i), 0))
<1> DEFINE t == RemoveAt(s, i)
           At(p) == IF p < i THEN p ELSE p + 1
<1>1. /\ DOMAIN s = 1 .. Len(s) /\ Len(s) \in Nat /\ DOMAIN t = 1 .. Len(s) - 1
      /\ \A p \in DOMAIN t : t[p] = s[At(p)]
  <2>1. DOMAIN s = 1 .. Len(s) /\ Len(s) \in Nat OBVIOUS
  <2> QED BY <2>1, RemovedAt
<1> HIDE DEF t
<1>2. \A p \in DOMAIN t : At(p) \in DOMAIN s \ {i} BY <1>1
<1>3. \A p, q \in DOMAIN t : p # q => At(p) # At(q) BY <1>1
<1>4. ASSUME NEW j \in DOMAIN s \ {i} PROVE \E p \in DOMAIN t : At(p) = j
  <2>1. CASE j < i
    <3>1. j \in DOMAIN t /\ At(j) = j BY <1>1, <2>1
    <3> QED BY <3>1
  <2>2. CASE j > i
    <3>1. j - 1 \in DOMAIN t /\ At(j - 1) = j BY <1>1, <2>2
    <3> QED BY <3>1
  <2> QED BY <1>1, <2>1, <2>2
<1> HIDE DEF At
<1>5. RunOn(s, t, i)
  <2>1. \A p \in DOMAIN t : \E j \in DOMAIN s \ {i} : s[j] = t[p] BY <1>1, <1>2
  <2>2. \A p, q \in DOMAIN t :
          p # q => \E j, k \in DOMAIN s \ {i} : j # k /\ s[j] = t[p] /\ s[k] = t[q]
    BY <1>1, <1>2, <1>3
  <2>3. \A j \in DOMAIN s \ {i} : \E p \in DOMAIN t : t[p] = s[j] BY <1>1, <1>4
  <2> QED BY <2>1, <2>2, <2>3 DEF RunOn
<1>6. ASSUME ~Edits(s[i]) PROVE RunOn(s, t, 0)
  <2>1. DOMAIN s \ {i} \subseteq DOMAIN s \ {0} BY <1>1
  <2>2. \A j \in DOMAIN s \ {0} : Edits(s[j]) => j \in DOMAIN s \ {i} BY <1>6
  <2> QED BY <1>5, <2>1, <2>2 DEF RunOn
<1> QED BY <1>5, <1>6 DEF t

\* The commands of a session that has no account.
NoScans == {c \in Commands : c.kind # "scan"}

LEMMA CommandIn ==
  ASSUME NEW kind \in Kinds \ {"save"}, NEW n \in Names \cup {NoRow}, kind = "list" \/ n \in Names
  PROVE  /\ Command(kind, n) \in Commands /\ (kind # "scan" => Command(kind, n) \in NoScans)
         /\ \A able \in BOOLEAN : [Command(kind, n) EXCEPT !.flag = able] \in Commands
         /\ kind # "remove" => /\ ~Edits(Command(kind, n))
                               /\ \A able \in BOOLEAN : ~Edits([Command(kind, n) EXCEPT !.flag = able])
<1>1. NoEntries \in [Names -> Entries \cup {NoEntry}] BY DEF NoEntries
<1>2. NoEntry \in Entries \cup {NoEntry} OBVIOUS
<1> QED BY <1>1, <1>2 DEF Command, Commands, NoScans, Edits, Places

LEMMA DoneIn ==
  ASSUME commands \in Seq(Commands), NEW i \in DOMAIN commands
  PROVE  /\ Done(i) \in Seq(Commands) /\ commands[i] \in Commands
         /\ commands \in Seq(NoScans) => Done(i) \in Seq(NoScans)
BY RemovedIn DEF Done

LEMMA AppendIn ==
  ASSUME NEW s \in Seq(Commands), NEW c \in Commands
  PROVE  /\ Append(s, c) \in Seq(Commands)
         /\ s \in Seq(NoScans) /\ c \in NoScans => Append(s, c) \in Seq(NoScans)
OBVIOUS

LEMMA SaveIn ==
  ASSUME Good(form'), form'.saving
  PROVE  /\ Save(form') \in NoScans /\ Save(form').kind = "save"
         /\ Save(form').at \in {"check", "read"}
         /\ Save(form').flag => Save(form').at = "check"
<1>1. /\ form'.name \in Names /\ form'.domain \in Domains
  BY DEF Good, FormRecords
<1>2. UseOAuth(form') \in BOOLEAN
  BY DEF UseOAuth, OAuthOffered, OAuthOnly
<1>3. Entry(form') \in Entries BY <1>1, <1>2 DEF Entry, Entries
<1>4. NoEntries \in [Names -> Entries \cup {NoEntry}] BY DEF NoEntries
<1> QED BY <1>1, <1>3, <1>4 DEF Save, Command, Commands, NoScans, Kinds, Places

LEMMA NoRowNone == NoRow \notin Names /\ "none" \notin Names
BY AccountsAssumption, TokenAssumption DEF NoRow

-----------------------------------------------------------------------------
\* The accounts. What every step but an edit's keeps: the file and what b.cfg
\* has of it are as they were, the edits go on as they did, and no credential
\* appears for an account that had none and nothing under way.

AInv == Good(form) /\ TokenInv /\ AccountsInv

Tables ==
  [rows : [Names -> Entries \cup {NoEntry}], cursor : Names \cup {NoRow},
   question : {"none", "signout", "remove", "purge"}]
ShownOK ==
  /\ screen \in {"accounts", "form", "scan", "review", "quit"}
  /\ table \in Tables /\ (table.cursor # NoRow => table.rows[table.cursor] # NoEntry)
  /\ commands \in Seq(Commands)
NothingNew ==
  \A n \in Names :
    /\ RefreshOf(n)' => RefreshOf(n) \/ token[n] # NoFile
    /\ login'.of = n => login.of = n
    /\ token'[n] # NoFile => token[n] # NoFile \/ RefreshOf(n) \/ login.of = n
Sessions == [name : Names, entry : Entries]
Maps == [Names -> Entries \cup {NoEntry}]

LEMMA Shown0 == ASSUME AInv PROVE ShownOK
BY DEF AInv, AccountsInv, RecordsInv, AccountsTypeOK, ShownOK, Tables

LEMMA Typed0 ==
  ASSUME AInv
  PROVE  /\ file \in Maps /\ cfg \in Maps /\ passwords \subseteq Names /\ troubled \subseteq Names
         /\ startup \subseteq Names
BY DEF AInv, AccountsInv, RecordsInv, AccountsTypeOK, Maps

LEMMA RecordsNext ==
  ASSUME AInv, Good(form'), ShownOK', UNCHANGED startup,
         file' \in Maps, cfg' \in Maps, passwords' \subseteq Names, troubled' \subseteq Names
  PROVE  RecordsInv'
<1>1. \A c \in Commands : c.kind # "list" => c.of \in Names BY DEF Commands
<1>2. \A i \in DOMAIN commands' : commands'[i] \in Commands BY DEF ShownOK
<1>3. form' \in FormRecords(Names) BY DEF Good
<1>4. AccountsTypeOK' BY <1>1, <1>2 DEF ShownOK, AccountsTypeOK
<1>5. startup' \subseteq Names BY Typed0
<1> QED BY <1>3, <1>4, <1>5 DEF RecordsInv, ShownOK, Tables, Maps

LEMMA SessionsNamed == ASSUME NEW a \in Sessions PROVE a # NoAccount /\ a.name \in Names
BY NoRowNone DEF Sessions, NoAccount

LEMMA AccountNext ==
  ASSUME AInv, UNCHANGED <<acct, refreshes, login>>,
         acct = NoAccount => screen' # "scan" /\ commands' \in Seq(NoScans)
  PROVE  AccountInv'
BY DEF AInv, AccountsInv, AccountInv, NoScans

\* What another command leaves of an edit's own facts.
LEMMA ProgressKept ==
  ASSUME AInv, NEW c \in Commands, Edits(c), Progress(c), NothingNew,
         file'[c.of] = file[c.of], c.of \in passwords' => c.of \in passwords
  PROVE  Progress(c)'
<1>1. c.of \in Names BY DEF Commands, Edits
<1>2. /\ c.at \in {"password", "token", "load", "end"} => file'[c.of] = c.entry
      /\ c.at = "end" => c.seen[c.of] = c.entry
      /\ c.kind = "remove" /\ c.at \in {"token", "load", "end"} => c.of \notin passwords'
  BY DEF Progress
<1>3. c.kind = "remove" /\ c.at \in {"load", "end"} =>
        token'[c.of] = NoFile /\ ~RefreshOf(c.of)' /\ login'.of # c.of
  BY <1>1 DEF Progress, NothingNew
<1> QED BY <1>2, <1>3 DEF Progress, RefreshOf

LEMMA DiskKept ==
  ASSUME AInv, Good(form'), TokenInv', ShownOK', AccountInv', NothingNew,
         RunOn(commands, commands', 0),
         UNCHANGED <<file, cfg, troubled, startup>>, passwords' \subseteq passwords
  PROVE  AInv'
<1>1. RecordsInv' BY Typed0, RecordsNext
<1>2. commands \in Seq(Commands) BY Shown0 DEF ShownOK
<1>3. EditsInv'
  <2>1. ASSUME NEW p \in DOMAIN commands', Edits(commands'[p]) PROVE EditInv(commands[p])'
    <3>1. PICK c \in Commands : c = commands'[p] /\ \E j \in DOMAIN commands : commands[j] = c
      BY <1>2, <2>1 DEF RunOn
    <3>2. Edits(c) /\ EditInv(c)
      BY <2>1, <3>1 DEF AInv, AccountsInv, EditsInv
    <3>3. c.of \in Names BY <3>2 DEF Commands, Edits
    <3>4. c.alone => Progress(c)' BY <3>2, <3>3, ProgressKept DEF EditInv
    <3>5. EditInv(c)' BY <3>2, <3>4 DEF EditInv
    <3> QED BY <3>1, <3>5 DEF EditInv, Progress, RefreshOf
  <2>2. ASSUME NEW p \in DOMAIN commands', NEW q \in DOMAIN commands', p # q,
               Edits(commands'[p]), Edits(commands'[q])
        PROVE  ~commands'[p].alone
    <3>1. \E j, k \in DOMAIN commands :
            j # k /\ commands[j] = commands'[p] /\ commands[k] = commands'[q]
      BY <2>2 DEF RunOn
    <3>2. PICK j \in DOMAIN commands, k \in DOMAIN commands :
            j # k /\ commands[j] = commands'[p] /\ commands[k] = commands'[q]
      BY <3>1
    <3> QED BY <2>2, <3>2 DEF AInv, AccountsInv, EditsInv
  <2> QED BY <2>1, <2>2 DEF EditsInv, Edits
<1>4. \A j \in DOMAIN commands : Edits(commands[j]) => \E p \in DOMAIN commands' : commands'[p] = commands[j]
  <2>1. 0 \notin DOMAIN commands BY <1>2
  <2> QED BY <2>1 DEF RunOn
<1>5. ASSUME NEW n, NEW places PROVE SaveOf(n, places) => SaveOf(n, places)'
  BY <1>4 DEF SaveOf, Edits
<1>6. ASSUME NEW n, NEW places PROVE RemovalOf(n, places) => RemovalOf(n, places)'
  BY <1>4 DEF RemovalOf, Edits
<1>7. ListedInv' BY <1>5 DEF AInv, AccountsInv, ListedInv
<1>8. ASSUME NEW n \in Names \ troubled, file[n] = NoEntry
      PROVE  /\ n \in passwords => RemovalOf(n, {"password"})
             /\ token[n] # NoFile \/ RefreshOf(n) \/ login.of = n
                  => RemovalOf(n, {"password", "token"})
  BY <1>8 DEF AInv, AccountsInv, NothingLeftBehind, NobodysInv
<1>9. NothingLeftBehind' BY <1>6, <1>8 DEF NothingNew, NothingLeftBehind
<1>10. NobodysInv' BY <1>6, <1>8 DEF NothingNew, NobodysInv
<1> QED BY <1>1, <1>3, <1>7, <1>9, <1>10 DEF AInv, AccountsInv

\* A step that leaves the credentials alone as well.
LEMMA CredentialsKept ==
  ASSUME AInv, Good(form'), ShownOK', RunOn(commands, commands', 0),
         UNCHANGED <<tokenVars, diskVars, startup>>,
         \/ acct' \in Sessions
         \/ acct' = acct /\ (acct = NoAccount => screen' # "scan" /\ commands' \in Seq(NoScans))
  PROVE  AInv'
<1>1. TokenInv' BY TokensSame DEF AInv
<1>2. UNCHANGED <<file, cfg, troubled, startup, passwords, token, refreshes, login>>
  BY DEF diskVars, tokenVars
<1>3. NothingNew BY <1>2 DEF NothingNew, RefreshOf
<1>4. AccountInv'
  <2>1. CASE acct' \in Sessions BY <2>1, SessionsNamed DEF AccountInv, Sessions
  <2>2. CASE /\ acct' = acct
             /\ acct = NoAccount => screen' # "scan" /\ commands' \in Seq(NoScans)
    BY <1>2, <2>2 DEF AInv, AccountsInv, AccountInv, NoScans
  <2> QED BY <2>1, <2>2
<1> QED BY <1>1, <1>2, <1>3, <1>4, DiskKept

\* The session has an account while anything is signed in or scanned.
LEMMA HasAccount ==
  ASSUME AInv,
         \/ screen = "scan" \/ login # NoLogin \/ (\E w \in Workers : refreshes[w] # Idle)
         \/ (\E i \in DOMAIN commands : commands[i].kind = "scan")
  PROVE  acct \in Sessions /\ acct.name \in Names
<1>1. AccountInv BY DEF AInv, AccountsInv
<1>2. SUFFICES ASSUME acct = NoAccount PROVE FALSE BY <1>1 DEF AccountInv, Sessions
<1>3. commands \in Seq({c \in Commands : c.kind # "scan"}) BY <1>1, <1>2 DEF AccountInv
<1>4. \A i \in DOMAIN commands : commands[i].kind # "scan" BY <1>3
<1> QED BY <1>1, <1>2, <1>4 DEF AccountInv

LEMMA StillNone ==
  ASSUME AInv, acct = NoAccount PROVE commands \in Seq(NoScans) /\ screen # "scan"
BY DEF AInv, AccountsInv, AccountInv, NoScans

LEMMA RowIn ==
  ASSUME AInv, OnAccount PROVE Row \in Sessions /\ Row.name \in Names /\ Row.name = table.cursor
<1>1. ShownOK BY Shown0
<1>2. table.cursor \in Names /\ table.rows[table.cursor] \in Entries
  BY <1>1 DEF OnAccount, ShownOK, Tables
<1> QED BY <1>2 DEF Row, Account, Sessions

LEMMA OpenFormGood ==
  ASSUME AInv, NEW mode \in {"first", "add", "edit"}, NEW a, mode = "add" \/ a \in Sessions,
         OpenForm(mode, a)
  PROVE  Good(form') /\ screen' = "form"
<1>1. AccountNames \in SUBSET Names
  BY Typed0 DEF AccountNames, Present
<1>2. screen' = "form" BY DEF OpenForm
<1>3. CASE mode = "add"
  <2>1. form' = NewForm("add", "", "", FALSE, AccountNames) BY <1>3 DEF OpenForm
  <2> QED BY <1>1, <1>2, <2>1, FormAssumption, NewFormGood
<1>4. CASE mode # "add"
  <2>1. a.name \in Names /\ a.entry.domain \in Domains /\ a.entry.oauth \in BOOLEAN
    BY <1>4 DEF Sessions, Entries
  <2>2. form' = NewForm(mode, a.name, a.entry.domain, a.entry.oauth, AccountNames)
    BY <1>4 DEF OpenForm
  <2> QED BY <1>1, <1>2, <2>1, <2>2, NewFormGood
<1> QED BY <1>3, <1>4

LEMMA OpenAccountsShown ==
  ASSUME NEW running \in Seq(Commands), OpenAccounts(running)
  PROVE  /\ ShownOK' /\ screen' = "accounts"
         /\ running \in Seq(NoScans) => commands' \in Seq(NoScans)
         /\ \A s, gone : RunOn(s, running, gone) => RunOn(s, commands', gone)
<1>1. /\ Command("list", NoRow) \in Commands /\ Command("list", NoRow) \in NoScans
      /\ ~Edits(Command("list", NoRow))
  BY CommandIn DEF Kinds
<1>2. commands' = Append(running, Command("list", NoRow)) BY DEF OpenAccounts, Run
<1>3. table' \in Tables /\ table'.cursor = NoRow /\ screen' = "accounts"
  BY DEF OpenAccounts, NoTable, Tables, NoEntries
<1>4. commands' \in Seq(Commands) BY <1>1, <1>2, AppendIn
<1>5. running \in Seq(NoScans) => commands' \in Seq(NoScans) BY <1>1, <1>2, AppendIn
<1>6. ASSUME NEW s, NEW gone, RunOn(s, running, gone) PROVE RunOn(s, commands', gone)
  <2> DEFINE c == Command("list", NoRow)
  <2> HIDE DEF c
  <2>1. ~Edits(c) /\ commands' = Append(running, c) BY <1>1, <1>2 DEF c
  <2> QED BY <1>6, <2>1, KeptAppend
<1> QED BY <1>3, <1>4, <1>5, <1>6 DEF ShownOK

LEMMA MoveRowStep == ASSUME AInv, MoveRow PROVE AInv'
<1>1. PICK n \in Present(table.rows) : table' = [table EXCEPT !.cursor = n] BY DEF MoveRow
<1>2. UNCHANGED <<formVars, tokenVars, screen, acct, diskVars, startup, commands>>
  BY DEF MoveRow
<1>3. ShownOK BY Shown0
<1>4. /\ table' \in Tables /\ table'.rows = table.rows /\ table'.cursor = n
      /\ table.rows[n] # NoEntry
  BY <1>1, <1>3 DEF ShownOK, Tables, Present
<1>5. ShownOK' BY <1>1, <1>2, <1>3, <1>4 DEF ShownOK
<1>6. Good(form') BY <1>2 DEF AInv, formVars
<1>7. acct = NoAccount => screen' # "scan" /\ commands' \in Seq(NoScans) BY <1>2, StillNone
<1>8. RunOn(commands, commands', 0) BY <1>2, <1>3, KeptSame DEF ShownOK
<1> QED BY <1>2, <1>5, <1>6, <1>7, <1>8, CredentialsKept

-----------------------------------------------------------------------------
\* An edit starts, or the file is edited by hand: who works on the same names is
\* no longer alone.

LEMMA DisturbedIs ==
  ASSUME commands \in Seq(Commands), NEW names
  PROVE  /\ Disturbed(names) \in Seq(Commands) /\ Len(Disturbed(names)) = Len(commands)
         /\ DOMAIN Disturbed(names) = DOMAIN commands
         /\ commands \in Seq(NoScans) => Disturbed(names) \in Seq(NoScans)
         /\ \A i \in DOMAIN commands :
              Disturbed(names)[i]
                = [commands[i] EXCEPT !.alone = commands[i].alone /\ commands[i].of \notin names]
<1> DEFINE New(c) == [c EXCEPT !.alone = c.alone /\ c.of \notin names]
<1>1. Len(commands) \in Nat /\ DOMAIN commands = 1 .. Len(commands) OBVIOUS
<1>2. \A c \in Commands : New(c) \in Commands /\ New(c).kind = c.kind BY DEF Commands
<1>3. Disturbed(names) = [i \in 1 .. Len(commands) |-> New(commands[i])]
  BY <1>1 DEF Disturbed
<1>4. \A i \in 1 .. Len(commands) : commands[i] \in Commands BY <1>1
<1>5. \A i \in 1 .. Len(commands) :
        New(commands[i]) \in Commands /\ New(commands[i]).kind = commands[i].kind
  BY <1>2, <1>4
<1>6. commands \in Seq(NoScans) => \A i \in 1 .. Len(commands) : New(commands[i]) \in NoScans
  <2>1. ASSUME commands \in Seq(NoScans) PROVE \A i \in 1 .. Len(commands) : commands[i].kind # "scan"
    BY <1>1, <2>1 DEF NoScans
  <2> HIDE DEF New
  <2> QED BY <1>5, <2>1 DEF NoScans
<1>7. \A i \in DOMAIN commands : Disturbed(names)[i] = New(commands[i]) BY <1>1, <1>3
<1>8. DOMAIN Disturbed(names) = DOMAIN commands BY <1>1, <1>3
<1>9. /\ Disturbed(names) \in Seq(Commands) /\ Len(Disturbed(names)) = Len(commands)
      /\ commands \in Seq(NoScans) => Disturbed(names) \in Seq(NoScans)
  <2> HIDE DEF New
  <2> QED BY <1>1, <1>3, <1>5, <1>6
<1> QED BY <1>7, <1>8, <1>9

LEMMA Marked ==
  ASSUME AInv, Good(form'), ShownOK', AccountInv', NEW N \in SUBSET Names,
         UNCHANGED <<tokenVars, cfg, passwords, startup>>, file' \in Maps,
         troubled \cup N \subseteq troubled', troubled' \subseteq Names,
         \A m \in Names \ N : file'[m] = file[m],
         DOMAIN commands \subseteq DOMAIN commands',
         \A i \in DOMAIN commands : commands'[i] = Disturbed(N)[i],
         \A p \in DOMAIN commands' \ DOMAIN commands :
           Edits(commands'[p]) =>
             /\ EditInv(commands[p])'
             /\ \A q \in DOMAIN commands' \ {p} :
                  Edits(commands'[q]) => ~commands'[p].alone /\ ~commands'[q].alone
  PROVE  AInv'
<1>1. TokenInv' BY TokensSame DEF AInv
<1>2. UNCHANGED <<token, refreshes, login>> BY DEF tokenVars
<1>3. RecordsInv' BY Typed0, RecordsNext
<1>4. commands \in Seq(Commands) /\ troubled \subseteq Names BY Shown0, Typed0 DEF ShownOK
<1>5. \A i \in DOMAIN commands :
        commands'[i] = [commands[i] EXCEPT !.alone = commands[i].alone /\ commands[i].of \notin N]
  BY <1>4, DisturbedIs
<1>6. ASSUME NEW c \in Commands
      PROVE  LET d == [c EXCEPT !.alone = c.alone /\ c.of \notin N]
             IN  /\ d.kind = c.kind /\ d.of = c.of /\ d.entry = c.entry /\ d.flag = c.flag
                 /\ d.at = c.at /\ d.seen = c.seen /\ d.alone = (c.alone /\ c.of \notin N)
  BY DEF Commands
<1>7. \A i \in DOMAIN commands : commands[i] \in Commands BY <1>4
<1>8. ASSUME NEW i \in DOMAIN commands
      PROVE  /\ commands'[i].kind = commands[i].kind /\ commands'[i].of = commands[i].of
             /\ commands'[i].entry = commands[i].entry /\ commands'[i].flag = commands[i].flag
             /\ commands'[i].at = commands[i].at /\ commands'[i].seen = commands[i].seen
             /\ commands'[i].alone = (commands[i].alone /\ commands[i].of \notin N)
  <2>1. PICK c \in Commands : c = commands[i] BY <1>7
  <2>2. commands'[i] = [c EXCEPT !.alone = c.alone /\ c.of \notin N] BY <1>5, <2>1
  <2> QED BY <1>6, <2>1, <2>2
<1>9. \A m \in Names \ troubled' : m \notin troubled /\ file'[m] = file[m] OBVIOUS
<1>10. EditsInv'
  <2>1. ASSUME NEW i \in DOMAIN commands, Edits(commands'[i]) PROVE EditInv(commands[i])'
    <3>1. PICK c \in Commands : c = commands[i] BY <1>7
    <3>2. Edits(c) /\ EditInv(c) BY <1>8, <2>1, <3>1 DEF AInv, AccountsInv, EditsInv, Edits
    <3>3. PICK d \in Commands : d = commands'[i] BY <1>4, DisturbedIs
    <3>4. /\ d.kind = c.kind /\ d.of = c.of /\ d.entry = c.entry /\ d.flag = c.flag
          /\ d.at = c.at /\ d.seen = c.seen /\ d.alone = (c.alone /\ c.of \notin N)
      BY <1>8, <3>1, <3>3
    <3>5. c.of \in Names /\ c.alone \in BOOLEAN BY <3>2 DEF Commands, Edits
    <3>6. ~d.alone => d.of \in troubled' BY <3>2, <3>4, <3>5 DEF EditInv
    <3>7. d.alone => Progress(d)'
      <4>1. SUFFICES ASSUME d.alone PROVE Progress(d)' OBVIOUS
      <4>2. c.alone /\ c.of \notin N BY <3>4, <4>1
      <4>3. Progress(c) /\ file'[c.of] = file[c.of] BY <3>2, <3>5, <4>2 DEF EditInv
      <4> QED BY <1>2, <3>4, <4>3 DEF Progress, RefreshOf
    <3>8. d.at \in {"write", "end"} =>
            \A m \in Names \ troubled' : d.seen[m] = file'[m] \/ (d.at = "write" /\ m = d.of)
      BY <1>9, <3>2, <3>4 DEF EditInv
    <3>9. d.kind = "save" /\ d.flag /\ d.at \in {"read", "write"} =>
            d.of \in troubled' \/ file'[d.of] = NoEntry
      BY <3>2, <3>4, <3>5 DEF EditInv
    <3>10. EditInv(d)' BY <3>6, <3>7, <3>8, <3>9 DEF EditInv
    <3> QED BY <3>3, <3>10 DEF EditInv, Progress, RefreshOf
  <2>2. ASSUME NEW p \in DOMAIN commands', Edits(commands'[p]) PROVE EditInv(commands[p])'
    BY <2>1, <2>2
  <2>3. ASSUME NEW p \in DOMAIN commands', NEW q \in DOMAIN commands', p # q,
               Edits(commands'[p]), Edits(commands'[q])
        PROVE  ~commands'[p].alone
    <3>1. CASE p \notin DOMAIN commands \/ q \notin DOMAIN commands BY <2>3, <3>1
    <3>2. CASE p \in DOMAIN commands /\ q \in DOMAIN commands
      <4>1. Edits(commands[p]) /\ Edits(commands[q]) BY <1>8, <2>3, <3>2 DEF Edits
      <4>2. ~commands[p].alone BY <2>3, <3>2, <4>1 DEF AInv, AccountsInv, EditsInv
      <4> QED BY <1>8, <3>2, <4>2
    <3> QED BY <3>1, <3>2
  <2> QED BY <2>2, <2>3 DEF EditsInv, Edits
<1>11. ASSUME NEW n, NEW places PROVE SaveOf(n, places) => SaveOf(n, places)'
  BY <1>8 DEF SaveOf
<1>12. ASSUME NEW n, NEW places PROVE RemovalOf(n, places) => RemovalOf(n, places)'
  BY <1>8 DEF RemovalOf
<1>13. ListedInv' BY <1>9, <1>11 DEF AInv, AccountsInv, ListedInv
<1>14. NothingLeftBehind' BY <1>2, <1>9, <1>12 DEF AInv, AccountsInv, NothingLeftBehind
<1>15. NobodysInv' BY <1>2, <1>9, <1>12 DEF AInv, AccountsInv, NobodysInv, RefreshOf
<1> QED BY <1>1, <1>3, <1>10, <1>13, <1>14, <1>15 DEF AInv, AccountsInv

LEMMA EditFileStep ==
  ASSUME AInv, NEW n \in Names, NEW e \in Handwritten, EditFile(n, e) PROVE AInv'
<1>1. /\ file' = [file EXCEPT ![n] = e] /\ commands' = Disturbed({n})
      /\ troubled' = troubled \cup {n}
      /\ UNCHANGED <<formVars, tokenVars, screen, acct, cfg, startup, passwords, table>>
  BY DEF EditFile
<1>2. ShownOK /\ commands \in Seq(Commands) BY Shown0 DEF ShownOK
<1>3. /\ commands' \in Seq(Commands) /\ DOMAIN commands' = DOMAIN commands
      /\ commands \in Seq(NoScans) => commands' \in Seq(NoScans)
  BY <1>1, <1>2, DisturbedIs
<1>4. ShownOK' BY <1>1, <1>2, <1>3 DEF ShownOK
<1>5. Good(form') BY <1>1 DEF AInv, formVars
<1>6. AccountInv'
  BY <1>1, <1>3, AccountNext, StillNone DEF tokenVars
<1>7. e \in Entries \cup {NoEntry} BY AccountsAssumption DEF Entries
<1>8. file' \in Maps /\ \A m \in Names \ {n} : file'[m] = file[m]
  BY <1>1, <1>7, Typed0 DEF Maps
<1>9. troubled' \subseteq Names BY <1>1, Typed0
<1> QED BY <1>1, <1>3, <1>4, <1>5, <1>6, <1>8, <1>9, Marked

LEMMA Appended ==
  ASSUME NEW S, NEW s \in Seq(S), NEW c
  PROVE  /\ DOMAIN Append(s, c) = 1 .. Len(s) + 1 /\ Append(s, c)[Len(s) + 1] = c
         /\ \A i \in 1 .. Len(s) : Append(s, c)[i] = s[i]
OBVIOUS

LEMMA EditStarts ==
  ASSUME AInv, Good(form'), NEW c \in NoScans, Edits(c), c.at \in {"check", "read"},
         c.kind = "save" /\ c.flag => c.at = "check", StartEdit(c),
         UNCHANGED <<tokenVars, screen, acct, file, cfg, startup, passwords>>,
         table' \in Tables, table'.rows = table.rows, table'.cursor = table.cursor
  PROVE  AInv'
<1> DEFINE old == Disturbed(EditedNow)
<1>4. PICK d \in NoScans :
        /\ d = [c EXCEPT !.alone = EditedNow = {}] /\ d \in Commands
        /\ d.kind = c.kind /\ d.of = c.of /\ d.flag = c.flag
        /\ d.at = c.at /\ d.alone = (EditedNow = {}) /\ d.of \in Names
  <2>1. c \in Commands /\ c.kind # "scan" /\ c.kind # "list" BY DEF NoScans, Edits
  <2>2. PICK b \in BOOLEAN : b = (EditedNow = {}) OBVIOUS
  <2>3. c.of \in Names BY <2>1 DEF Commands
  <2>4. LET d == [c EXCEPT !.alone = b]
        IN  /\ d \in Commands /\ d.kind = c.kind /\ d.of = c.of /\ d.flag = c.flag
            /\ d.at = c.at /\ d.alone = b
    BY <2>1 DEF Commands
  <2> QED BY <2>1, <2>2, <2>3, <2>4 DEF NoScans
<1>1. commands' = Append(old, d)
      /\ troubled' = IF EditedNow = {} THEN troubled ELSE troubled \cup EditedNow \cup {c.of}
  BY <1>4 DEF StartEdit, Run
<1>2. ShownOK /\ commands \in Seq(Commands) BY Shown0 DEF ShownOK
<1>3. /\ old \in Seq(Commands) /\ Len(old) = Len(commands) /\ DOMAIN old = DOMAIN commands
      /\ commands \in Seq(NoScans) => old \in Seq(NoScans)
  BY <1>2, DisturbedIs
<1>5. EditedNow \subseteq Names BY <1>2 DEF EditedNow, Edits, Commands
<1> HIDE DEF old
<1>6. commands' \in Seq(Commands) /\ (commands \in Seq(NoScans) => commands' \in Seq(NoScans))
  BY <1>1, <1>3, <1>4, AppendIn
<1>7. /\ DOMAIN commands' = 1 .. Len(commands) + 1 /\ DOMAIN commands = 1 .. Len(commands)
      /\ Len(commands) \in Nat /\ commands'[Len(commands) + 1] = d
      /\ \A i \in DOMAIN commands : commands'[i] = old[i]
  <2>1. Len(commands) \in Nat /\ DOMAIN commands = 1 .. Len(commands) BY <1>2
  <2> QED BY <1>1, <1>3, <2>1, Appended
<1>8. ShownOK' BY <1>2, <1>6 DEF ShownOK
<1>9. AccountInv' BY <1>6, AccountNext, StillNone DEF tokenVars
<1>10. file' \in Maps /\ \A m \in Names \ EditedNow : file'[m] = file[m] BY Typed0
<1>11. troubled \cup EditedNow \subseteq troubled' /\ troubled' \subseteq Names
  <2>1. c.of \in Names BY <1>4
  <2>2. troubled \subseteq Names BY Typed0
  <2> QED BY <1>1, <1>5, <2>1, <2>2
<1>12. d.of \in troubled' \/ d.alone
  <2>1. CASE EditedNow = {} BY <1>4, <2>1
  <2>2. CASE EditedNow # {}
    <3>1. troubled' = troubled \cup EditedNow \cup {c.of} BY <1>1, <2>2
    <3> QED BY <1>4, <3>1
  <2> QED BY <2>1, <2>2
<1>13. EditInv(d)' BY <1>4, <1>12 DEF EditInv, Progress
<1>14. ASSUME NEW p \in DOMAIN commands' \ DOMAIN commands
       PROVE  /\ EditInv(commands[p])'
              /\ \A q \in DOMAIN commands' \ {p} :
                   Edits(commands'[q]) => ~commands'[p].alone /\ ~commands'[q].alone
  <2>1. commands'[p] = d /\ DOMAIN commands' \ {p} \subseteq DOMAIN commands BY <1>7
  <2>2. EditInv(commands[p])' BY <1>13, <2>1 DEF EditInv, Progress, RefreshOf
  <2>3. ASSUME NEW q \in DOMAIN commands, Edits(commands'[q]) PROVE ~d.alone /\ ~commands'[q].alone
    <3>1. commands'[q] = [commands[q] EXCEPT !.alone = commands[q].alone /\ commands[q].of \notin EditedNow]
      BY <1>2, <1>7, DisturbedIs DEF old
    <3>2. commands[q] \in Commands BY <1>2
    <3>3. Edits(commands[q]) BY <2>3, <3>1, <3>2 DEF Edits, Commands
    <3>4. commands[q].of \in EditedNow BY <3>3 DEF EditedNow
    <3> QED BY <1>4, <3>1, <3>2, <3>4 DEF Commands
  <2> QED BY <2>1, <2>2, <2>3
<1>15. \A i \in DOMAIN commands : commands'[i] = Disturbed(EditedNow)[i] BY <1>7 DEF old
<1>16. DOMAIN commands \subseteq DOMAIN commands' BY <1>7
<1> QED BY <1>5, <1>8, <1>9, <1>10, <1>11, <1>14, <1>15, <1>16, Marked

-----------------------------------------------------------------------------
\* Keys of the accounts screen.

LEMMA QuestionStep ==
  ASSUME AInv, NEW q \in {"none", "signout", "remove", "purge"}, Question(q),
         \/ UNCHANGED commands /\ UNCHANGED troubled
         \/ /\ table.cursor \in Names /\ Run(Command("signout", table.cursor), commands)
            /\ UNCHANGED troubled
         \/ table.cursor \in Names /\ StartEdit(Command("remove", table.cursor))
  PROVE  AInv'
<1>1. UNCHANGED <<formVars, tokenVars, screen, acct, file, cfg, passwords, startup>>
  BY DEF Question
<1>2. ShownOK /\ commands \in Seq(Commands) BY Shown0 DEF ShownOK
<1>3. table' = [table EXCEPT !.question = q] BY DEF Question
<1>4. table' \in Tables /\ table'.rows = table.rows /\ table'.cursor = table.cursor
  BY <1>2, <1>3 DEF ShownOK, Tables
<1>5. Good(form') BY <1>1 DEF AInv, formVars
<1>6. CASE UNCHANGED troubled /\ UNCHANGED commands
  <2>1. ShownOK' BY <1>1, <1>2, <1>4, <1>6 DEF ShownOK
  <2>2. RunOn(commands, commands', 0) BY <1>2, <1>6, KeptSame
  <2> QED BY <1>1, <1>5, <1>6, <2>1, <2>2, StillNone, CredentialsKept DEF diskVars
<1>7. CASE /\ UNCHANGED troubled
           /\ table.cursor \in Names /\ Run(Command("signout", table.cursor), commands)
  <2>1. PICK c \in NoScans : ~Edits(c) /\ c = Command("signout", table.cursor)
    BY <1>7, CommandIn DEF Kinds
  <2>2. commands' = Append(commands, c) /\ c \in Commands BY <1>7, <2>1 DEF Run, NoScans
  <2>3. commands' \in Seq(Commands) /\ (commands \in Seq(NoScans) => commands' \in Seq(NoScans))
    BY <1>2, <2>1, <2>2, AppendIn
  <2>4. RunOn(commands, commands', 0) BY <1>2, <2>1, <2>2, KeptSame, KeptAppend
  <2>5. ShownOK' BY <1>1, <1>2, <1>4, <2>3 DEF ShownOK
  <2> QED BY <1>1, <1>5, <1>7, <2>3, <2>4, <2>5, StillNone, CredentialsKept DEF diskVars
<1>8. CASE table.cursor \in Names /\ StartEdit(Command("remove", table.cursor))
  <2>1. PICK c \in NoScans : c = Command("remove", table.cursor)
    BY <1>8, CommandIn DEF Kinds
  <2>2. Edits(c) /\ c.at = "read" /\ c.kind = "remove" BY <2>1 DEF Command, Edits
  <2> QED BY <1>1, <1>4, <1>5, <1>8, <2>1, <2>2, EditStarts
<1> QED BY <1>6, <1>7, <1>8

LEMMA AnswerStep ==
  ASSUME AInv, NEW yes \in BOOLEAN, Answer(yes) PROVE AInv'
<1>1. CASE table.cursor = NoRow /\ Question("none") /\ NoCommand
  BY <1>1, QuestionStep DEF NoCommand
<1>2. CASE table.cursor # NoRow /\ AnswerFor(yes)
  <2>1. table.cursor \in Names BY <1>2, Shown0 DEF ShownOK, Tables
  <2>2. CASE \E q \in {"none", "purge"} : Question(q) /\ NoCommand
    BY <2>2, QuestionStep DEF NoCommand
  <2>3. CASE /\ Question("none") /\ Run(Command("signout", table.cursor), commands)
             /\ UNCHANGED troubled
    BY <2>1, <2>3, QuestionStep
  <2>4. CASE Question("none") /\ StartEdit(Command("remove", table.cursor))
    BY <2>1, <2>4, QuestionStep
  <2> QED BY <1>2, <2>2, <2>3, <2>4 DEF AnswerFor
<1> QED BY <1>1, <1>2 DEF Answer

\* Keys that open a form, with the account the form is for.
LEMMA FormOpened ==
  ASSUME AInv, NEW mode \in {"first", "add", "edit"}, NEW a, mode = "add" \/ a \in Sessions,
         OpenForm(mode, a), UNCHANGED <<tokenVars, diskVars, startup, table, commands>>,
         acct' = acct \/ acct' \in Sessions
  PROVE  AInv'
<1>1. Good(form') /\ screen' = "form" BY OpenFormGood
<1>2. ShownOK BY Shown0
<1>3. ShownOK' BY <1>1, <1>2 DEF ShownOK
<1>4. acct = NoAccount => screen' # "scan" /\ commands' \in Seq(NoScans) BY <1>1, StillNone
<1>5. RunOn(commands, commands', 0) BY <1>2, KeptSame DEF ShownOK
<1> QED BY <1>1, <1>3, <1>4, <1>5, CredentialsKept

LEMMA FormKeysOfAccounts ==
  ASSUME AInv, AddAccount \/ EditAccount \/ BackToForm PROVE AInv'
<1>1. CASE AddAccount BY <1>1, FormOpened DEF AddAccount
<1>2. CASE EditAccount
  <2>1. OnAccount /\ acct' = Row /\ OpenForm("edit", Row)
        /\ UNCHANGED <<tokenVars, diskVars, startup, table, commands>>
    BY <1>2 DEF EditAccount
  <2> QED BY <2>1, RowIn, FormOpened
<1>3. CASE BackToForm
  <2>1. acct \in Sessions BY <1>3, HasAccount DEF BackToForm
  <2> QED BY <1>3, <2>1, FormOpened DEF BackToForm
<1> QED BY <1>1, <1>2, <1>3

\* A scan starts, after a refresh or without one.
LEMMA ScanShown ==
  ASSUME NEW running \in Seq(Commands), NEW n \in Names, NEW able \in BOOLEAN,
         Scan(n, able, running)
  PROVE  /\ commands' \in Seq(Commands) /\ screen' = "scan"
         /\ \A s, gone : RunOn(s, running, gone) => RunOn(s, commands', gone)
<1>1. PICK c \in Commands : ~Edits(c) /\ c = [Command("scan", n) EXCEPT !.flag = able]
  BY CommandIn DEF Kinds
<1>2. commands' = Append(running, c) /\ screen' = "scan"
  BY <1>1 DEF Scan, Run
<1> QED BY <1>1, <1>2, AppendIn, KeptAppend

LEMMA StartScanStep ==
  ASSUME AInv, NEW a \in Sessions, StartScan(a), acct' \in Sessions,
         UNCHANGED <<formVars, diskVars, startup, table>>
  PROVE  AInv'
<1>1. ShownOK /\ commands \in Seq(Commands) BY Shown0 DEF ShownOK
<1>2. Good(form') BY DEF AInv, formVars
<1>3. a.name \in Names BY SessionsNamed
<1>4. CASE /\ screen' = "scan" /\ UNCHANGED commands
           /\ \E w \in Workers : StartRefresh(w, a.name)
  <2>1. PICK w \in Workers : StartRefresh(w, a.name) BY <1>4
  <2>2. TokenInv' BY <1>3, <2>1, StartRefreshStep DEF AInv
  <2>3. /\ UNCHANGED <<token, login>> /\ token[a.name] # NoFile
        /\ refreshes' = [refreshes EXCEPT ![w] = [of |-> a.name, at |-> "sent", had |-> token[a.name], got |-> Blank]]
    BY <2>1 DEF StartRefresh, Goes
  <2>4. \A v \in Workers : refreshes'[v].of = refreshes[v].of \/ refreshes'[v].of = a.name
    BY <2>3 DEF AInv, TokenInv, TokenRecords
  <2>5. NothingNew BY <2>3, <2>4 DEF NothingNew, RefreshOf
  <2>6. ShownOK' BY <1>1, <1>4 DEF ShownOK
  <2>7. AccountInv' BY SessionsNamed DEF AccountInv, Sessions
  <2>8. UNCHANGED <<file, cfg, troubled, startup>> /\ passwords' \subseteq passwords
    BY DEF diskVars
  <2>9. RunOn(commands, commands', 0) BY <1>1, <1>4, KeptSame
  <2> QED BY <1>2, <2>2, <2>5, <2>6, <2>7, <2>8, <2>9, DiskKept
<1>5. CASE Scan(a.name, HasCredentials(a), commands) /\ UNCHANGED tokenVars
  <2>1. HasCredentials(a) \in BOOLEAN
    <3>1. CASE a.entry.oauth BY <3>1 DEF HasCredentials
    <3>2. CASE ~a.entry.oauth BY <3>2 DEF HasCredentials
    <3> QED BY <3>1, <3>2
  <2>2. /\ commands' \in Seq(Commands) /\ screen' = "scan"
        /\ RunOn(commands, commands, 0) => RunOn(commands, commands', 0)
    BY <1>1, <1>3, <1>5, <2>1, ScanShown
  <2>3. ShownOK' BY <1>1, <2>2 DEF ShownOK
  <2>4. RunOn(commands, commands', 0) BY <1>1, <2>2, KeptSame
  <2> QED BY <1>2, <1>5, <2>3, <2>4, CredentialsKept
<1> QED BY <1>4, <1>5 DEF StartScan

LEMMA UseAccountStep == ASSUME AInv, UseAccount PROVE AInv'
<1>1. Row \in Sessions /\ acct' = Row BY RowIn DEF UseAccount
<1>2. CASE StartScan(Row) /\ UNCHANGED <<formVars, diskVars, startup, table>>
  BY <1>1, <1>2, StartScanStep
<1>3. CASE /\ OpenForm("edit", Row)
           /\ UNCHANGED <<tokenVars, diskVars, startup, table, commands>>
  BY <1>1, <1>3, FormOpened
<1> QED BY <1>2, <1>3 DEF UseAccount

LEMMA RetryStep == ASSUME AInv, Retry PROVE AInv'
<1>1. acct \in Sessions BY HasAccount DEF Retry
<1> QED BY <1>1, StartScanStep DEF Retry

LEMMA SignOutKeyStep == ASSUME AInv, SignOutKey PROVE AInv'
<1>1. ShownOK /\ commands \in Seq(Commands) BY Shown0 DEF ShownOK
<1>2. acct \in Sessions BY DEF SignOutKey, AInv, AccountsInv, AccountInv, Sessions
<1>3. PICK c \in Commands : ~Edits(c) /\ c = Command("formout", acct.name)
  BY <1>2, SessionsNamed, CommandIn DEF Kinds
<1>4. commands' = Append(commands, c)
      /\ UNCHANGED <<formVars, tokenVars, screen, acct, diskVars, startup, table>>
  BY <1>3 DEF SignOutKey, Run
<1>5. commands' \in Seq(Commands) BY <1>1, <1>3, <1>4, AppendIn
<1>6. ShownOK' BY <1>1, <1>4, <1>5 DEF ShownOK
<1>7. Good(form') BY <1>4 DEF AInv, formVars
<1>8. RunOn(commands, commands', 0) BY <1>1, <1>3, <1>4, KeptSame, KeptAppend
<1> QED BY <1>2, <1>4, <1>6, <1>7, <1>8, CredentialsKept

\* Steps of the screens that go to the accounts, or leave.
LEMMA AccountsShown ==
  ASSUME AInv, UNCHANGED <<formVars, tokenVars, acct, diskVars, startup>>,
         OpenAccounts(commands)
  PROVE  AInv'
<1>1. commands \in Seq(Commands) BY Shown0 DEF ShownOK
<1>2. /\ ShownOK' /\ screen' = "accounts"
      /\ commands \in Seq(NoScans) => commands' \in Seq(NoScans)
      /\ RunOn(commands, commands, 0) => RunOn(commands, commands', 0)
  BY <1>1, OpenAccountsShown
<1>3. Good(form') BY DEF AInv, formVars
<1>4. acct = NoAccount => screen' # "scan" /\ commands' \in Seq(NoScans) BY <1>2, StillNone
<1>5. RunOn(commands, commands', 0) BY <1>1, <1>2, KeptSame
<1> QED BY <1>2, <1>3, <1>4, <1>5, CredentialsKept

LEMMA ScreenLeft ==
  ASSUME AInv, UNCHANGED <<formVars, tokenVars, acct, diskVars, startup, table, commands>>,
         screen' \in {screen, "quit", "review"}
  PROVE  AInv'
<1>1. ShownOK BY Shown0
<1>2. ShownOK' BY <1>1 DEF ShownOK
<1>3. Good(form') BY DEF AInv, formVars
<1>4. acct = NoAccount => screen' # "scan" /\ commands' \in Seq(NoScans) BY StillNone
<1>5. RunOn(commands, commands', 0) BY <1>1, KeptSame DEF ShownOK
<1> QED BY <1>2, <1>3, <1>4, <1>5, CredentialsKept

LEMMA LeaveFormStep == ASSUME AInv, LeaveForm PROVE AInv'
<1>1. CASE /\ OpenAccounts(commands)
           /\ UNCHANGED <<formVars, tokenVars, acct, diskVars, startup>>
  BY <1>1, AccountsShown
<1>2. CASE /\ screen' = "quit"
           /\ UNCHANGED <<formVars, tokenVars, acct, diskVars, startup, table, commands>>
  BY <1>2, ScreenLeft
<1> QED BY <1>1, <1>2 DEF LeaveForm

LEMMA AccountsKeyStep == ASSUME AInv, AccountsKey PROVE AInv'
<1>1. CASE \E q \in {"signout", "remove"} : AskAbout(q)
  <2>1. PICK q \in {"signout", "remove"} : Question(q) /\ NoCommand
    BY <1>1 DEF AskAbout
  <2> QED BY <2>1, QuestionStep DEF NoCommand
<1>2. CASE \E yes \in BOOLEAN : Answer(yes) BY <1>2, AnswerStep
<1>3. CASE AddAccount \/ EditAccount \/ BackToForm BY <1>3, FormKeysOfAccounts
<1> QED BY <1>1, <1>2, <1>3, MoveRowStep, UseAccountStep, RetryStep, LeaveFormStep, SignOutKeyStep
      DEF AccountsKey

\* The form's own keys and its lookups.
LEMMA FormStepGood ==
  ASSUME AInv, Good(form'), (Saves /\ StartEdit(Save(form'))) \/ (~Saves /\ NoCommand),
         UNCHANGED <<tokenVars, screen, acct, file, cfg, startup, passwords, table>>
  PROVE  AInv'
<1>1. ShownOK /\ commands \in Seq(Commands) BY Shown0 DEF ShownOK
<1>2. CASE Saves /\ StartEdit(Save(form'))
  <2>1. PICK c \in NoScans :
          c = Save(form') /\ c.kind = "save" /\ c.at \in {"check", "read"} /\ (c.flag => c.at = "check")
    BY <1>2, SaveIn DEF Saves
  <2>2. Edits(c) BY <2>1 DEF Edits
  <2> QED BY <1>1, <1>2, <2>1, <2>2, EditStarts DEF ShownOK
<1>3. CASE NoCommand
  <2>1. ShownOK' BY <1>1, <1>3 DEF ShownOK, NoCommand
  <2>2. RunOn(commands, commands', 0) BY <1>1, <1>3, KeptSame DEF NoCommand
  <2> QED BY <1>3, <2>1, <2>2, StillNone, CredentialsKept DEF NoCommand, diskVars
<1> QED BY <1>2, <1>3

LEMMA FormKeysStep == ASSUME AInv, FormKeys PROVE AInv'
<1>1. Good(form') BY FormKeyGood DEF FormKeys, FormStep, AInv
<1> QED BY <1>1, FormStepGood DEF FormKeys, FormStep

LEMMA LookupAnsweredStep == ASSUME AInv, LookupAnswered PROVE AInv'
<1>1. Good(form') BY AnswersGood DEF LookupAnswered, FormStep, AInv
<1> QED BY <1>1, FormStepGood DEF LookupAnswered, FormStep

-----------------------------------------------------------------------------
\* Commands that end, but for the edits.

LEMMA ListEndsStep ==
  ASSUME AInv, NEW i \in DOMAIN commands, ListEnds(i) PROVE AInv'
<1>1. ShownOK /\ commands \in Seq(Commands) BY Shown0 DEF ShownOK
<1>2. commands' = Done(i) /\ UNCHANGED <<formVars, tokenVars, screen, acct, diskVars, startup>>
  BY DEF ListEnds
<1>3. commands' \in Seq(Commands) /\ (commands \in Seq(NoScans) => commands' \in Seq(NoScans))
  BY <1>1, <1>2, DoneIn
<1>4. cfg \in Maps BY Typed0
<1>5. table' \in Tables /\ (table'.cursor # NoRow => table'.rows[table'.cursor] # NoEntry)
  <2>1. CASE UNCHANGED table BY <1>1, <2>1 DEF ShownOK
  <2>2. ASSUME NEW n, n = NoRow \/ (n \in Names /\ cfg[n] # NoEntry),
               table' = [table EXCEPT !.rows = cfg, !.cursor = n]
        PROVE  table' \in Tables /\ (table'.cursor # NoRow => table'.rows[table'.cursor] # NoEntry)
    <3>1. table' \in Tables /\ table'.rows = cfg /\ table'.cursor = n
      BY <1>1, <1>4, <2>2 DEF ShownOK, Tables, Maps
    <3> QED BY <2>2, <3>1
  <2>3. UNCHANGED table
        \/ \E n : /\ n = NoRow \/ (n \in Names /\ cfg[n] # NoEntry)
                  /\ table' = [table EXCEPT !.rows = cfg, !.cursor = n]
    BY DEF ListEnds, Present
  <2> QED BY <2>1, <2>2, <2>3
<1>6. ShownOK' BY <1>1, <1>2, <1>3, <1>5 DEF ShownOK
<1>7. Good(form') BY <1>2 DEF AInv, formVars
<1>8. RunOn(commands, commands', 0)
  <2>1. ~Edits(commands[i]) BY DEF ListEnds, Edits
  <2> QED BY <1>1, <1>2, <2>1, KeptDone DEF Done
<1> QED BY <1>2, <1>3, <1>6, <1>7, <1>8, StillNone, CredentialsKept

LEMMA ChangedShown ==
  ASSUME AInv, NEW i \in DOMAIN commands, NEW ok \in BOOLEAN, Changed(i, ok)
  PROVE  /\ ShownOK' /\ Good(form') /\ RunOn(commands, commands', i)
         /\ ~Edits(commands[i]) => RunOn(commands, commands', 0)
         /\ acct = NoAccount => screen' # "scan" /\ commands' \in Seq(NoScans)
<1>1. ShownOK /\ commands \in Seq(Commands) BY Shown0 DEF ShownOK
<1>2. Done(i) \in Seq(Commands) /\ (commands \in Seq(NoScans) => Done(i) \in Seq(NoScans))
  BY <1>1, DoneIn
<1>3. PICK c \in NoScans : c \in Commands /\ ~Edits(c) /\ c = Command("list", NoRow)
  BY CommandIn DEF Kinds
<1>4. /\ commands' = Done(i) \/ commands' = Append(Done(i), c)
      /\ UNCHANGED <<formVars, screen, acct, startup, table>>
  BY <1>3 DEF Changed
<1>5. commands' \in Seq(Commands) /\ (commands \in Seq(NoScans) => commands' \in Seq(NoScans))
  BY <1>2, <1>3, <1>4, AppendIn
<1>6. ShownOK' BY <1>1, <1>4, <1>5 DEF ShownOK
<1>7. Good(form') BY <1>4 DEF AInv, formVars
<1>8. RunOn(commands, Done(i), i) /\ (~Edits(commands[i]) => RunOn(commands, Done(i), 0))
  BY <1>1, KeptDone DEF Done
<1>9. \A gone : RunOn(commands, Done(i), gone) => RunOn(commands, commands', gone)
  BY <1>2, <1>3, <1>4, KeptAppend
<1> QED BY <1>4, <1>5, <1>6, <1>7, <1>8, <1>9, StillNone

LEMMA OfName ==
  ASSUME AInv, NEW i \in DOMAIN commands, commands[i].kind # "list"
  PROVE  commands[i].of \in Names
BY DEF AInv, AccountsInv, RecordsInv, AccountsTypeOK

LEMMA SignOutEndsStep ==
  ASSUME AInv, NEW i \in DOMAIN commands, SignOutEnds(i) PROVE AInv'
<1> DEFINE n == commands[i].of
<1>1. PICK tokenGone \in BOOLEAN, passwordGone \in BOOLEAN :
        /\ token' = IF tokenGone THEN Deleted(n) ELSE token
        /\ passwords' = IF passwordGone THEN passwords \ {n} ELSE passwords
        /\ Changed(i, tokenGone /\ passwordGone /\ commands[i].kind = "signout")
  BY DEF SignOutEnds
<1>2. n \in Names /\ ~Edits(commands[i]) BY OfName DEF SignOutEnds, Edits
<1>3. UNCHANGED <<accepted, issued, spoiled, refreshes, login, file, cfg, troubled>>
  BY <1>1 DEF SignOutEnds, Changed
<1>4. /\ ShownOK' /\ Good(form') /\ RunOn(commands, commands', 0)
      /\ acct = NoAccount => screen' # "scan" /\ commands' \in Seq(NoScans)
  BY <1>1, <1>2, ChangedShown
<1>5. UNCHANGED <<acct, startup>> BY <1>1 DEF Changed
<1> HIDE DEF n
<1>6. TokenInv'
  BY <1>1, <1>2, <1>3, DeletedStep, TokensSame DEF AInv, tokenVars
<1>7. AccountInv' BY <1>3, <1>4, <1>5, AccountNext
<1>8. \A m \in Names : token'[m] \in {token[m], NoFile}
  BY <1>1, <1>2 DEF Deleted, AInv, TokenInv, TokenRecords
<1>9. NothingNew BY <1>3, <1>8 DEF NothingNew, RefreshOf
<1>10. passwords' \subseteq passwords BY <1>1
<1> QED BY <1>3, <1>4, <1>5, <1>6, <1>7, <1>9, <1>10, DiskKept

-----------------------------------------------------------------------------
\* An edit of the file goes on. Two of them under way are not alone, so that
\* nothing is said of their names.

LEMMA EditTyped ==
  ASSUME AInv, NEW i \in DOMAIN commands, Edits(commands[i])
  PROVE  /\ commands[i] \in Commands /\ commands[i].of \in Names
         /\ commands[i].entry \in Entries \cup {NoEntry} /\ commands[i].seen \in Maps
         /\ commands[i].kind = "save" => commands[i].entry \in Entries /\ commands[i].entry # NoEntry
         /\ commands[i].kind = "remove" => commands[i].entry = NoEntry
         /\ EditInv(commands[i])
<1>1. commands[i] \in Commands BY Shown0 DEF ShownOK
<1>2. NoEntry \notin Entries BY AccountsAssumption DEF Entries
<1> QED BY <1>1, <1>2 DEF Commands, Edits, Maps, AInv, AccountsInv, EditsInv

\* The other edits, when one is under way.
LEMMA Others ==
  ASSUME AInv, NEW i \in DOMAIN commands, Edits(commands[i]),
         NEW j \in DOMAIN commands \ {i}, Edits(commands[j])
  PROVE  /\ ~commands[i].alone /\ ~commands[j].alone
         /\ commands[i].of \in troubled /\ commands[j].of \in troubled
<1>1. ~commands[i].alone /\ ~commands[j].alone BY DEF AInv, AccountsInv, EditsInv
<1>2. EditInv(commands[i]) /\ EditInv(commands[j]) BY EditTyped
<1> QED BY <1>1, <1>2 DEF EditInv

\* The step of an edit: what has to be shown of its own name and its own facts.
LEMMA Onwards ==
  ASSUME AInv, NEW i \in DOMAIN commands, Edits(commands[i]), NEW c \in Commands, Onward(i, c),
         TokenInv', UNCHANGED <<refreshes, login>>, file' \in Maps, passwords' \subseteq Names,
         c.kind = commands[i].kind, c.of = commands[i].of, c.alone => commands[i].alone,
         troubled' \in {troubled, troubled \cup {c.of}},
         \A m \in Names \ troubled : m # c.of => file'[m] = file[m],
         \A m \in Names \ {c.of} : token'[m] = token[m] /\ (m \in passwords' => m \in passwords),
         EditInv(c)',
         c.of \notin troubled' =>
           /\ file'[c.of] # NoEntry => cfg[c.of] # NoEntry
                                       \/ (c.kind = "save" /\ c.at \in {"password", "load", "end"})
           /\ file'[c.of] = NoEntry =>
                /\ c.of \in passwords' => c.kind = "remove" /\ c.at = "password"
                /\ token'[c.of] # NoFile \/ RefreshOf(c.of) \/ login.of = c.of
                     => c.kind = "remove" /\ c.at \in {"password", "token"}
  PROVE  AInv'
<1>1. ShownOK /\ commands \in Seq(Commands) BY Shown0 DEF ShownOK
<1>2. /\ commands' = [commands EXCEPT ![i] = c]
      /\ UNCHANGED <<formVars, screen, acct, cfg, startup, table>>
  BY DEF Onward
<1>3. Edits(c) /\ c.of \in Names /\ c.kind # "scan" BY EditTyped DEF Edits
<1>4. /\ commands' \in Seq(Commands) /\ DOMAIN commands' = DOMAIN commands
      /\ commands'[i] = c /\ \A j \in DOMAIN commands \ {i} : commands'[j] = commands[j]
  BY <1>1, <1>2
<1>5. ASSUME commands \in Seq(NoScans) PROVE commands' \in Seq(NoScans)
  BY <1>2, <1>3, <1>5 DEF NoScans
<1>6. ShownOK' BY <1>1, <1>2, <1>4 DEF ShownOK
<1>7. Good(form') BY <1>2 DEF AInv, formVars
<1>8. AccountInv' BY <1>2, <1>5, AccountNext, StillNone
<1>9. cfg' \in Maps /\ troubled' \subseteq Names BY <1>2, <1>3, Typed0
<1>10. RecordsInv' BY <1>2, <1>6, <1>7, <1>9, RecordsNext
<1>11. ASSUME NEW j \in DOMAIN commands \ {i}, Edits(commands[j])
       PROVE  EditInv(commands[j])' /\ ~commands'[j].alone /\ ~c.alone
  <2>1. PICK d \in Commands : d = commands[j] BY <1>1
  <2>2. Edits(d) /\ EditInv(d) /\ ~d.alone /\ d.of \in troubled /\ c.of \in troubled /\ ~c.alone
    BY <1>11, <2>1, EditTyped, Others
  <2>3. troubled' = troubled BY <2>2
  <2>4. \A m \in Names \ troubled : file'[m] = file[m] BY <2>2
  <2>5. EditInv(d)' BY <2>2, <2>3, <2>4 DEF EditInv
  <2>6. commands'[j] = d BY <1>4, <2>1
  <2> QED BY <2>2, <2>5, <2>6 DEF EditInv, Progress, RefreshOf
<1>12. EditsInv'
  <2>1. EditInv(commands[i])' BY <1>4 DEF EditInv, Progress, RefreshOf
  <2>2. ASSUME NEW j \in DOMAIN commands', Edits(commands'[j]) PROVE EditInv(commands[j])'
    BY <1>4, <1>11, <2>1, <2>2
  <2>3. ASSUME NEW p \in DOMAIN commands', NEW q \in DOMAIN commands', p # q,
               Edits(commands'[p]), Edits(commands'[q])
        PROVE  ~commands'[p].alone
    <3>1. CASE p = i
      <4>1. q \in DOMAIN commands \ {i} /\ Edits(commands[q]) BY <1>4, <2>3, <3>1
      <4> QED BY <1>4, <1>11, <3>1, <4>1
    <3>2. CASE p # i
      <4>1. p \in DOMAIN commands \ {i} /\ Edits(commands[p]) BY <1>4, <2>3, <3>2
      <4> QED BY <1>11, <4>1
    <3> QED BY <3>1, <3>2
  <2> QED BY <2>2, <2>3 DEF EditsInv, Edits
<1>13. ASSUME NEW n, NEW places, n # c.of PROVE SaveOf(n, places) => SaveOf(n, places)'
  BY <1>4, <1>13 DEF SaveOf
<1>14. ASSUME NEW n, NEW places, n # c.of PROVE RemovalOf(n, places) => RemovalOf(n, places)'
  BY <1>4, <1>14 DEF RemovalOf
<1>15. ASSUME NEW places, c.kind = "save", c.at \in places PROVE SaveOf(c.of, places)'
  BY <1>4, <1>15 DEF SaveOf
<1>16. ASSUME NEW places, c.kind = "remove", c.at \in places PROVE RemovalOf(c.of, places)'
  BY <1>4, <1>16 DEF RemovalOf
<1>17. \A m \in Names \ troubled' : m \notin troubled BY <1>3
<1>18. ListedInv'
  <2>1. ASSUME NEW n \in Names \ troubled', file'[n] # NoEntry
        PROVE  cfg'[n] # NoEntry \/ SaveOf(n, {"password", "load", "end"})'
    <3>1. CASE n = c.of BY <1>2, <1>15, <2>1, <3>1
    <3>2. CASE n # c.of
      BY <1>2, <1>13, <1>17, <2>1, <3>2 DEF AInv, AccountsInv, ListedInv
    <3> QED BY <3>1, <3>2
  <2> QED BY <2>1 DEF ListedInv
<1>19. ASSUME NEW n \in Names \ troubled', file'[n] = NoEntry
       PROVE  /\ n \in passwords' => RemovalOf(n, {"password"})'
              /\ token'[n] # NoFile \/ RefreshOf(n) \/ login.of = n
                   => RemovalOf(n, {"password", "token"})'
  <2>1. CASE n = c.of
    <3>1. n \in passwords' => RemovalOf(n, {"password"})' BY <1>16, <1>19, <2>1
    <3>2. token'[n] # NoFile \/ RefreshOf(n) \/ login.of = n => RemovalOf(n, {"password", "token"})'
      BY <1>16, <1>19, <2>1
    <3> QED BY <3>1, <3>2
  <2>2. CASE n # c.of
    <3>1. n \notin troubled /\ file[n] = NoEntry BY <1>17, <1>19, <2>2
    <3>2. /\ n \in passwords => RemovalOf(n, {"password"})
          /\ token[n] # NoFile \/ RefreshOf(n) \/ login.of = n => RemovalOf(n, {"password", "token"})
      BY <3>1 DEF AInv, AccountsInv, NothingLeftBehind, NobodysInv
    <3> QED BY <1>14, <2>2, <3>2
  <2> QED BY <2>1, <2>2
<1>20. NothingLeftBehind' BY <1>19 DEF NothingLeftBehind
<1>21. NobodysInv' BY <1>19 DEF NobodysInv, RefreshOf
<1> QED BY <1>7, <1>10, <1>8, <1>12, <1>18, <1>20, <1>21 DEF AInv, AccountsInv

\* A name that is not troubled is that of one edit at most, which runs alone.
LEMMA Own ==
  ASSUME AInv, NEW i \in DOMAIN commands, Edits(commands[i]), commands[i].of \notin troubled
  PROVE  /\ commands[i].alone /\ Progress(commands[i])
         /\ file[commands[i].of] # NoEntry =>
              \/ cfg[commands[i].of] # NoEntry
              \/ commands[i].kind = "save" /\ commands[i].at \in {"password", "load", "end"}
         /\ file[commands[i].of] = NoEntry =>
              /\ commands[i].of \in passwords => commands[i].kind = "remove" /\ commands[i].at = "password"
              /\ token[commands[i].of] # NoFile \/ RefreshOf(commands[i].of) \/ login.of = commands[i].of
                   => commands[i].kind = "remove" /\ commands[i].at \in {"password", "token"}
<1> DEFINE n == commands[i].of
<1>1. n \in Names /\ EditInv(commands[i]) BY EditTyped
<1>2. commands[i].alone /\ Progress(commands[i]) BY <1>1 DEF EditInv
<1>3. \A j \in DOMAIN commands : Edits(commands[j]) => j = i BY Others
<1>4. ASSUME NEW places
      PROVE  /\ SaveOf(n, places) => commands[i].kind = "save" /\ commands[i].at \in places
             /\ RemovalOf(n, places) => commands[i].kind = "remove" /\ commands[i].at \in places
  <2>1. ASSUME SaveOf(n, places) PROVE commands[i].kind = "save" /\ commands[i].at \in places
    <3>1. PICK j \in DOMAIN commands : commands[j].kind = "save" /\ commands[j].at \in places
      BY <2>1 DEF SaveOf
    <3>2. j = i BY <1>3, <3>1 DEF Edits
    <3> QED BY <3>1, <3>2
  <2>2. ASSUME RemovalOf(n, places) PROVE commands[i].kind = "remove" /\ commands[i].at \in places
    <3>1. PICK j \in DOMAIN commands : commands[j].kind = "remove" /\ commands[j].at \in places
      BY <2>2 DEF RemovalOf
    <3>2. j = i BY <1>3, <3>1 DEF Edits
    <3> QED BY <3>1, <3>2
  <2> QED BY <2>1, <2>2
<1>5. file[n] # NoEntry => cfg[n] # NoEntry \/ SaveOf(n, {"password", "load", "end"})
  BY <1>1 DEF AInv, AccountsInv, ListedInv
<1>6. file[n] = NoEntry =>
        /\ n \in passwords => RemovalOf(n, {"password"})
        /\ token[n] # NoFile \/ RefreshOf(n) \/ login.of = n => RemovalOf(n, {"password", "token"})
  BY <1>1 DEF AInv, AccountsInv, NothingLeftBehind, NobodysInv
<1> HIDE DEF n
<1>7. /\ file[n] # NoEntry =>
           \/ cfg[n] # NoEntry
           \/ commands[i].kind = "save" /\ commands[i].at \in {"password", "load", "end"}
      /\ file[n] = NoEntry =>
           /\ n \in passwords => commands[i].kind = "remove" /\ commands[i].at \in {"password"}
           /\ token[n] # NoFile \/ RefreshOf(n) \/ login.of = n
                => commands[i].kind = "remove" /\ commands[i].at \in {"password", "token"}
  BY <1>4, <1>5, <1>6
<1> QED BY <1>2, <1>7 DEF n

\* What a step makes of the command.
Moved(c, at, seen, alone) == [c EXCEPT !.at = at, !.seen = seen, !.alone = alone]

LEMMA NextPlace ==
  ASSUME AInv, NEW i \in DOMAIN commands, Edits(commands[i]), NEW at \in Places, NEW seen \in Maps,
         NEW alone \in BOOLEAN,
         commands[i].kind = "save" => at # "token", commands[i].kind = "remove" => at # "check"
  PROVE  LET c == Moved(commands[i], at, seen, alone)
         IN  /\ c \in Commands /\ c.kind = commands[i].kind /\ c.of = commands[i].of
             /\ c.entry = commands[i].entry /\ c.flag = commands[i].flag
             /\ c.at = at /\ c.seen = seen /\ c.alone = alone
BY EditTyped DEF Commands, Maps, Moved

LEMMA PlaceOnly ==
  ASSUME AInv, NEW i \in DOMAIN commands, Edits(commands[i]), NEW at
  PROVE  [commands[i] EXCEPT !.at = at]
           = Moved(commands[i], at, commands[i].seen, commands[i].alone)
BY EditTyped DEF Commands, Moved

LEMMA AloneIn ==
  ASSUME AInv, NEW i \in DOMAIN commands, Edits(commands[i])
  PROVE  commands[i].alone \in BOOLEAN /\ commands[i].seen \in Maps /\ commands[i].at \in Places
BY EditTyped DEF Commands, Maps

LEMMA NameCheckedStep ==
  ASSUME AInv, NEW i \in DOMAIN commands, Is(i, "check"), ~Refused(commands[i]), Proceeds(i, "read"),
         UNCHANGED <<tokenVars, file, passwords, troubled>>
  PROVE  AInv'
<1>1. Edits(commands[i]) /\ commands[i].at = "check" BY DEF Is
<1>2. commands[i].kind = "save" BY <1>1, EditTyped DEF Commands, Edits
<1>3. PICK c \in Commands :
        /\ c = [commands[i] EXCEPT !.at = "read"] /\ c.kind = "save" /\ c.of = commands[i].of
        /\ c.at = "read" /\ c.alone = commands[i].alone
  <2>1. "read" \in Places BY DEF Places
  <2>2. [commands[i] EXCEPT !.at = "read"] = Moved(commands[i], "read", commands[i].seen, commands[i].alone)
    BY <1>1, PlaceOnly
  <2> QED BY <1>1, <1>2, <2>1, <2>2, NextPlace, AloneIn
<1>4. Onward(i, c) BY <1>3 DEF Proceeds
<1>5. UNCHANGED <<token, refreshes, login>> /\ TokenInv' BY TokensSame DEF AInv, tokenVars
<1>6. c.of \notin troubled =>
        /\ file[c.of] # NoEntry => cfg[c.of] # NoEntry
        /\ file[c.of] = NoEntry => c.of \notin passwords /\ token[c.of] = NoFile
                                   /\ ~RefreshOf(c.of) /\ login.of # c.of
  BY <1>1, <1>2, <1>3, Own
<1>7. cfg[c.of] = NoEntry BY <1>3 DEF Refused
<1>8. EditInv(c)'
  <2>1. ~c.alone => c.of \in troubled BY <1>1, <1>3, EditTyped DEF EditInv
  <2> QED BY <1>3, <1>6, <1>7, <2>1 DEF EditInv, Progress
<1>9. file' \in Maps /\ passwords' \subseteq Names BY Typed0
<1> QED BY <1>1, <1>2, <1>3, <1>4, <1>5, <1>6, <1>8, <1>9, Onwards

LEMMA FileReadStep ==
  ASSUME AInv, NEW i \in DOMAIN commands, FileRead(i) PROVE AInv'
<1>1. Edits(commands[i]) /\ commands[i].at = "read" BY DEF FileRead, Is
<1>2. PICK c \in Commands :
        /\ c = [commands[i] EXCEPT !.at = "write", !.seen = file] /\ c.kind = commands[i].kind
        /\ c.of = commands[i].of /\ c.entry = commands[i].entry /\ c.flag = commands[i].flag
        /\ c.at = "write" /\ c.seen = file /\ c.alone = commands[i].alone
  <2>1. [commands[i] EXCEPT !.at = "write", !.seen = file]
          = Moved(commands[i], "write", file, commands[i].alone)
    BY <1>1, EditTyped DEF Commands, Moved
  <2>3. "write" \in Places BY DEF Places
  <2> QED BY <1>1, <2>1, <2>3, NextPlace, AloneIn, Typed0
<1>3. Onward(i, c) /\ UNCHANGED <<tokenVars, file, passwords, troubled>>
  BY <1>2 DEF FileRead
<1>4. UNCHANGED <<token, refreshes, login>> /\ TokenInv' BY <1>3, TokensSame DEF AInv, tokenVars
<1>5. c.of \notin troubled =>
        /\ file[c.of] # NoEntry => cfg[c.of] # NoEntry
        /\ file[c.of] = NoEntry => c.of \notin passwords /\ token[c.of] = NoFile
                                   /\ ~RefreshOf(c.of) /\ login.of # c.of
  BY <1>1, <1>2, Own
<1>6. EditInv(c)'
  <2>1. EditInv(commands[i]) BY <1>1, EditTyped
  <2>2. /\ ~c.alone => c.of \in troubled
        /\ c.kind = "save" /\ c.flag => c.of \in troubled \/ file[c.of] = NoEntry
    BY <1>1, <1>2, <2>1 DEF EditInv
  <2> QED BY <1>2, <1>3, <2>2 DEF EditInv, Progress
<1>7. file' \in Maps /\ passwords' \subseteq Names BY <1>3, Typed0
<1> QED BY <1>1, <1>2, <1>3, <1>4, <1>5, <1>6, <1>7, Onwards

LEMMA FileWrittenStep ==
  ASSUME AInv, NEW i \in DOMAIN commands, FileWritten(i) PROVE AInv'
<1>1. Edits(commands[i]) /\ commands[i].at = "write" BY DEF FileWritten, Is
<1>2. PICK c \in Commands :
        /\ c = [commands[i] EXCEPT !.at = "password", !.seen = NoEntries] /\ c.kind = commands[i].kind
        /\ c.of = commands[i].of /\ c.entry = commands[i].entry
        /\ c.at = "password" /\ c.alone = commands[i].alone
  <2>1. [commands[i] EXCEPT !.at = "password", !.seen = NoEntries]
          = Moved(commands[i], "password", NoEntries, commands[i].alone)
    BY <1>1, EditTyped DEF Commands, Moved
  <2>3. "password" \in Places BY DEF Places
  <2>2. NoEntries \in Maps BY DEF NoEntries, Maps
  <2> QED BY <1>1, <2>1, <2>2, <2>3, NextPlace, AloneIn
<1>3. /\ Onward(i, c) /\ UNCHANGED <<tokenVars, passwords, troubled>>
      /\ file' = [commands[i].seen EXCEPT ![c.of] = c.entry]
  BY <1>2 DEF FileWritten
<1>4. UNCHANGED <<token, refreshes, login>> /\ TokenInv' BY <1>3, TokensSame DEF AInv, tokenVars
<1>5. /\ c.of \in Names /\ c.entry \in Entries \cup {NoEntry} /\ commands[i].seen \in Maps
      /\ c.kind = "save" => c.entry # NoEntry
      /\ EditInv(commands[i])
  BY <1>1, <1>2, EditTyped
<1>6. /\ file' \in Maps /\ file'[c.of] = c.entry
      /\ \A m \in Names \ {c.of} : file'[m] = commands[i].seen[m]
  BY <1>3, <1>5 DEF Maps
<1>7. \A m \in Names \ troubled : m # c.of => file'[m] = file[m]
  BY <1>1, <1>2, <1>5, <1>6 DEF EditInv
<1>8. EditInv(c)' BY <1>2, <1>3, <1>5, <1>6 DEF EditInv, Progress
<1>9. passwords' \subseteq Names BY <1>3, Typed0
<1>10. c.kind = "save" \/ c.kind = "remove" BY <1>1, <1>2 DEF Edits
<1>11. /\ file'[c.of] # NoEntry => c.kind = "save" /\ c.at \in {"password", "load", "end"}
       /\ file'[c.of] = NoEntry => c.kind = "remove" /\ c.at = "password"
  BY <1>1, <1>2, <1>5, <1>6, <1>10, EditTyped
<1> QED BY <1>1, <1>2, <1>3, <1>4, <1>6, <1>7, <1>8, <1>9, <1>11, Onwards

LEMMA PasswordDoneStep ==
  ASSUME AInv, NEW i \in DOMAIN commands, PasswordDone(i) PROVE AInv'
<1>1. Edits(commands[i]) /\ commands[i].at = "password" BY DEF PasswordDone, Is
<1>2. PICK c \in Commands :
        /\ c = [commands[i] EXCEPT !.at = AfterPassword(commands[i])] /\ c.kind = commands[i].kind
        /\ c.of = commands[i].of /\ c.entry = commands[i].entry
        /\ c.at = (IF c.kind = "remove" THEN "token" ELSE "load") /\ c.alone = commands[i].alone
  <2> DEFINE next == AfterPassword(commands[i])
  <2>1. /\ next \in Places /\ (commands[i].kind = "save" => next # "token")
        /\ (commands[i].kind = "remove" => next # "check")
        /\ next = IF commands[i].kind = "remove" THEN "token" ELSE "load"
    BY DEF Places, AfterPassword
  <2> HIDE DEF next
  <2>2. [commands[i] EXCEPT !.at = next] = Moved(commands[i], next, commands[i].seen, commands[i].alone)
    BY <1>1, PlaceOnly
  <2>3. [commands[i] EXCEPT !.at = next] = [commands[i] EXCEPT !.at = AfterPassword(commands[i])]
    BY DEF next
  <2> QED BY <1>1, <2>1, <2>2, <2>3, NextPlace, AloneIn
<1>3. /\ Onward(i, c) /\ UNCHANGED <<tokenVars, file, troubled>>
      /\ passwords' = IF c.kind = "remove" THEN passwords \ {c.of}
                      ELSE IF c.entry.oauth THEN passwords ELSE passwords \cup {c.of}
  BY <1>2 DEF PasswordDone, Proceeds
<1>4. UNCHANGED <<token, refreshes, login>> /\ TokenInv' BY <1>3, TokensSame DEF AInv, tokenVars
<1>5. /\ c.of \in Names /\ (c.kind = "save" => c.entry # NoEntry) /\ EditInv(commands[i])
      /\ c.kind = "save" \/ c.kind = "remove"
  BY <1>1, <1>2, EditTyped DEF Edits
<1>6. /\ file' \in Maps /\ passwords' \subseteq Names
      /\ \A m \in Names \ {c.of} : m \in passwords' => m \in passwords
      /\ c.kind = "remove" => c.of \notin passwords'
  BY <1>3, <1>5, Typed0
<1>7. c.alone => file[c.of] = c.entry BY <1>1, <1>2, <1>5 DEF EditInv, Progress
<1>8. ~c.alone => c.of \in troubled BY <1>2, <1>5 DEF EditInv
<1>9. EditInv(c)' BY <1>2, <1>3, <1>6, <1>7, <1>8 DEF EditInv, Progress
<1>10. c.of \notin troubled =>
         /\ file[c.of] # NoEntry => cfg[c.of] # NoEntry
                                    \/ (c.kind = "save" /\ c.at \in {"password", "load", "end"})
         /\ file[c.of] = NoEntry =>
              /\ c.of \in passwords' => c.kind = "remove" /\ c.at = "password"
              /\ token[c.of] # NoFile \/ RefreshOf(c.of) \/ login.of = c.of
                   => c.kind = "remove" /\ c.at \in {"password", "token"}
  <2>1. CASE c.kind = "save"
    <3>1. c.at = "load" /\ (c.of \notin troubled => file[c.of] # NoEntry)
      BY <1>2, <1>5, <1>7, <1>8, <2>1
    <3> QED BY <2>1, <3>1
  <2>2. CASE c.kind = "remove"
    <3>1. c.at = "token" /\ c.of \notin passwords' BY <1>2, <1>6, <2>2
    <3>2. c.of \notin troubled => (file[c.of] # NoEntry => cfg[c.of] # NoEntry)
      BY <1>1, <1>2, <2>2, Own
    <3> QED BY <2>2, <3>1, <3>2
  <2> QED BY <1>5, <2>1, <2>2
<1> QED BY <1>1, <1>2, <1>3, <1>4, <1>6, <1>9, <1>10, Onwards

LEMMA TokenDroppedStep ==
  ASSUME AInv, NEW i \in DOMAIN commands, TokenDropped(i) PROVE AInv'
<1> DEFINE late == RefreshOf(commands[i].of) \/ login.of = commands[i].of
<1>1. Edits(commands[i]) /\ commands[i].at = "token" BY DEF TokenDropped, Is
<1>2. commands[i].kind = "remove" BY <1>1, EditTyped DEF Commands, Edits
<1>15. PICK alone \in BOOLEAN : alone = (commands[i].alone /\ ~late) BY <1>1, AloneIn
<1>3. PICK c \in Commands :
        /\ c = [commands[i] EXCEPT !.at = "load", !.alone = alone]
        /\ c.kind = "remove" /\ c.of = commands[i].of /\ c.entry = commands[i].entry
        /\ c.at = "load" /\ c.alone = alone
  <2>2. [commands[i] EXCEPT !.at = "load", !.alone = alone]
          = Moved(commands[i], "load", commands[i].seen, alone)
    BY <1>1, EditTyped DEF Commands, Moved
  <2>3. "load" \in Places BY DEF Places
  <2> QED BY <1>1, <1>2, <2>2, <2>3, NextPlace, AloneIn
<1>4. /\ Onward(i, c) /\ token' = Deleted(c.of)
      /\ troubled' = IF late THEN troubled \cup {c.of} ELSE troubled
      /\ UNCHANGED <<accepted, issued, spoiled, refreshes, login, file, passwords>>
  <2>1. Onward(i, c) BY <1>3, <1>15 DEF TokenDropped
  <2> QED BY <1>3, <2>1 DEF TokenDropped
<1>5. c.of \in Names /\ EditInv(commands[i]) BY <1>1, <1>3, EditTyped
<1>6. TokenInv' BY <1>4, <1>5, DeletedStep DEF AInv
<1>7. token'[c.of] = NoFile /\ \A m \in Names \ {c.of} : token'[m] = token[m]
  BY <1>4, <1>5 DEF Deleted, AInv, TokenInv, TokenRecords
<1>8. file' \in Maps /\ passwords' \subseteq Names BY <1>4, Typed0
<1>9. c.alone => file[c.of] = c.entry /\ c.of \notin passwords /\ ~RefreshOf(c.of) /\ login.of # c.of
  BY <1>1, <1>2, <1>3, <1>5, <1>15 DEF EditInv, Progress
<1>10. ~c.alone => c.of \in troubled'
  <2>1. CASE late BY <1>4, <2>1
  <2>2. CASE ~late
    <3>1. ~commands[i].alone => commands[i].of \in troubled BY <1>5 DEF EditInv
    <3>2. ~alone => ~commands[i].alone BY <1>15, <2>2
    <3> HIDE DEF late
    <3> QED BY <1>3, <1>4, <3>1, <3>2
  <2> QED BY <2>1, <2>2
<1>11. EditInv(c)' BY <1>3, <1>4, <1>7, <1>9, <1>10 DEF EditInv, Progress, RefreshOf
<1>12. c.of \notin troubled' =>
         /\ file[c.of] # NoEntry => cfg[c.of] # NoEntry
         /\ c.of \notin passwords /\ token'[c.of] = NoFile /\ ~RefreshOf(c.of) /\ login.of # c.of
  <2>1. c.of \notin troubled' => c.of \notin troubled BY <1>4
  <2>2. c.of \notin troubled => (file[c.of] # NoEntry => cfg[c.of] # NoEntry)
    BY <1>1, <1>2, <1>3, Own
  <2> QED BY <1>7, <1>9, <1>10, <2>1, <2>2
<1>13. troubled' \in {troubled, troubled \cup {c.of}} BY <1>4
<1>14. c.alone => commands[i].alone BY <1>3, <1>15
<1> HIDE DEF late
<1> QED BY <1>1, <1>2, <1>3, <1>4, <1>6, <1>7, <1>8, <1>11, <1>12, <1>13, <1>14, Onwards

LEMMA FileLoadedStep ==
  ASSUME AInv, NEW i \in DOMAIN commands, FileLoaded(i) PROVE AInv'
<1>1. Edits(commands[i]) /\ commands[i].at = "load" BY DEF FileLoaded, Is
<1>2. PICK c \in Commands :
        /\ c = [commands[i] EXCEPT !.at = "end", !.seen = file] /\ c.kind = commands[i].kind
        /\ c.of = commands[i].of /\ c.entry = commands[i].entry
        /\ c.at = "end" /\ c.seen = file /\ c.alone = commands[i].alone
  <2>1. [commands[i] EXCEPT !.at = "end", !.seen = file]
          = Moved(commands[i], "end", file, commands[i].alone)
    BY <1>1, EditTyped DEF Commands, Moved
  <2>3. "end" \in Places BY DEF Places
  <2> QED BY <1>1, <2>1, <2>3, NextPlace, AloneIn, Typed0
<1>3. Onward(i, c) /\ UNCHANGED <<tokenVars, file, passwords, troubled>>
  BY <1>2 DEF FileLoaded
<1>4. UNCHANGED <<token, refreshes, login>> /\ TokenInv' BY <1>3, TokensSame DEF AInv, tokenVars
<1>5. /\ ~c.alone => c.of \in troubled
      /\ c.alone => file[c.of] = c.entry
                    /\ (c.kind = "remove" => c.of \notin passwords /\ token[c.of] = NoFile
                                             /\ ~RefreshOf(c.of) /\ login.of # c.of)
  BY <1>1, <1>2, EditTyped DEF EditInv, Progress
<1>6. EditInv(c)' BY <1>2, <1>3, <1>4, <1>5 DEF EditInv, Progress, RefreshOf
<1>7. c.of \notin troubled =>
        /\ file[c.of] # NoEntry => cfg[c.of] # NoEntry
                                   \/ (c.kind = "save" /\ c.at \in {"password", "load", "end"})
        /\ file[c.of] = NoEntry => c.of \notin passwords /\ token[c.of] = NoFile
                                   /\ ~RefreshOf(c.of) /\ login.of # c.of
  BY <1>1, <1>2, Own
<1>8. file' \in Maps /\ passwords' \subseteq Names BY <1>3, Typed0
<1> QED BY <1>1, <1>2, <1>3, <1>4, <1>6, <1>7, <1>8, Onwards

\* The form is on its way again when its save or its sign-in is over.
LEMMA FormReleased ==
  ASSUME Good(form), NEW f \in {[form EXCEPT !.saving = FALSE],
                                [form EXCEPT !.saving = FALSE, !.signingIn = TRUE],
                                [form EXCEPT !.signingIn = FALSE]}
  PROVE  Good(f)
<1>1. /\ f \in FormRecords(Names) /\ f.choice = form.choice /\ f.resolved = form.resolved
      /\ f.looking = form.looking /\ f.mxSeq = form.mxSeq /\ f.name = form.name
      /\ f.saving = form.saving \/ ~f.saving
  BY DEF Good, FormRecords
<1> QED BY <1>1 DEF Good

\* An edit that ends, well or not: b.cfg is as it was, or as the file was loaded.
LEMMA Ended ==
  ASSUME AInv, NEW i \in DOMAIN commands, Edits(commands[i]), NEW c \in Commands, c = commands[i],
         RunOn(commands, commands', i), Good(form'), TokenInv', ShownOK', AccountInv',
         UNCHANGED <<file, passwords, startup, token, refreshes>>, cfg' \in Maps,
         \/ troubled' \in {troubled, troubled \cup {c.of}}
         \/ c.alone /\ troubled' = troubled \ {c.of},
         \A m \in Names \ troubled : m # c.of => cfg'[m] \in {cfg[m], file[m]},
         \A m \in Names \ {c.of} : login'.of = m => login.of = m,
         c.of \notin troubled' =>
           /\ file[c.of] # NoEntry => cfg'[c.of] # NoEntry
           /\ file[c.of] = NoEntry => c.of \notin passwords /\ token[c.of] = NoFile
                                      /\ ~RefreshOf(c.of) /\ login'.of # c.of
  PROVE  AInv'
<1>1. commands \in Seq(Commands) BY Shown0 DEF ShownOK
<1>2. c.of \in Names /\ Edits(c) BY EditTyped
<1>3. troubled' \subseteq Names BY <1>2, Typed0
<1>4. RecordsInv' BY <1>3, Typed0, RecordsNext
<1>5. ASSUME NEW p \in DOMAIN commands', Edits(commands'[p])
      PROVE  EditInv(commands[p])' /\ ~commands'[p].alone
  <2>1. PICK j \in DOMAIN commands \ {i} : commands[j] = commands'[p] BY <1>5 DEF RunOn
  <2>2. PICK d \in Commands : d = commands[j] BY <1>1
  <2>3. Edits(d) /\ EditInv(d) /\ ~d.alone /\ d.of \in troubled /\ c.of \in troubled /\ ~c.alone
    BY <1>5, <2>1, <2>2, EditTyped, Others
  <2>4. troubled' = troubled BY <2>3
  <2>5. EditInv(d)' BY <2>3, <2>4 DEF EditInv
  <2>6. commands'[p] = d BY <2>1, <2>2
  <2> QED BY <2>3, <2>5, <2>6 DEF EditInv, Progress, RefreshOf
<1>6. EditsInv' BY <1>5 DEF EditsInv, Edits
<1>7. ASSUME NEW j \in DOMAIN commands \ {i}, Edits(commands[j])
      PROVE  \E p \in DOMAIN commands' : commands'[p] = commands[j]
  BY <1>7 DEF RunOn
<1>8. ASSUME NEW n, NEW places, n # c.of PROVE SaveOf(n, places) => SaveOf(n, places)'
  BY <1>7, <1>8 DEF SaveOf, Edits
<1>9. ASSUME NEW n, NEW places, n # c.of PROVE RemovalOf(n, places) => RemovalOf(n, places)'
  BY <1>7, <1>9 DEF RemovalOf, Edits
<1>10. \A m \in Names \ troubled' : m # c.of => m \notin troubled OBVIOUS
<1>11. ListedInv'
  <2>1. ASSUME NEW n \in Names \ troubled', file'[n] # NoEntry
        PROVE  cfg'[n] # NoEntry \/ SaveOf(n, {"password", "load", "end"})'
    <3>1. CASE n = c.of BY <2>1, <3>1
    <3>2. CASE n # c.of
      <4>1. n \in Names \ troubled /\ file[n] # NoEntry BY <1>10, <2>1, <3>2
      <4>2. cfg[n] # NoEntry \/ SaveOf(n, {"password", "load", "end"})
        BY <4>1 DEF AInv, AccountsInv, ListedInv
      <4> QED BY <1>8, <3>2, <4>1, <4>2
    <3> QED BY <3>1, <3>2
  <2> QED BY <2>1 DEF ListedInv
<1>12. ASSUME NEW n \in Names \ troubled', file'[n] = NoEntry
       PROVE  /\ n \in passwords' => RemovalOf(n, {"password"})'
              /\ token'[n] # NoFile \/ RefreshOf(n)' \/ login'.of = n
                   => RemovalOf(n, {"password", "token"})'
  <2>1. RefreshOf(n)' => RefreshOf(n) BY DEF RefreshOf
  <2>2. CASE n = c.of BY <1>12, <2>1, <2>2
  <2>3. CASE n # c.of
    <3>1. n \in Names \ troubled /\ file[n] = NoEntry BY <1>10, <1>12, <2>3
    <3>2. /\ n \in passwords => RemovalOf(n, {"password"})
          /\ token[n] # NoFile \/ RefreshOf(n) \/ login.of = n => RemovalOf(n, {"password", "token"})
      BY <3>1 DEF AInv, AccountsInv, NothingLeftBehind, NobodysInv
    <3>3. login'.of = n => login.of = n BY <2>3
    <3> QED BY <1>9, <2>1, <2>3, <3>2, <3>3
  <2> QED BY <2>2, <2>3
<1>13. NothingLeftBehind' BY <1>12 DEF NothingLeftBehind
<1>14. NobodysInv' BY <1>12 DEF NobodysInv
<1> QED BY <1>4, <1>6, <1>11, <1>13, <1>14 DEF AInv, AccountsInv

\* What the file was when an edit loaded it.
LEMMA SeenIs ==
  ASSUME AInv, NEW i \in DOMAIN commands, Edits(commands[i]), commands[i].at = "end"
  PROVE  /\ commands[i].seen \in Maps
         /\ \A m \in Names \ troubled : commands[i].seen[m] = file[m]
BY EditTyped DEF EditInv

LEMMA EditFailsStep ==
  ASSUME AInv, NEW i \in DOMAIN commands, Edits(commands[i]), EditFails(i),
         \/ UNCHANGED cfg
         \/ commands[i].at = "end" /\ cfg' = commands[i].seen
  PROVE  AInv'
<1>1. ShownOK /\ commands \in Seq(Commands) BY Shown0 DEF ShownOK
<1>2. PICK c \in Commands : c = commands[i] BY <1>1
<1>3. /\ form' = IF c.kind = "save" THEN [form EXCEPT !.saving = FALSE] ELSE form
      /\ troubled' = IF c.at \in BeforeWrite THEN troubled ELSE troubled \cup {c.of}
      /\ commands' = Done(i)
      /\ UNCHANGED <<tokenVars, screen, acct, file, startup, passwords, table>>
  BY <1>2 DEF EditFails
<1>4. UNCHANGED <<token, refreshes, login>> /\ TokenInv' BY <1>3, TokensSame DEF AInv, tokenVars
<1>5. Good(form') BY <1>3, FormReleased DEF AInv
<1>6. commands' \in Seq(Commands) /\ (commands \in Seq(NoScans) => commands' \in Seq(NoScans))
  BY <1>1, <1>3, DoneIn
<1>7. ShownOK' BY <1>1, <1>3, <1>6 DEF ShownOK
<1>8. AccountInv' BY <1>3, <1>4, <1>6, AccountNext, StillNone
<1>9. RunOn(commands, commands', i) BY <1>1, <1>3, KeptDone DEF Done
<1>10. cfg' \in Maps /\ \A m \in Names \ troubled : cfg'[m] \in {cfg[m], file[m]}
  BY SeenIs, Typed0
<1>11. c.of \notin troubled' =>
         /\ file[c.of] # NoEntry => cfg'[c.of] # NoEntry
         /\ file[c.of] = NoEntry => c.of \notin passwords /\ token[c.of] = NoFile
                                    /\ ~RefreshOf(c.of) /\ login'.of # c.of
  <2>1. CASE c.at \in BeforeWrite
    <3>1. c.at \notin {"password", "token", "load", "end"} BY <2>1 DEF BeforeWrite
    <3>2. c.of \notin troubled =>
            /\ file[c.of] # NoEntry => cfg[c.of] # NoEntry
            /\ file[c.of] = NoEntry => c.of \notin passwords /\ token[c.of] = NoFile
                                       /\ ~RefreshOf(c.of) /\ login.of # c.of
      BY <1>2, <3>1, Own
    <3>3. UNCHANGED cfg /\ troubled' = troubled BY <1>2, <1>3, <2>1, <3>1
    <3> QED BY <1>4, <3>2, <3>3
  <2>2. CASE c.at \notin BeforeWrite BY <1>3, <2>2
  <2> QED BY <2>1, <2>2
<1>12. troubled' \in {troubled, troubled \cup {c.of}} BY <1>3
<1> QED BY <1>2, <1>3, <1>4, <1>5, <1>7, <1>8, <1>9, <1>10, <1>11, <1>12, Ended

LEMMA AfterSetupShown ==
  ASSUME AInv, NEW n \in Names, NEW running \in Seq(Commands), AfterSetup(n, running)
  PROVE  ShownOK' /\ \A s, gone : RunOn(s, running, gone) => RunOn(s, commands', gone)
<1>1. ShownOK BY Shown0
<1>2. CASE Scan(n, TRUE, running) /\ UNCHANGED table
  <2>1. /\ commands' \in Seq(Commands) /\ screen' = "scan"
        /\ \A s, gone : RunOn(s, running, gone) => RunOn(s, commands', gone)
    BY <1>2, ScanShown
  <2> QED BY <1>1, <1>2, <2>1 DEF ShownOK
<1>3. CASE OpenAccounts(running) BY <1>3, OpenAccountsShown
<1> QED BY <1>2, <1>3 DEF AfterSetup

LEMMA SavedShown ==
  ASSUME AInv, NEW i \in DOMAIN commands, Edits(commands[i]), Saved(i)
  PROVE  /\ ShownOK' /\ Good(form') /\ TokenInv' /\ AccountInv' /\ RunOn(commands, commands', i)
         /\ UNCHANGED <<startup, token, refreshes>>
         /\ \A m \in Names \ {commands[i].of} : login'.of = m => login.of = m
<1>1. ShownOK /\ commands \in Seq(Commands) BY Shown0 DEF ShownOK
<1>2. PICK a : a = Account(commands[i].of, commands[i].seen) OBVIOUS
<1>3. /\ a.entry # NoEntry /\ acct' = a /\ UNCHANGED startup
      /\ \/ ~a.entry.oauth /\ AfterSetup(a.name, Done(i)) /\ UNCHANGED <<formVars, tokenVars>>
         \/ /\ StartLogin(a.name)
            /\ form' = [form EXCEPT !.saving = FALSE, !.signingIn = TRUE]
            /\ commands' = Done(i) /\ UNCHANGED <<screen, table>>
  BY <1>2 DEF Saved
<1>4. a \in Sessions /\ a.name = commands[i].of /\ a.name \in Names
  <2>1. commands[i].of \in Names /\ commands[i].seen \in Maps BY EditTyped
  <2>2. a.name = commands[i].of /\ a.entry = commands[i].seen[commands[i].of]
    BY <1>2 DEF Account
  <2>3. a.entry \in Entries BY <1>3, <2>1, <2>2 DEF Maps
  <2> QED BY <1>2, <2>1, <2>2, <2>3 DEF Account, Sessions
<1>5. AccountInv' BY <1>3, <1>4, SessionsNamed DEF AccountInv, Sessions
<1>6. Done(i) \in Seq(Commands) /\ RunOn(commands, Done(i), i) BY <1>1, DoneIn, KeptDone DEF Done
<1>7. CASE AfterSetup(a.name, Done(i)) /\ UNCHANGED <<formVars, tokenVars>>
  <2>1. ShownOK' /\ RunOn(commands, commands', i) BY <1>4, <1>6, <1>7, AfterSetupShown
  <2>2. Good(form') BY <1>7 DEF AInv, formVars
  <2>3. TokenInv' /\ UNCHANGED <<token, refreshes, login>>
    BY <1>7, TokensSame DEF AInv, tokenVars
  <2> QED BY <1>3, <1>5, <2>1, <2>2, <2>3
<1>8. CASE /\ StartLogin(a.name)
           /\ form' = [form EXCEPT !.saving = FALSE, !.signingIn = TRUE]
           /\ commands' = Done(i) /\ UNCHANGED <<screen, table>>
  <2>1. ShownOK' BY <1>1, <1>6, <1>8 DEF ShownOK
  <2>2. Good(form') BY <1>8, FormReleased DEF AInv
  <2>3. TokenInv' /\ login'.of = a.name BY <1>4, <1>8, StartLoginStep DEF AInv
  <2>4. UNCHANGED <<token, refreshes>> BY <1>8 DEF StartLogin
  <2> QED BY <1>3, <1>4, <1>5, <1>6, <1>8, <2>1, <2>2, <2>3, <2>4
<1> QED BY <1>3, <1>7, <1>8

LEMMA EditEndsStep ==
  ASSUME AInv, NEW i \in DOMAIN commands, EditEnds(i) PROVE AInv'
<1>1. Edits(commands[i]) /\ commands[i].at = "end" /\ cfg' = commands[i].seen
  BY DEF EditEnds, Is
<1>2. CASE EditFails(i) BY <1>1, <1>2, EditFailsStep
<1>3. CASE /\ \/ commands[i].kind = "save" /\ Saved(i)
              \/ commands[i].kind = "remove" /\ Changed(i, TRUE) /\ UNCHANGED tokenVars
           /\ troubled' = IF commands[i].alone THEN troubled \ {commands[i].of} ELSE troubled
           /\ UNCHANGED <<file, passwords>>
  <2>1. PICK c \in Commands : c = commands[i] BY Shown0 DEF ShownOK
  <2>2. /\ EditInv(c) /\ c.at = "end" /\ cfg' = c.seen /\ cfg' \in Maps /\ c.of \in Names
        /\ c.kind = "save" => c.entry # NoEntry
        /\ \A m \in Names \ troubled : cfg'[m] = file[m]
    BY <1>1, <2>1, EditTyped, SeenIs
  <2>3. /\ ShownOK' /\ Good(form') /\ TokenInv' /\ AccountInv' /\ RunOn(commands, commands', i)
        /\ UNCHANGED <<startup, token, refreshes>>
        /\ \A m \in Names \ {c.of} : login'.of = m => login.of = m
        /\ c.kind = "save" \/ (c.kind = "remove" /\ UNCHANGED login)
    <3>1. CASE c.kind = "save" /\ Saved(i) BY <1>1, <2>1, <3>1, SavedShown
    <3>2. CASE c.kind = "remove" /\ Changed(i, TRUE) /\ UNCHANGED tokenVars
      <4>1. /\ ShownOK' /\ Good(form') /\ RunOn(commands, commands', i)
            /\ acct = NoAccount => screen' # "scan" /\ commands' \in Seq(NoScans)
        BY <3>2, ChangedShown
      <4>2. UNCHANGED <<acct, startup>> BY <3>2 DEF Changed
      <4>3. UNCHANGED <<token, refreshes, login>> /\ TokenInv'
        BY <3>2, TokensSame DEF AInv, tokenVars
      <4>4. AccountInv' BY <4>1, <4>2, <4>3, AccountNext
      <4> QED BY <3>2, <4>1, <4>2, <4>3, <4>4
    <3> QED BY <1>3, <2>1, <3>1, <3>2
  <2>4. c.of \notin troubled' =>
          /\ file[c.of] # NoEntry => cfg'[c.of] # NoEntry
          /\ file[c.of] = NoEntry => c.of \notin passwords /\ token[c.of] = NoFile
                                     /\ ~RefreshOf(c.of) /\ login'.of # c.of
    <3>1. SUFFICES ASSUME c.of \notin troubled'
                   PROVE  /\ file[c.of] # NoEntry => cfg'[c.of] # NoEntry
                          /\ file[c.of] = NoEntry =>
                               c.of \notin passwords /\ token[c.of] = NoFile
                               /\ ~RefreshOf(c.of) /\ login'.of # c.of
      OBVIOUS
    <3>2. c.alone BY <1>3, <2>1, <2>2, <3>1 DEF EditInv
    <3>3. Progress(c) BY <2>2, <3>2 DEF EditInv
    <3>4. file[c.of] = c.entry /\ cfg'[c.of] = c.entry BY <2>2, <3>3 DEF Progress
    <3>5. ASSUME c.entry = NoEntry
          PROVE  c.of \notin passwords /\ token[c.of] = NoFile /\ ~RefreshOf(c.of) /\ login'.of # c.of
      <4>1. c.kind = "remove" /\ UNCHANGED login BY <2>2, <2>3, <3>5
      <4> QED BY <2>2, <3>3, <4>1 DEF Progress
    <3> QED BY <3>4, <3>5
  <2>5. troubled' = IF c.alone THEN troubled \ {c.of} ELSE troubled BY <1>3, <2>1
  <2>6. troubled' \in {troubled, troubled \cup {c.of}} \/ (c.alone /\ troubled' = troubled \ {c.of})
    BY <2>5
  <2>7. \A m \in Names \ troubled : m # c.of => cfg'[m] \in {cfg[m], file[m]} BY <2>2
  <2>8. UNCHANGED <<file, passwords, startup, token, refreshes>> BY <1>3, <2>3
  <2> QED BY <1>1, <2>1, <2>2, <2>3, <2>4, <2>6, <2>7, <2>8, Ended
<1> QED BY <1>2, <1>3 DEF EditEnds

LEMMA EditStepStep ==
  ASSUME AInv, NEW i \in DOMAIN commands, EditStep(i) PROVE AInv'
<1>1. CASE CallFails(i) BY <1>1, EditFailsStep DEF CallFails
<1>2. CASE NameChecked(i)
  <2>1. Edits(commands[i]) /\ Is(i, "check") BY <1>2 DEF NameChecked, Is
  <2>2. CASE EditFails(i) /\ UNCHANGED cfg BY <2>1, <2>2, EditFailsStep
  <2>3. CASE /\ ~Refused(commands[i]) /\ Proceeds(i, "read")
             /\ UNCHANGED <<tokenVars, file, passwords, troubled>>
    BY <2>1, <2>3, NameCheckedStep
  <2> QED BY <1>2, <2>2, <2>3 DEF NameChecked
<1> QED BY <1>1, <1>2, FileReadStep, FileWrittenStep, PasswordDoneStep, TokenDroppedStep,
           FileLoadedStep, EditEndsStep DEF EditStep

LEMMA CommandStepStep == ASSUME AInv, CommandStep PROVE AInv'
BY ListEndsStep, SignOutEndsStep, EditStepStep DEF CommandStep

-----------------------------------------------------------------------------
\* The scan, the refreshes and the sign-in.

LEMMA ScanOverShown ==
  ASSUME AInv, NEW ok \in BOOLEAN, ScanOver(ok), commands' \in Seq(Commands)
  PROVE  ShownOK' /\ Good(form') /\ UNCHANGED <<acct, diskVars, startup>>
<1>1. ShownOK BY Shown0
<1>2. UNCHANGED <<formVars, acct, diskVars, startup, table>> BY DEF ScanOver
<1>3. screen' \in {"review", "scan", screen} BY DEF ScanOver
<1>4. ShownOK' BY <1>1, <1>2, <1>3 DEF ShownOK
<1>5. Good(form') BY <1>2 DEF AInv, formVars
<1> QED BY <1>2, <1>4, <1>5

LEMMA ScanEndsStep ==
  ASSUME AInv, NEW i \in DOMAIN commands, ScanEnds(i) PROVE AInv'
<1>1. PICK ok \in BOOLEAN : ScanOver(ok) BY DEF ScanEnds
<1>2. ShownOK /\ commands \in Seq(Commands) BY Shown0 DEF ShownOK
<1>3. commands' = Done(i) /\ ~Edits(commands[i]) BY DEF ScanEnds, Edits
<1>4. commands' \in Seq(Commands) BY <1>2, <1>3, DoneIn
<1>5. RunOn(commands, commands', 0) BY <1>2, <1>3, KeptDone DEF Done
<1>6. acct \in Sessions BY HasAccount DEF ScanEnds
<1>7. UNCHANGED tokenVars BY DEF ScanEnds
<1> QED BY <1>1, <1>4, <1>5, <1>6, <1>7, ScanOverShown, CredentialsKept

\* What a refresh's end leaves of the credentials.
LEMMA RefreshEndsStep ==
  ASSUME AInv, NEW w \in Workers, RefreshEnds(w) PROVE AInv'
<1>1. PICK ok \in BOOLEAN : ScanOver(ok) BY DEF RefreshEnds
<1>2. UNCHANGED commands /\ (RefreshFails(w) \/ Refreshed(w)) BY DEF RefreshEnds
<1>3. ShownOK' /\ Good(form') /\ UNCHANGED <<acct, diskVars, startup>>
  BY <1>1, <1>2, Shown0, ScanOverShown DEF ShownOK
<1>4. TokenInv' BY <1>2, RefreshFailsStep, RefreshedStep DEF AInv
<1>5. refreshes[w] # Idle BY <1>2 DEF RefreshFails, Refreshed, Idle
<1>6. acct \in Sessions BY <1>5, HasAccount
<1>7. AccountInv' BY <1>3, <1>6, SessionsNamed DEF AccountInv, Sessions
<1>8. /\ refreshes' = [refreshes EXCEPT ![w] = Idle] /\ UNCHANGED login
      /\ UNCHANGED token \/ token' = [token EXCEPT ![refreshes[w].of] = Carried(refreshes[w])]
  BY <1>2 DEF RefreshFails, Refreshed, Goes
<1>9. NothingNew
  <2>1. \A v \in Workers : refreshes'[v].of = refreshes[v].of \/ refreshes'[v].of = "none"
    BY <1>8 DEF Idle, AInv, TokenInv, TokenRecords
  <2>2. \A n \in Names : RefreshOf(n)' => RefreshOf(n) BY <2>1, NoRowNone DEF RefreshOf
  <2>3. \A n \in Names : token'[n] = token[n] \/ refreshes[w].of = n
    BY <1>8 DEF AInv, TokenInv, TokenRecords
  <2> QED BY <1>8, <2>2, <2>3 DEF NothingNew, RefreshOf
<1>10. UNCHANGED <<file, cfg, troubled, startup>> /\ passwords' \subseteq passwords
  BY <1>3 DEF diskVars
<1>11. RunOn(commands, commands', 0) BY <1>2, Shown0, KeptSame DEF ShownOK
<1> QED BY <1>3, <1>4, <1>7, <1>9, <1>10, <1>11, DiskKept

\* The provider's and the browser's steps change nothing but the tokens.
LEMMA TokensOnly ==
  ASSUME AInv, UNCHANGED accountsVars, Good(form'), TokenInv', acct \in Sessions, NothingNew
  PROVE  AInv'
<1>1. UNCHANGED <<screen, acct, file, startup, cfg, passwords, troubled, table, commands>>
  BY DEF accountsVars
<1>2. ShownOK' BY <1>1, Shown0 DEF ShownOK
<1>3. AccountInv' BY <1>1, SessionsNamed DEF AccountInv, Sessions
<1>4. RunOn(commands, commands', 0) BY <1>1, Shown0, KeptSame DEF ShownOK
<1> QED BY <1>1, <1>2, <1>3, <1>4, DiskKept

LEMMA ProviderAnswersStep == ASSUME AInv, ProviderAnswers PROVE AInv'
<1>1. PICK w \in Workers : Served(w) BY DEF ProviderAnswers
<1>2. TokenInv' BY <1>1, ServedStep DEF AInv
<1>3. refreshes[w] # Idle BY <1>1 DEF Served, Idle
<1>4. acct \in Sessions BY <1>3, HasAccount
<1>5. /\ UNCHANGED <<token, login>>
      /\ \/ refreshes' = [refreshes EXCEPT ![w] = [refreshes[w] EXCEPT !.at = "served"]]
         \/ refreshes' = [refreshes EXCEPT ![w] = [refreshes[w] EXCEPT !.at = "served", !.got = issued + 1]]
  BY <1>1 DEF Served, Goes
<1>6. \A v \in Workers : refreshes'[v].of = refreshes[v].of
  <2>1. CASE refreshes' = [refreshes EXCEPT ![w] = [refreshes[w] EXCEPT !.at = "served"]]
    BY <2>1 DEF AInv, TokenInv, TokenRecords
  <2>2. CASE refreshes' = [refreshes EXCEPT ![w] = [refreshes[w] EXCEPT !.at = "served", !.got = issued + 1]]
    <3>1. [refreshes[w] EXCEPT !.at = "served", !.got = issued + 1].of = refreshes[w].of
      BY DEF AInv, TokenInv, TokenRecords
    <3>2. \A v \in Workers \ {w} : refreshes'[v] = refreshes[v]
      BY <2>2 DEF AInv, TokenInv, TokenRecords
    <3>3. refreshes'[w] = [refreshes[w] EXCEPT !.at = "served", !.got = issued + 1]
      BY <2>2 DEF AInv, TokenInv, TokenRecords
    <3> QED BY <3>1, <3>2, <3>3
  <2> QED BY <1>5, <2>1, <2>2
<1>7. NothingNew BY <1>5, <1>6 DEF NothingNew, RefreshOf
<1>8. UNCHANGED <<formVars, accountsVars>> BY DEF ProviderAnswers
<1>9. Good(form') BY <1>8 DEF AInv, formVars
<1> QED BY <1>2, <1>4, <1>7, <1>8, <1>9, TokensOnly

LEMMA BrowserReturnsStep == ASSUME AInv, BrowserReturns PROVE AInv'
<1>1. PICK kind \in {"code", "error"} : Callback(kind) BY DEF BrowserReturns
<1>2. TokenInv' /\ login'.of = login.of /\ login # NoLogin BY <1>1, CallbackStep DEF AInv
<1>3. acct \in Sessions BY <1>2, HasAccount
<1>4. UNCHANGED <<token, refreshes>> BY <1>1 DEF Callback
<1>5. NothingNew BY <1>2, <1>4 DEF NothingNew, RefreshOf
<1>6. UNCHANGED <<formVars, accountsVars>> BY DEF BrowserReturns
<1>7. Good(form') BY <1>6 DEF AInv, formVars
<1> QED BY <1>2, <1>3, <1>5, <1>6, <1>7, TokensOnly

LEMMA LoginStepStep == ASSUME AInv, LoginStep PROVE AInv'
<1>1. CASE (Deliver \/ Exchange) /\ UNCHANGED <<formVars, accountsVars>>
  <2>1. TokenInv' /\ login'.of = login.of /\ login # NoLogin
    BY <1>1, DeliverStep, ExchangeStep DEF AInv
  <2>2. acct \in Sessions BY <2>1, HasAccount
  <2>3. UNCHANGED <<token, refreshes>> BY <1>1 DEF Deliver, Exchange
  <2>4. NothingNew BY <2>1, <2>3 DEF NothingNew, RefreshOf
  <2>5. Good(form') BY <1>1 DEF AInv, formVars
  <2> QED BY <1>1, <2>1, <2>2, <2>4, <2>5, TokensOnly
<1>2. CASE /\ LoginFails /\ form' = [form EXCEPT !.signingIn = FALSE]
           /\ UNCHANGED <<lookups, accountsVars>>
  <2>1. TokenInv' /\ login' = NoLogin BY <1>2, LoginFailsStep DEF AInv
  <2>2. login # NoLogin BY <1>2 DEF LoginFails, Expires, NoLogin
  <2>3. acct \in Sessions BY <2>2, HasAccount
  <2>4. UNCHANGED <<token, refreshes>> BY <1>2 DEF LoginFails, LoginOver
  <2>5. \A n \in Names : login'.of # n BY <2>1, NoRowNone DEF NoLogin
  <2>6. NothingNew BY <2>4, <2>5 DEF NothingNew, RefreshOf
  <2>7. Good(form') BY <1>2, FormReleased DEF AInv
  <2> QED BY <1>2, <2>1, <2>3, <2>6, <2>7, TokensOnly
<1>3. CASE /\ LoginSaved /\ form' = [form EXCEPT !.signingIn = FALSE]
           /\ AfterSetup(acct.name, commands)
           /\ UNCHANGED <<lookups, acct, diskVars, startup, loaded>>
  <2>1. TokenInv' /\ login' = NoLogin BY <1>3, LoginSavedStep DEF AInv
  <2>2. login # NoLogin BY <1>3 DEF LoginSaved, NoLogin
  <2>3. acct \in Sessions /\ acct.name \in Names BY <2>2, HasAccount
  <2>4. UNCHANGED refreshes /\ token' = [token EXCEPT ![login.of] = login.got]
    BY <1>3 DEF LoginSaved
  <2>5. \A n \in Names : token'[n] = token[n] \/ login.of = n
    BY <2>4 DEF AInv, TokenInv, TokenRecords
  <2>6. \A n \in Names : login'.of # n BY <2>1, NoRowNone DEF NoLogin
  <2>7. NothingNew BY <2>4, <2>5, <2>6 DEF NothingNew, RefreshOf
  <2>8. Good(form') BY <1>3, FormReleased DEF AInv
  <2>9. commands \in Seq(Commands) /\ RunOn(commands, commands, 0) BY Shown0, KeptSame DEF ShownOK
  <2>10. ShownOK' /\ RunOn(commands, commands', 0) BY <1>3, <2>3, <2>9, AfterSetupShown
  <2>11. AccountInv' BY <1>3, <2>3, SessionsNamed DEF AccountInv, Sessions
  <2>12. UNCHANGED <<file, cfg, troubled, startup>> /\ passwords' \subseteq passwords
    BY <1>3 DEF diskVars
  <2> QED BY <2>1, <2>7, <2>8, <2>10, <2>11, <2>12, DiskKept
<1> QED BY <1>1, <1>2, <1>3 DEF LoginStep

-----------------------------------------------------------------------------
\* Every step of a session keeps the invariants.

IInv == ReviewInv /\ AInv

LEMMA ReviewSame == ASSUME ReviewInv, UNCHANGED reviewVars PROVE ReviewInv'
<1>1. UNCHANGED <<sel, protected, newlyProtected, view, cursor, acked, pending, left>>
  BY DEF reviewVars
<1>2. left' \in {"no", "quit", "written"} BY <1>1 DEF ReviewInv, ReviewTypeOK
<1> QED BY <1>1, <1>2, StayStep

LEMMA AccountsSame ==
  ASSUME AInv, UNCHANGED <<formVars, tokenVars, accountsVars>> PROVE AInv'
BY ScreenLeft DEF accountsVars, diskVars

LEMMA KeyStep == ASSUME IInv, Key PROVE IInv'
<1>1. CASE OnReview
  <2>1. screen' \in {screen, "quit"} BY <1>1 DEF OnReview
  <2>2. AInv' BY <1>1, <2>1, ScreenLeft DEF OnReview, IInv
  <2> QED BY <1>1, <2>2, ReviewStep DEF OnReview, IInv
<1>2. CASE ShowAccounts
  BY <1>2, AccountsShown, ReviewSame DEF ShowAccounts, IInv
<1>3. CASE LeaveAccounts
  <2>1. screen' \in {"quit", "review"} BY <1>3 DEF LeaveAccounts
  <2>2. UNCHANGED <<reviewVars, formVars, tokenVars, acct, diskVars, startup, table, commands>>
    BY <1>3 DEF LeaveAccounts
  <2> QED BY <2>1, <2>2, ScreenLeft, ReviewSame DEF IInv
<1>4. CASE (AccountsKey \/ FormKeys) /\ UNCHANGED reviewVars
  BY <1>4, AccountsKeyStep, FormKeysStep, ReviewSame DEF IInv
<1>5. CASE UNCHANGED reviewVars /\ \E n \in Names, e \in Handwritten : EditFile(n, e)
  BY <1>5, EditFileStep, ReviewSame DEF IInv
<1> QED BY <1>1, <1>2, <1>3, <1>4, <1>5 DEF Key

LEMMA BesideStep == ASSUME IInv, Beside PROVE IInv'
<1>1. CASE /\ LookupAnswered \/ CommandStep \/ ProviderAnswers \/ BrowserReturns \/ LoginStep
           /\ UNCHANGED reviewVars
  BY <1>1, LookupAnsweredStep, CommandStepStep, ProviderAnswersStep, BrowserReturnsStep,
     LoginStepStep, ReviewSame DEF IInv
<1>2. CASE ScanAnswered
  <2>1. AInv' BY <1>2, ScanEndsStep, RefreshEndsStep DEF ScanAnswered, IInv
  <2>2. ReviewInv' BY <1>2, ReviewSame, NewReviewStep DEF ScanAnswered, IInv
  <2> QED BY <2>1, <2>2 DEF IInv
<1> QED BY <1>1, <1>2 DEF Beside

LEMMA NextKeeps == ASSUME IInv, [Next]_vars PROVE IInv'
<1>1. CASE UNCHANGED vars BY <1>1, ReviewSame, AccountsSame DEF IInv, vars
<1>2. CASE Finished BY <1>2, ReviewSame, AccountsSame DEF Finished, IInv, vars
<1> QED BY <1>1, <1>2, KeyStep, BesideStep DEF Next

-----------------------------------------------------------------------------
\* The first states of a session.

LEMMA FirstTokens ==
  ASSUME Init PROVE TokenInv
<1> DEFINE S == OAuthNames(file)
           signedIn == SetToSeq(S)
           At(n) == CHOOSE i \in DOMAIN signedIn : signedIn[i] = n
<1>1. S \subseteq Names BY DEF OAuthNames
<1>2. IsFiniteSet(S) BY <1>1, FS_Subset, TokenAssumption
<1>3. /\ signedIn \in Seq(S) /\ Len(signedIn) \in Nat /\ DOMAIN signedIn = 1 .. Len(signedIn)
      /\ \A n \in S : \E i \in DOMAIN signedIn : signedIn[i] = n
  BY <1>2, SetSequence
<1>4. /\ token = [n \in Names |-> IF n \in S THEN At(n) ELSE NoFile]
      /\ issued = Len(signedIn) /\ accepted = DOMAIN signedIn
      /\ spoiled = {} /\ refreshes = [w \in Workers |-> Idle] /\ login = NoLogin
  BY DEF Init
<1> HIDE DEF S, signedIn
<1>5. \A n \in S : At(n) \in DOMAIN signedIn /\ signedIn[At(n)] = n BY <1>3
<1> HIDE DEF At
<1>6. /\ issued \in Nat /\ accepted = 1 .. issued
      /\ \A n \in Names : token[n] = IF n \in S THEN At(n) ELSE NoFile
  BY <1>3, <1>4
<1>7. \A n \in Names : token[n] # NoFile => n \in S /\ token[n] \in 1 .. issued /\ signedIn[token[n]] = n
  BY <1>3, <1>4, <1>5, <1>6
<1>8. /\ Idle \in [of : Names \cup {"none"}, at : {"idle", "sent", "served"},
                   had : 0 .. issued, got : 0 .. issued]
      /\ Idle.of = "none" /\ Idle.had = 0 /\ Idle.got = Blank /\ Blank = 0
  BY <1>6 DEF Idle, Blank
<1>9. /\ NoLogin \in LoginRecords /\ NoLogin.got = Blank /\ NoLogin.at = "none"
  BY <1>6 DEF NoLogin, LoginRecords, Blank
<1>10. \A w \in Workers : refreshes[w] = Idle BY <1>4
<1>11. TokenRecords
  <2>1. token \in [Names -> {NoFile} \cup 1 .. issued] BY <1>3, <1>4, <1>5, <1>6
  <2>2. refreshes \in [Workers -> [of : Names \cup {"none"}, at : {"idle", "sent", "served"},
                                   had : 0 .. issued, got : 0 .. issued]]
    BY <1>4, <1>8
  <2> QED BY <1>4, <1>6, <1>9, <1>10, <2>1, <2>2 DEF TokenRecords, LoginRecords
<1>12. FreshInv BY <1>4, <1>8, <1>9, <1>10 DEF FreshInv
<1>13. OwnInv
  <2>1. \A m, n \in Names : m # n /\ token[m] # NoFile => token[n] # token[m]
    BY <1>7
  <2>2. \A n \in Names : token[n] # 0 BY <1>6, <1>7 DEF NoFile
  <2> QED BY <1>8, <1>10, <2>1, <2>2 DEF OwnInv
<1>14. KeptInv BY <1>6, <1>7, <1>10 DEF KeptInv
<1>15. RotatedInv
  <2>1. "none" \notin Rotating BY TokenAssumption
  <2> QED BY <1>6, <1>7, <1>8, <1>10, <2>1, TokenAssumption DEF RotatedInv
<1> QED BY <1>11, <1>12, <1>13, <1>14, <1>15 DEF TokenInv

LEMMA FirstForm == ASSUME Init PROVE Good(form)
<1>1. InFile \in SUBSET Names /\ {} \in SUBSET Names BY DEF InFile, Present
<1>2. "" \in Domains BY FormAssumption
<1>3. CASE form = NewForm("first", "", "", FALSE, {})
  BY <1>1, <1>2, <1>3, NewFormGood
<1>4. ASSUME NEW n \in Names, NEW d \in Domains, form = Filled(n, d) PROVE Good(form)
  <2> DEFINE f == NewForm("add", "", d, FALSE, InFile)
  <2>1. Good(f) BY <1>1, NewFormGood
  <2>2. form = [f EXCEPT !.name = n] BY <1>4 DEF Filled
  <2> HIDE DEF f
  <2>3. /\ form \in FormRecords(Names) /\ form.choice = f.choice /\ form.resolved = f.resolved
        /\ form.looking = f.looking /\ form.mxSeq = f.mxSeq /\ form.name = n
        /\ form.saving = f.saving
    BY <2>1, <2>2 DEF Good, FormRecords
  <2>4. n # "" BY AccountsAssumption
  <2> QED BY <2>1, <2>3, <2>4 DEF Good
<1> QED BY <1>3, <1>4 DEF Init

LEMMA InitHolds == ASSUME Init PROVE IInv
<1>1. ReviewInv BY FirstReview DEF Init
<1>2. TokenInv BY FirstTokens
<1>3. Good(form) BY FirstForm
<1>4. /\ file \in Maps /\ startup = InFile /\ cfg = file
      /\ troubled = {} /\ passwords = InFile \ OAuthNames(file)
      /\ \A n \in Names \ OAuthNames(file) : token[n] = NoFile
      /\ refreshes = [w \in Workers |-> Idle] /\ login = NoLogin
  BY ScreensAssumption DEF Init, Maps
<1>5. InFile \subseteq Names /\ OAuthNames(file) \subseteq InFile
      /\ \A n \in InFile : file[n] # NoEntry /\ Account(n, file) \in Sessions
                           /\ Account(n, file).name = n
  BY <1>4 DEF InFile, Present, OAuthNames, Account, Sessions, Maps
<1>6. /\ screen \in {"accounts", "form"} /\ (acct = NoAccount \/ acct \in Sessions)
      /\ commands = << >> \/ commands = <<Command("list", NoRow)>>
      /\ table = NoTable
         \/ \E n \in InFile : table = [rows |-> file, cursor |-> n, question |-> "none"]
  <2>1. CASE screen = "form" /\ acct = NoAccount /\ commands = << >> /\ table = NoTable
    BY <2>1
  <2>2. CASE /\ screen = "accounts" /\ (\E n \in InFile : acct = Account(n, file)) /\ table = NoTable
             /\ commands = <<Command("list", NoRow)>>
    BY <1>5, <2>2
  <2>3. CASE /\ screen = "form" /\ commands = << >>
             /\ \E n \in InFile : /\ acct = Account(n, file)
                                  /\ table = [rows |-> file, cursor |-> n, question |-> "none"]
    BY <1>5, <2>3
  <2> QED BY <2>1, <2>2, <2>3 DEF Init
<1>7. /\ commands \in Seq(Commands) /\ commands \in Seq(NoScans)
      /\ \A i \in DOMAIN commands : commands[i] \in Commands /\ ~Edits(commands[i])
  <2>1. /\ Command("list", NoRow) \in Commands /\ Command("list", NoRow) \in NoScans
        /\ ~Edits(Command("list", NoRow))
    BY CommandIn DEF Kinds
  <2> DEFINE c == Command("list", NoRow)
  <2> HIDE DEF c
  <2>2. commands = << >> \/ (commands = <<c>> /\ c \in Commands /\ c \in NoScans /\ ~Edits(c))
    BY <1>6, <2>1 DEF c
  <2>3. CASE commands = << >> BY <2>3
  <2>4. CASE commands = <<c>> /\ c \in Commands /\ c \in NoScans /\ ~Edits(c)
    <3>1. <<c>> \in Seq(Commands) BY <2>4
    <3>2. <<c>> \in Seq(NoScans) BY <2>4
    <3>3. DOMAIN <<c>> = {1} /\ <<c>>[1] = c OBVIOUS
    <3> QED BY <2>4, <3>1, <3>2, <3>3
  <2> QED BY <2>2, <2>3, <2>4
<1>8. table \in Tables /\ (table.cursor # NoRow => table.rows[table.cursor] # NoEntry)
  <2>1. CASE table = NoTable BY <2>1 DEF Tables, NoTable, NoEntries
  <2>2. ASSUME NEW n \in InFile, table = [rows |-> file, cursor |-> n, question |-> "none"]
        PROVE  table \in Tables /\ table.rows[table.cursor] # NoEntry
    BY <1>4, <1>5, <2>2 DEF Tables, Maps
  <2> QED BY <1>6, <2>1, <2>2
<1>9. RecordsInv
  <2>1. form \in FormRecords(Names) BY <1>3 DEF Good
  <2>2. \A c \in Commands : c.kind # "list" => c.of \in Names BY DEF Commands
  <2>3. AccountsTypeOK BY <1>4, <1>5, <1>6, <1>7, <1>8, <2>2 DEF AccountsTypeOK
  <2> QED BY <1>4, <1>5, <1>7, <1>8, <2>1, <2>3 DEF RecordsInv, Tables, Maps
<1>10. AccountInv
  <2>1. screen # "scan" /\ \A w \in Workers : refreshes[w] = Idle BY <1>4, <1>6
  <2> QED BY <1>4, <1>6, <1>7, <2>1 DEF AccountInv, NoScans, Sessions
<1>11. EditsInv BY <1>7 DEF EditsInv
<1>12. ListedInv BY <1>4 DEF ListedInv
<1>13. NothingLeftBehind
  <2>1. \A n \in Names : file[n] = NoEntry => n \notin InFile BY DEF InFile, Present
  <2> QED BY <1>4, <1>5, <2>1 DEF NothingLeftBehind
<1>14. NobodysInv
  <2>1. \A w \in Workers : refreshes[w].of = "none" BY <1>4 DEF Idle
  <2>2. login.of = "none" BY <1>4 DEF NoLogin
  <2> QED BY <2>1, <2>2, NoRowNone DEF NobodysInv, RefreshOf
<1> QED BY <1>1, <1>2, <1>3, <1>9, <1>10, <1>11, <1>12, <1>13, <1>14 DEF IInv, AInv, AccountsInv

\* The config file's accounts change when a save or a removal writes the file, or
\* by hand, and never otherwise.
Writes == \/ \E i \in DOMAIN commands : FileWritten(i)
          \/ \E n \in Names, e \in Handwritten : EditFile(n, e)

LEMMA FileChanges == ASSUME [Next]_vars, file' # file PROVE Writes
<1>1. CASE UNCHANGED vars \/ Finished BY <1>1 DEF Finished, vars, accountsVars
<1>2. CASE OnReview \/ ShowAccounts \/ LeaveAccounts
  BY <1>2 DEF OnReview, ShowAccounts, LeaveAccounts, diskVars
<1>3. CASE AccountsKey
  BY <1>3 DEF AccountsKey, MoveRow, UseAccount, AddAccount, EditAccount, AskAbout, Question, Answer,
              AnswerFor, Retry, BackToForm, LeaveForm, SignOutKey, diskVars
<1>4. CASE FormKeys \/ LookupAnswered
  BY <1>4 DEF FormKeys, LookupAnswered, FormStep
<1>5. CASE CommandStep
  <2>1. PICK i \in DOMAIN commands : ListEnds(i) \/ SignOutEnds(i) \/ EditStep(i)
    BY <1>5 DEF CommandStep
  <2>2. CASE ListEnds(i) \/ SignOutEnds(i) BY <2>2 DEF ListEnds, SignOutEnds, diskVars
  <2>3. CASE CallFails(i) BY <2>3 DEF CallFails, EditFails
  <2>4. CASE NameChecked(i) BY <2>4 DEF NameChecked, EditFails
  <2>5. CASE FileRead(i) BY <2>5 DEF FileRead
  <2>6. CASE FileWritten(i) BY <2>6 DEF Writes
  <2>7. CASE PasswordDone(i) \/ TokenDropped(i) \/ FileLoaded(i)
    BY <2>7 DEF PasswordDone, TokenDropped, FileLoaded
  <2>8. CASE EditEnds(i) BY <2>8 DEF EditEnds, EditFails
  <2> QED BY <2>1, <2>2, <2>3, <2>4, <2>5, <2>6, <2>7, <2>8 DEF EditStep
<1>6. CASE ProviderAnswers \/ BrowserReturns \/ LoginStep
  BY <1>6 DEF ProviderAnswers, BrowserReturns, LoginStep, accountsVars, diskVars
<1>7. CASE ScanAnswered
  BY <1>7 DEF ScanAnswered, ScanEnds, RefreshEnds, ScanOver, diskVars
<1>8. CASE \E n \in Names, e \in Handwritten : EditFile(n, e) BY <1>8 DEF Writes
<1> QED BY <1>1, <1>2, <1>3, <1>4, <1>5, <1>6, <1>7, <1>8 DEF Next, Key, Beside

\* An account of the file is changed by an edit of it, or by hand, or its name is
\* troubled: an add has found the name unused in b.cfg, which has every other
\* account of the file, and writes back what it read of the rest.
LEMMA AddReplacesNone ==
  ASSUME IInv, [Next]_vars, NEW n \in Names, file[n] # NoEntry, file'[n] # file[n]
  PROVE  Edited(n) \/ n \in troubled'
<1>1. AInv /\ file \in Maps BY Typed0 DEF IInv
<1>2. Writes BY FileChanges
<1>3. ASSUME NEW m \in Names, NEW e \in Handwritten, EditFile(m, e) PROVE n \in troubled'
  <2>1. file' = [file EXCEPT ![m] = e] /\ troubled' = troubled \cup {m} BY <1>3 DEF EditFile
  <2>2. n = m BY <1>1, <2>1 DEF Maps
  <2> QED BY <2>1, <2>2
<1>4. ASSUME NEW i \in DOMAIN commands, FileWritten(i) PROVE Edited(n) \/ n \in troubled'
  <2>1. PICK c \in Commands : c = commands[i] BY <1>1, Shown0 DEF ShownOK
  <2>2. /\ Edits(c) /\ c.at = "write" /\ file' = [c.seen EXCEPT ![c.of] = c.entry]
        /\ troubled' = troubled
    BY <1>4, <2>1 DEF FileWritten, Is
  <2>3. c.of \in Names /\ c.seen \in Maps /\ EditInv(c)
    BY <1>1, <2>1, <2>2, EditTyped
  <2>4. CASE n # c.of
    <3>1. file'[n] = c.seen[n] BY <2>2, <2>3, <2>4 DEF Maps
    <3> QED BY <2>2, <2>3, <2>4, <3>1 DEF EditInv
  <2>5. CASE n = c.of
    <3>1. CASE c.kind = "save" /\ c.flag BY <2>2, <2>3, <2>5, <3>1 DEF EditInv
    <3>2. CASE ~(c.kind = "save" /\ c.flag) BY <2>1, <2>2, <2>5, <3>2 DEF Edited
    <3> QED BY <3>1, <3>2
  <2> QED BY <2>4, <2>5
<1> QED BY <1>2, <1>3, <1>4 DEF Writes

-----------------------------------------------------------------------------
\* Theorems.

LEMMA IInvHolds == Spec => []IInv
<1>1. Init => IInv BY InitHolds
<1>2. IInv /\ [Next]_vars => IInv' BY NextKeeps
<1> QED BY <1>1, <1>2, PTL DEF Spec

\* The review, the form, the tokens and the accounts keep their types, however
\* the keys, the answers and the commands' ends interleave.
THEOREM TypesHold == Spec => []TypeOK
<1>1. IInv => TypeOK
  <2>1. ASSUME AInv PROVE FormTypeOK /\ AccountsTypeOK /\ TokenTypeOK
    BY <2>1, FormGood, TokensAccepted DEF AInv, FormInv, AccountsInv, RecordsInv
  <2> QED BY <2>1 DEF IInv, ReviewInv, TypeOK
<1> QED BY <1>1, IInvHolds, PTL

\* No decision leaves the review for a sender that is protected by then, through
\* whichever row, grouping or bulk key it was marked (protectCurrent, result).
THEOREM NoProtectedDecisionHolds == Spec => []NoProtectedDecision
<1>1. IInv => NoProtectedDecision BY DecidedUnprotected DEF IInv
<1> QED BY <1>1, IInvHolds, PTL

\* Nobody carries delete-all or include-kept before its question was answered
\* with yes (startDeleteAll, startIncludeKept, handleConfirmKey).
THEOREM EscalationsAskedHolds == Spec => []EscalationsAsked
<1>1. IInv => EscalationsAsked BY DEF IInv, ReviewInv
<1> QED BY <1>1, IInvHolds, PTL

\* The bulk keys spare the protected, and outside the keep section whoever sends
\* receipts, for every grouping of the senders (bulk, baseItems, sectionOf).
THEOREM SelectAllSparesHolds == Spec => SelectAllSpares
<1>1. IInv => [AllUnsub \/ AllDelete =>
                 \A s \in Senders : sel'[s] # sel[s] =>
                   /\ s \notin protected
                   /\ Group[s].keepCategories => SectionShown(cursor) = "keep"]_reviewVars
  BY SelectAllSparesStep DEF IInv
<1> QED BY <1>1, IInvHolds, PTL DEF SelectAllSpares

\* A provider picked by hand stays in effect whatever lookups answer afterwards,
\* for any table of domains and any number of lookups (cycle, mxResult, adopt).
THEOREM HandPickKeptHolds == Spec => []HandPickKept
<1>1. IInv => HandPickKept BY FormGood DEF IInv, AInv, FormInv
<1> QED BY <1>1, IInvHolds, PTL

\* The token on disk is one the provider takes unless its replacement is on its
\* way or was lost, for any number of refreshes of an account at once and
\* sign-ins beside them (AccessToken, Refresh, SaveToken, Login).
THEOREM TokenAcceptedHolds == Spec => []TokenAccepted
<1>1. IInv => TokenAccepted BY TokensAccepted DEF IInv, AInv
<1> QED BY <1>1, IInvHolds, PTL

\* Once its removal is past that place, an account that is not in the config file
\* has neither a password nor a token (RemoveAccount, SaveSetup), for any number of
\* accounts, refreshes and sign-ins. Troubled names are excepted. IInv adds that no
\* refresh or sign-in of it is under way, which could still store a token.
THEOREM NothingLeftBehindHolds == Spec => []NothingLeftBehind
<1>1. IInv => NothingLeftBehind BY DEF IInv, AInv, AccountsInv
<1> QED BY <1>1, IInvHolds, PTL

\* An add replaces no account of the config file, and no save or removal changes
\* or drops another account, whatever names the form was opened with (AddAccount,
\* UpsertAccount, config.RemoveAccount). It says nothing of troubled names: those of
\* calls that overlapped, of one that stopped half-way, and of what was written
\* into the file by hand.
THEOREM AddNeverReplacesHolds == Spec => AddNeverReplaces
<1>1. IInv /\ [Next]_vars =>
        [\A n \in Names :
           file[n] # NoEntry /\ file'[n] # file[n] => Edited(n) \/ n \in troubled']_accountsVars
  BY AddReplacesNone
<1> QED BY <1>1, IInvHolds, PTL DEF Spec, AddNeverReplaces
=============================================================================
