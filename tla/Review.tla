------------------------------- MODULE Review -------------------------------
\* The review screen: internal/tui's model.go, update.go and types.go. A row is
\* a sender or, grouped, a domain with its members; cell text, scrolling, the
\* order within a section and the screen's notices are left out.
EXTENDS Integers, FiniteSets, FiniteSetsExt

CONSTANTS
  Senders,          \* the sender keys of the account
  Group,            \* [Senders -> SenderGroup], as the store loads them
  Needle            \* the filter text, as the senders it matches

ASSUME ReviewAssumption ==
  /\ IsFiniteSet(Senders) /\ Needle \in (SUBSET Senders) \ {{}}
  /\ \A s \in Senders : Group[s].keepCount > 0 => Group[s].keepCategories

VARIABLES
  sel,              \* m.sel: the four marks of each sender
  protected,        \* m.protected
  newlyProtected,
  view,             \* [domainMode, showDecided, filtering, filter, collapsed, expanded]
  cursor,           \* the item the cursor is on
  acked,            \* deleteAllAcked and includeKeptAcked, as a set of fields
  pending,          \* the open question of an escalation: [field, keys, value]
  confirmQuit, left \* the open question before leaving, and how the screen was left

reviewVars == <<sel, protected, newlyProtected, view, cursor, acked, pending, confirmQuit, left>>

Marks == {"unsubscribe", "delete_matched", "delete_all", "include_kept"}
Deletes(marks) == marks \cap {"delete_matched", "delete_all"} # {}
\* selection.any and setSelection: an entry without a selection is dropped.
Selects(marks) == marks \cap {"unsubscribe", "delete_matched", "delete_all"} # {}
Kept(marks) == IF Selects(marks) THEN marks ELSE {}
NoQuestion == [field |-> "none", keys |-> {}, value |-> FALSE]

-----------------------------------------------------------------------------
\* Rows: baseItems, itemFromGroup, sectionOf, rebuild.

DomainOf(s) == IF Group[s].domain = "" THEN s ELSE Group[s].domain
Of(domain) == {s \in Senders : DomainOf(s) = domain}
RowOf(s) == [key |-> s, members |-> {s}, child |-> FALSE]
SenderRows == {RowOf(s) : s \in Senders}
DomainRows ==
  {[key |-> DomainOf(s), members |-> Of(DomainOf(s)), child |-> FALSE] : s \in Senders}
BaseItems == IF view.domainMode THEN DomainRows ELSE SenderRows

Total(field, keys) == MapThenSumSet(LAMBDA s : Group[s][field], keys)

Protected(it) == it.members \cap protected # {}
StillSending(it) == \E s \in it.members : Group[s].stillSending
Decided(it) == \E s \in it.members : Group[s].decided
\* keepish, as the member sets it holds for.
\* Mutant of KeepCategories: a domain row shows one member's categories.
KeepCategoriesOfOne(keys) == Group[CHOOSE s \in keys : TRUE].keepCategories
KeepCategories(keys) == \E s \in keys : Group[s].keepCategories
KeepishRows ==
  {keys \in (SUBSET Senders) \ {{}} :
     \/ KeepCategories(keys)
     \/ /\ Total("mixed", keys) > 0 /\ Total("count", keys) > 0
        /\ Total("keepCount", keys) * 5 >= Total("count", keys)}
Keepish(it) == it.members \in KeepishRows

Sections == {"protected", "keep", "still", "bulk"}
SectionOf(it) ==
  IF Protected(it) THEN "protected" ELSE IF Keepish(it) THEN "keep"
  ELSE IF StillSending(it) THEN "still" ELSE "bulk"

Matches(it) == view.filter = {} \/ it.members \cap view.filter # {}
Listed ==
  {it \in BaseItems : Matches(it) /\ (Decided(it) /\ ~StillSending(it) => view.showDecided)}

\* What the table shows: headers, rows of open sections, members of open rows.
Header(section) == [key |-> section, members |-> {}, child |-> FALSE]
IsHeader(it) == it.members = {}
Shown == {it \in Listed : SectionOf(it) \notin view.collapsed}
Expandable(it) == Cardinality(it.members) > 1
Children(it) == {[RowOf(s) EXCEPT !.child = TRUE] : s \in it.members}
Items ==
  {Header(SectionOf(it)) : it \in Listed} \cup Shown
    \cup UNION {Children(it) : it \in {i \in Shown : Expandable(i) /\ i.key \in view.expanded}}

\* The section an item is in; a member row is in its domain row's.
SectionShown(it) ==
  CASE IsHeader(it) -> it.key
    [] it.child -> SectionOf(CHOOSE r \in DomainRows : it.members \subseteq r.members)
    [] OTHER -> SectionOf(it)

NoItem == [key |-> "", members |-> {}, child |-> FALSE]
OnRow == cursor # NoItem /\ ~IsHeader(cursor)

\* restoreCursor: the same key or header, else a row that comes first, else a header.
Restored(old) ==
  LET items == Items
      same == {it \in items : it.key = old.key /\ IsHeader(it) = IsHeader(old)}
      rows == {it \in items : ~IsHeader(it)}
  IN  IF same # {} THEN same ELSE IF rows # {} THEN rows
      ELSE IF items # {} THEN items ELSE {NoItem}

-----------------------------------------------------------------------------
\* Keys. Every one of them ends in rebuild.

Rebuilt == \E old \in {cursor} : cursor' \in Restored(old)'
Free == left = "no" /\ ~view.filtering /\ pending = NoQuestion /\ ~confirmQuit

Move ==
  /\ Free /\ cursor' \in Items
  /\ UNCHANGED <<sel, protected, newlyProtected, view, acked, pending, confirmQuit, left>>

\* toggle: every member's own mark is flipped.
Flip(marks, field) == IF field \in marks THEN marks \ {field} ELSE marks \cup {field}
SetSelection(keys, marks) ==
  sel' = [s \in Senders |-> IF s \in keys THEN Kept(marks[s]) ELSE sel[s]]
Toggle(field) ==
  /\ Free /\ OnRow /\ ~Protected(cursor)
  /\ SetSelection(cursor.members, [s \in Senders |-> Flip(sel[s], field)])
  /\ UNCHANGED <<protected, newlyProtected, view, acked, pending, confirmQuit, left>>
  /\ Rebuilt

\* startDeleteAll, startIncludeKept: asked once, then a toggle.
All(field) == \A s \in cursor.members : field \in sel[s]
AnyDelete == \E s \in cursor.members : Deletes(sel[s])
MayEscalate(field) ==
  OnRow /\ ~Protected(cursor) /\ (field = "include_kept" => AnyDelete)
Ask(field) ==
  /\ Free /\ MayEscalate(field) /\ field \notin acked
  /\ pending' = [field |-> field, keys |-> cursor.members, value |-> ~All(field)]
  /\ UNCHANGED <<sel, protected, newlyProtected, view, cursor, acked, confirmQuit, left>>
ToggleAcked(field) == MayEscalate(field) /\ field \in acked /\ Toggle(field)

\* handleConfirmKey.
Set(marks, field, value) == IF value THEN marks \cup {field} ELSE marks \ {field}
\* Mutant of Remembered: the answer is not remembered.
RememberedNever(yes) == acked' = acked
Remembered(yes) == acked' = IF yes THEN acked \cup {pending.field} ELSE acked
Confirm(yes) ==
  /\ left = "no" /\ pending # NoQuestion
  /\ Remembered(yes) /\ pending' = NoQuestion
  /\ UNCHANGED <<protected, newlyProtected, view, confirmQuit, left>>
  /\ \/ /\ yes
        /\ SetSelection(pending.keys, [s \in Senders |-> Set(sel[s], pending.field, pending.value)])
        /\ Rebuilt
     \/ ~yes /\ UNCHANGED <<sel, cursor>>

\* bulk: the rows of the cursor's section that are on screen.
BulkRows == {it \in Shown : ~Protected(it) /\ SectionOf(it) = SectionShown(cursor)}
Bulk(marks) ==
  Free /\ cursor # NoItem /\ SetSelection(UNION {it.members : it \in BulkRows}, marks)
Clear == Bulk([s \in Senders |-> {}])
AllUnsub == Bulk([s \in Senders |-> sel[s] \cup {"unsubscribe"}])
AllDelete == Bulk([s \in Senders |-> sel[s] \cup {"delete_matched"}])
BulkKey ==
  /\ Clear \/ AllUnsub \/ AllDelete
  /\ UNCHANGED <<protected, newlyProtected, view, acked, pending, confirmQuit, left>>
  /\ Rebuilt

\* protectCurrent.
\* Mutant of Unselected: a protected sender keeps its marks.
UnselectedNone(keys) == UNCHANGED sel
Unselected(keys) == sel' = [s \in Senders |-> IF s \in keys THEN {} ELSE sel[s]]
ProtectCurrent ==
  /\ Free /\ OnRow /\ ~Protected(cursor)
  /\ protected' = protected \cup cursor.members
  /\ newlyProtected' = newlyProtected \cup cursor.members
  /\ Unselected(cursor.members)
  /\ UNCHANGED <<view, acked, pending, confirmQuit, left>>
  /\ Rebuilt

\* Keys that change the view: g, h, enter, and the filter.
Turn(set, x) == IF x \in set THEN set \ {x} ELSE set \cup {x}
View(v) ==
  /\ view' = v
  /\ UNCHANGED <<sel, protected, newlyProtected, acked, pending, confirmQuit, left>>
  /\ Rebuilt
ToggleGroup == Free /\ View([view EXCEPT !.domainMode = ~@, !.expanded = {}])
ShowDecided == Free /\ View([view EXCEPT !.showDecided = ~@])
Enter ==
  \/ /\ Free /\ cursor # NoItem /\ IsHeader(cursor)
     /\ View([view EXCEPT !.collapsed = Turn(@, cursor.key)])
  \/ /\ Free /\ OnRow /\ ~cursor.child /\ Expandable(cursor)
     /\ View([view EXCEPT !.expanded = Turn(@, cursor.key)])
Filter ==
  \/ Free /\ View([view EXCEPT !.filtering = TRUE])
  \/ left = "no" /\ view.filtering /\ \E f \in {{}, Needle} : View([view EXCEPT !.filter = f])
  \/ left = "no" /\ view.filtering /\ View([view EXCEPT !.filtering = FALSE])

\* q and its question, and w; the flow stays on the screen when nothing is
\* selected. result keeps include-kept only beside a delete.
Leave(how) ==
  /\ left' = how /\ confirmQuit' = FALSE
  /\ UNCHANGED <<sel, protected, newlyProtected, view, cursor, acked, pending>>
QuitReview ==
  /\ Free
  /\ \/ (\A s \in Senders : sel[s] = {}) /\ Leave("quit")
     \/ /\ \E s \in Senders : sel[s] # {}
        /\ confirmQuit' = TRUE
        /\ UNCHANGED <<sel, protected, newlyProtected, view, cursor, acked, pending, left>>
AnswerQuit ==
  /\ left = "no" /\ confirmQuit
  /\ \/ Leave("quit")
     \/ /\ confirmQuit' = FALSE
        /\ UNCHANGED <<sel, protected, newlyProtected, view, cursor, acked, pending, left>>
Result ==
  [s \in {k \in Senders : Selects(sel[k])} |->
     IF Deletes(sel[s]) THEN sel[s] ELSE sel[s] \ {"include_kept"}]
WriteKey == Free /\ DOMAIN Result # {} /\ Leave("written")
ReviewAgain == left = "written" /\ Leave("no")

ReviewKey ==
  \/ Move \/ Toggle("unsubscribe") \/ Toggle("delete_matched")
  \/ \E field \in {"delete_all", "include_kept"} : Ask(field) \/ ToggleAcked(field)
  \/ \E yes \in BOOLEAN : Confirm(yes)
  \/ BulkKey \/ ProtectCurrent
  \/ ToggleGroup \/ ShowDecided \/ Enter \/ Filter
  \/ QuitReview \/ AnswerQuit \/ WriteKey \/ ReviewAgain

\* newModel: protected by the config or the database.
FirstView ==
  [domainMode |-> TRUE, showDecided |-> FALSE, filtering |-> FALSE, filter |-> {},
   collapsed |-> {}, expanded |-> {}]
ReviewInit ==
  /\ sel = [s \in Senders |-> {}]
  /\ protected = {s \in Senders : Group[s].protected} /\ newlyProtected = {}
  /\ view = FirstView
  /\ acked = {} /\ pending = NoQuestion /\ confirmQuit = FALSE /\ left = "no"
  /\ cursor \in Restored(NoItem)

NewReview ==
  /\ sel' = [s \in Senders |-> {}]
  /\ protected' = {s \in Senders : Group[s].protected} /\ newlyProtected' = {}
  /\ view' = FirstView
  /\ acked' = {} /\ pending' = NoQuestion /\ confirmQuit' = FALSE /\ left' = "no"
  /\ cursor' \in Restored(NoItem)'

-----------------------------------------------------------------------------
\* Properties.

ReviewTypeOK ==
  /\ \A s \in Senders : sel[s] \subseteq Marks /\ (sel[s] # {} => Selects(sel[s]))
  /\ LET items == Items IN IF items = {} THEN cursor = NoItem ELSE cursor \in items
  /\ newlyProtected \subseteq protected
  /\ acked \subseteq {"delete_all", "include_kept"} /\ left \in {"no", "quit", "written"}

\* No decision leaves the screen for a protected sender, also when it became
\* protected after it was marked, through whichever row or grouping it was
\* reached (toggle, bulk, protectCurrent, result).
NoProtectedDecision == DOMAIN Result \cap protected = {}

\* Delete-all and include-kept are on no sender before the session's question
\* was answered with yes (startDeleteAll, startIncludeKept, handleConfirmKey).
EscalationsAsked == \A s \in Senders : sel[s] \cap {"delete_all", "include_kept"} \subseteq acked

\* a and A never mark a protected sender, nor one that sends receipts or
\* security mail from a cursor outside the keep section, however senders are
\* merged into domains (bulk, baseItems, sectionOf).
SelectAllSpares ==
  [][AllUnsub \/ AllDelete =>
       \A s \in Senders : sel'[s] # sel[s] =>
         /\ s \notin protected
         /\ Group[s].keepCategories => SectionShown(cursor) = "keep"]_reviewVars

-----------------------------------------------------------------------------
\* What the properties rest on.

\* A question is open about senders that are not protected, and a protected
\* sender has no mark: no key protects one while a question is open.
AsksUnprotected ==
  pending = NoQuestion \/ /\ pending.field \in {"delete_all", "include_kept"}
                          /\ pending.keys \subseteq Senders \ protected
Unmarked == protected \subseteq Senders /\ \A s \in protected : sel[s] = {}
ReviewInv ==
  /\ sel \in [Senders -> SUBSET Marks] /\ ReviewTypeOK
  /\ Unmarked /\ AsksUnprotected /\ EscalationsAsked
=============================================================================
