-------------------------------- MODULE Form --------------------------------
\* The account form: internal/tui/screen_setup.go. Of the fields, the account
\* name and the domain of the address are kept; whether the others are filled
\* in is a free choice, and so is what the MX lookup finds.
EXTENDS Integers, Sequences, SequencesExt

CONSTANTS
  Typed,            \* the account names that are typed; "" is no name
  Domains,          \* domains of addresses; "" is no address yet
  DomainTable,      \* [Domains -> provider], what Detect knows, or "none"
  Providers,        \* the picker's stops after auto-detect, in order
  MaxLookups        \* bound: MX lookups of a form, and those under way

ASSUME FormAssumption ==
  /\ "" \in Domains /\ DomainTable[""] = "none" /\ "generic" \in {Providers[i] : i \in DOMAIN Providers}
  /\ Providers \in Seq(STRING)
  /\ \A d \in Domains : DomainTable[d] \in {"none"} \cup {Providers[i] : i \in DOMAIN Providers}
  /\ MaxLookups \in Nat

VARIABLES
  form,             \* the setupModel on screen, or the last one that was
  lookups           \* the sequence numbers of the MX lookups under way

formVars == <<form, lookups>>

Stops == <<"auto">> \o Providers
ProviderSet == {Providers[i] : i \in DOMAIN Providers}
Unresolved == "none"

\* SupportsOAuth, oauthOnly, useOAuth.
OAuthOffered(f) == f.resolved \in {"gmail", "outlook"}
OAuthOnly(f) == f.resolved = "outlook"
UseOAuth(f) == OAuthOffered(f) /\ (OAuthOnly(f) \/ f.authChoice = "oauth")

-----------------------------------------------------------------------------
\* Which provider the form describes.

\* adopt: Outlook takes nothing but OAuth, and the picker stays there afterwards.
Adopt(f, p) ==
  [f EXCEPT !.resolved = p, !.authChoice = IF p = "outlook" THEN "oauth" ELSE @]

\* resolve: the picker, else the domain table; the network is not asked.
Resolved(f) ==
  IF f.choice # "auto" THEN Adopt(f, f.choice)
  ELSE IF DomainTable[f.domain] = "none" THEN [f EXCEPT !.resolved = Unresolved]
  ELSE Adopt(f, DomainTable[f.domain])

NewForm(mode, name, domain, oauth, existing) ==
  Resolved([mode |-> mode, name |-> name, domain |-> domain, existing |-> existing,
            choice |-> "auto", resolved |-> Unresolved,
            authChoice |-> IF oauth THEN "oauth" ELSE "password",
            looking |-> FALSE, mxSeq |-> 0, submitAfterMX |-> FALSE,
            saving |-> FALSE, signingIn |-> FALSE])

\* lookupMX: at most one lookup of a form at a time.
WantsLookup(f) ==
  f.choice = "auto" /\ f.resolved = Unresolved /\ ~f.looking /\ f.domain # ""
Looking(f) == [f EXCEPT !.mxSeq = @ + 1, !.looking = TRUE]
MayLookUp(f) == Len(lookups) < MaxLookups /\ f.mxSeq < MaxLookups
LookUp(f) ==
  WantsLookup(f) /\ MayLookUp(f) /\ form' = Looking(f) /\ lookups' = Append(lookups, f.mxSeq + 1)

-----------------------------------------------------------------------------
\* Keys: update, paste, moveFocus, cycle, cycleAuth, submit.

FormFree == ~form.saving /\ ~form.signingIn

TypeName(n) ==
  /\ FormFree /\ form' = [form EXCEPT !.name = n] /\ UNCHANGED lookups
TypeEmail(d) ==
  /\ FormFree /\ form' = Resolved([form EXCEPT !.domain = d]) /\ UNCHANGED lookups
LeaveEmail == FormFree /\ LookUp(form)

\* The picker goes one stop to the left or to the right.
Neighbours(choice) ==
  LET at == CHOOSE i \in DOMAIN Stops : Stops[i] = choice
      n == Len(Stops)
  IN  {Stops[(at % n) + 1], Stops[((at + n - 2) % n) + 1]}
Cycle(choice) ==
  /\ FormFree /\ choice \in Neighbours(form.choice)
  /\ LET f == Resolved([form EXCEPT !.choice = choice])
     IN  LookUp(f) \/ (~WantsLookup(f) /\ form' = f /\ UNCHANGED lookups)
CycleAuth ==
  /\ FormFree /\ OAuthOffered(form) /\ ~OAuthOnly(form)
  /\ form' = [form EXCEPT !.authChoice = IF @ = "oauth" THEN "password" ELSE "oauth"]
  /\ UNCHANGED lookups

\* account: the checks the kept fields can fail.
Complete(f) ==
  /\ f.name # "" /\ f.domain # "" /\ f.resolved # Unresolved
  /\ f.mode = "add" => f.name \notin f.existing

\* submit with the provider settled: an error, or the save.
Submitted(f) ==
  \/ form' = f
  \/ Complete(f) /\ form' = [f EXCEPT !.saving = TRUE]
Submit ==
  /\ FormFree
  /\ \/ form.looking /\ form' = [form EXCEPT !.submitAfterMX = TRUE] /\ UNCHANGED lookups
     \/ ~form.looking /\ LookUp([form EXCEPT !.submitAfterMX = TRUE])
     \/ ~form.looking /\ ~WantsLookup(form) /\ Submitted(form) /\ UNCHANGED lookups

\* mxResult: an answer that is not the newest lookup's, or that comes while a
\* provider is picked by hand, changes nothing else. The form may have been left.
Ignores(seq) == ~form.looking \/ seq # form.mxSeq
\* Mutant of Overridden: the answer counts whatever was picked.
OverriddenNever == FALSE
Overridden == form.choice # "auto"
MXAnswer(i, p) ==
  LET settled == [form EXCEPT !.looking = FALSE]
      adopted == [Adopt(settled, p) EXCEPT !.submitAfterMX = FALSE]
      seq == lookups[i]
  IN  /\ lookups' = RemoveAt(lookups, i)
      /\ \/ Ignores(seq) /\ UNCHANGED form
         \/ ~Ignores(seq) /\ Overridden /\ form' = settled
         \/ /\ ~Ignores(seq) /\ ~Overridden
            /\ \/ ~form.submitAfterMX /\ form' = adopted
               \/ form.submitAfterMX /\ Submitted(adopted)

FormKey ==
  \/ \E n \in Typed : TypeName(n)
  \/ \E d \in Domains : TypeEmail(d)
  \/ LeaveEmail \/ (\E choice \in {Stops[i] : i \in DOMAIN Stops} : Cycle(choice))
  \/ CycleAuth \/ Submit
FormAnswers == \E i \in DOMAIN lookups : \E p \in ProviderSet : MXAnswer(i, p)

-----------------------------------------------------------------------------
\* Properties.

FormTypeOK ==
  /\ form.resolved \in ProviderSet \cup {Unresolved}
  /\ form.looking => form.mxSeq > 0
  /\ form.saving => form.resolved # Unresolved /\ form.name # ""

\* A provider picked by hand is the one in effect, whenever the answers of the
\* lookups that were under way arrive (cycle, mxResult, adopt).
HandPickKept == form.choice # "auto" => form.resolved = form.choice

-----------------------------------------------------------------------------
\* What the properties rest on: a save starts with no lookup awaited, so that
\* nothing it was started with changes under it.
FormRecords(names) ==
  [mode : {"first", "add", "edit"}, name : names \cup {""}, domain : Domains,
   existing : SUBSET names, choice : {Stops[i] : i \in DOMAIN Stops},
   resolved : ProviderSet \cup {Unresolved}, authChoice : {"oauth", "password"},
   looking : BOOLEAN, mxSeq : Nat, submitAfterMX : BOOLEAN,
   saving : BOOLEAN, signingIn : BOOLEAN]
FormInv ==
  /\ FormTypeOK /\ HandPickKept
  /\ form.saving => ~form.looking
=============================================================================
