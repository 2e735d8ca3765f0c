----------------------------- MODULE MCScreens -----------------------------
\* An instance of Screens for TLC: a domain with a mailing list and a shop's
\* receipts, and a sender whose category the store could not tell.
EXTENDS Screens

MCGroup ==
  "news" :> [domain |-> "shop", count |-> 5, mixed |-> 0, keepCount |-> 0,
             keepCategories |-> FALSE, decided |-> FALSE, stillSending |-> TRUE, protected |-> FALSE]
  @@ "receipts" :> [domain |-> "shop", count |-> 2, mixed |-> 1, keepCount |-> 1,
             keepCategories |-> TRUE, decided |-> TRUE, stillSending |-> FALSE, protected |-> FALSE]
  @@ "list" :> [domain |-> "", count |-> 4, mixed |-> 0, keepCount |-> 0,
             keepCategories |-> FALSE, decided |-> FALSE, stillSending |-> FALSE, protected |-> FALSE]
MCNeedle == {"news"}
MCDomains == {"", "known.example", "other.example"}
MCTable == [d \in MCDomains |-> IF d = "known.example" THEN "gmail" ELSE "none"]
MCProviders == <<"gmail", "generic">>
None == [domain |-> "none", oauth |-> FALSE]
MCHandwritten == {[domain |-> "other.example", oauth |-> FALSE]}
MCFiles ==
  {[n \in {"a", "b"} |-> None],
   [n \in {"a", "b"} |-> IF n = "a" THEN [domain |-> "other.example", oauth |-> TRUE] ELSE None]}
=============================================================================
