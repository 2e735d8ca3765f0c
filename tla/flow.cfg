\* Two mailboxes, one of them signed in with a browser, from every landing screen.
SPECIFICATION FairSpec
CONSTANTS
  Accounts = {"a", "b"}
  OAuth = {"b"}
  First = "a"
  NoAccount = "none"
  NoLink = "nolink"
  Closed = "closed"
  MaxKeys = 6
  MaxOps = 3
  MaxPlans = 2
INVARIANTS
  TypeOK
  OneThingToStop
PROPERTIES
  SwitchDropsPlan
  WaitEnds
