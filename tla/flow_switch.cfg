\* Two mailboxes, one of them signed in with a browser, from every landing screen.
SPECIFICATION Spec
CONSTANTS
  Accounts = {"a", "b"}
  OAuth = {"b"}
  First = "a"
  NoAccount = "none"
  NoLink = "nolink"
  Closed = "closed"
  MaxKeys = 8
  MaxOps = 3
  MaxPlans = 2
INVARIANTS
  OwnConnection
