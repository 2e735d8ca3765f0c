\* The review, the accounts screen and the form in one session.
SPECIFICATION Spec
CONSTANTS
  Senders = {"news", "receipts", "list"}
  Group <- MCGroup
  Needle <- MCNeedle
  Typed = {"a", "b"}
  Domains <- MCDomains
  DomainTable <- MCTable
  Providers <- MCProviders
  MaxLookups = 2
  Names = {"a", "b"}
  Rotating = {"b"}
  Workers = {1, 2}
  MaxIssued = 3
  NoEntry <- None
  Handwritten <- MCHandwritten
  MaxCommands = 2
  Files <- MCFiles
  MaxKeys = 5
INVARIANTS
  NoProtectedDecision
  EscalationsAsked
  HandPickKept
  TokenAccepted
  NothingLeftBehind
PROPERTIES
  SelectAllSpares
  
  FormWaitEnds
