\* Two saves of accounts that overlap.
SPECIFICATION Spec
CONSTANTS
  Senders = {"news"}
  Group <- MCGroup
  Needle <- MCNeedle
  Typed = {"a", "b"}
  Domains <- MCDomains
  DomainTable <- MCTable
  Providers <- MCProviders
  MaxLookups = 1
  Names = {"a", "b"}
  Rotating = {"b"}
  Workers = {1}
  MaxIssued = 2
  NoEntry <- None
  Handwritten = {}
  MaxCommands = 2
  Files <- MCFiles
  MaxKeys = 5
PROPERTIES
  OthersKept
