\* A full disk or a crash cuts an audit line short.
SPECIFICATION Spec
CONSTANTS
  Folders = {"A", "B"}
  Trash = "Trash"
  MessageIDs = {"X", "Y", "Z"}
  NoId = "none"
  Copies <- DuplicateCopies
  IdOf <- DuplicateIds
  Home <- DuplicateHomes
  FirstUid <- DuplicateUids
  FirstNext = 5
  Starred0 = {}
  HasMove = TRUE
  HasUIDPlus = TRUE
  ImapBatch = 1
  FaultKinds = {"crash", "audit"}
  MaxFaults = 1
  UserActs = {}
  MaxUserActs = 0
  Senders = {"ann", "bob"}
  SenderOf <- DuplicateSenders
  Bulk = {1, 2, 3, 4, 5}
  Transactional = {}
  Scanned = {1, 2, 3, 4}
  Unsubscribe = {"ann"}
  DeleteMatched = {"bob"}
  DeleteAll = {"ann"}
  IncludeKept = {}
  KeepEnabled = TRUE
  Protected = {}
  OwnAddress = {}
  WellKnown = {}
  SpecialUse = {}
  NeverDest = {}
  MoveBatch = 2
  NeverTouch = {}
  MarkedUse = {}
  MaxUndos = 1
INVARIANTS
  UndoKnows
