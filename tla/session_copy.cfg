\* A server with UIDPLUS and no MOVE: the COPY, STORE, EXPUNGE fallback.
SPECIFICATION FairSpec
CONSTANTS
  Folders = {"A"}
  Trash = "Trash"
  MessageIDs = {"X", "Y"}
  NoId = "none"
  Copies <- FallbackCopies
  IdOf <- FallbackIds
  Home <- FallbackHomes
  FirstUid <- FallbackUids
  FirstNext = 5
  Starred0 = {}
  HasMove = FALSE
  HasUIDPlus = TRUE
  ImapBatch = 1
  FaultKinds = {"crash", "move", "audit", "db", "cancel"}
  MaxFaults = 3
  UserActs = {}
  MaxUserActs = 0
  Senders = {"ann", "bob"}
  SenderOf <- FallbackSenders
  Bulk = {1, 2, 3, 4}
  Transactional = {}
  Scanned = {1, 2, 3}
  Unsubscribe = {"ann"}
  DeleteMatched = {"bob"}
  DeleteAll = {"ann"}
  IncludeKept = {}
  KeepEnabled = TRUE
  Protected = {}
  OwnAddress = {}
  WellKnown = {}
  SpecialUse = {}
  NeverDest = {}
  MoveBatch = 2
  NeverTouch = {}
  MarkedUse = {}
  MaxUndos = 1
INVARIANTS
  NothingLost
  ConfirmedMeansGone
PROPERTIES
  OperationsBounded
  ImplementsSoftDelete
