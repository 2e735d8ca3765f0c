\* Another mail client stars, unstars, files and rebuilds mail during the run.
SPECIFICATION Spec
CONSTANTS
  Folders = {"A", "J", "S"}
  Trash = "Trash"
  MessageIDs = {"X", "Y", "Z", "W"}
  NoId = "none"
  Copies <- MixedCopies
  IdOf <- MixedIds
  Home <- MixedHomes
  FirstUid <- MixedUids
  FirstNext = 4
  Starred0 = {}
  HasMove = TRUE
  HasUIDPlus = TRUE
  ImapBatch = 1
  FaultKinds = {"audit", "imap", "db", "cancel"}
  MaxFaults = 1
  UserActs = {"star", "unstar", "move", "rebuild"}
  MaxUserActs = 2
  Senders = {"ann", "bob"}
  SenderOf <- MixedSenders
  Bulk = {1, 2, 3, 4, 5}
  Transactional = {2}
  Scanned = {1, 2, 3, 4}
  Unsubscribe = {"ann"}
  DeleteMatched = {"bob"}
  DeleteAll = {"ann"}
  IncludeKept = {}
  KeepEnabled = TRUE
  Protected = {}
  OwnAddress = {}
  WellKnown = {"S"}
  SpecialUse = {"J"}
  NeverDest = {}
  MoveBatch = 2
  NeverTouch = {"S"}
  MarkedUse = {"J"}
  MaxUndos = 1
INVARIANTS
  RightMessage
  NoSteadyStar
  AllAccounted
