\* A crash between the rows and the cursor of a first scan, and a rebuilt mailbox.
SPECIFICATION Spec
CONSTANTS
  Folders = {"A", "B", "J"}
  Messages = {"m1", "m2", "m3", "m4", "m5"}
  Mail0 <- Mail
  Next0 <- NextUids
  Senders = {"ann", "bob"}
  SenderOf <- From
  Broken = {}
  Nameless = {"m2"}
  WellKnown = {}
  SpecialUse = {"J"}
  NoUidNext = {"B"}
  ChunkSize = 4
  MaxUid = 7
  FaultKinds = {"crash"}
  MaxFaults = 1
  MaxActs = 2
  MaxScans = 2
INVARIANTS
  RescannedFromZero
CHECK_DEADLOCK FALSE
