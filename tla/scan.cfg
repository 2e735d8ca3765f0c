\* Two scans of two folders, interrupted anywhere, with mail arriving and going
\* and mailboxes rebuilt in between. The program may stop: nothing makes the
\* user start another scan.
SPECIFICATION FairSpec
CONSTANTS
  Folders = {"A", "B", "J"}
  Messages = {"m1", "m2", "m3", "m4", "m5"}
  Mail0 <- Mail
  Next0 <- NextUids
  Senders = {"ann", "bob"}
  SenderOf <- From
  Broken = {}
  Nameless = {"m2"}
  WellKnown = {}
  SpecialUse = {"J"}
  NoUidNext = {"B"}
  ChunkSize = 4
  MaxUid = 7
  FaultKinds = {"imap", "db", "cancel", "crash"}
  MaxFaults = 2
  MaxActs = 2
  MaxScans = 2
INVARIANTS
  TypeOK
  NoHole
  ScanCovers
  RowsCurrent
  SendersRecorded
PROPERTIES
  CursorAdvances
  ScanBounded
  ScanTerminates
CHECK_DEADLOCK FALSE
