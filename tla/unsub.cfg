\* Three senders on one host and one mail server, two requests at a time.
SPECIFICATION FairSpec
CONSTANTS
  Targets = {1, 2, 3}
  Planned <- ThreePlanned
  Stored <- ThreeStored
  Hosts = {"a", "p"}
  Literal = {}
  Private = {"p"}
  HTTPGet = TRUE
  FollowRedirects = 1
  MaxInFlight = 2
  AllowPrivateHosts = FALSE
  Interval = 2
  HasSMTP = TRUE
  Horizon = 1
INVARIANTS
  TypeOK
  SlotsApart
  InFlight
  HonestResult
  AskedOnce
PROPERTIES
  PhaseEnds
  WorkersBounded
