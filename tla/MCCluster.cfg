SPECIFICATION MCSpec
CONSTANTS
  NumReqs = 4
  DecodeLen <- MCDecodeLen
  NumWorkers = 4
  Role <- MCRoles
  Burst = FALSE
  MaxRunning = 2
  DispatchFails = FALSE
  Policy = "round_robin"
  DataParallel = FALSE
  DpRank <- MCRanks
  NoRank = NoRank
  NoMeta = NoMeta
  Source = Source
  Engine = Engine
  Done = Done
INVARIANTS
  RequestsKept
  NoSleepWithWork
  GroupsHold
PROPERTIES
  FlowsAsPromised
  StopReachesAll
CHECK_DEADLOCK FALSE
