SPECIFICATION PlainSpec
CONSTANTS
  NumReqs = 3
  DecodeLen <- MCThreeLens
  NumWorkers = 3
  Role <- MCSharedDecode
  Burst = FALSE
  MaxRunning = 2
  DispatchFails = FALSE
  Policy = "round_robin"
  DataParallel = FALSE
  DpRank <- MCOneRank
  NoRank = NoRank
  NoMeta = NoMeta
  Source = Source
  Engine = Engine
  Done = Done
INVARIANT TransferredKvIsLoaded
CHECK_DEADLOCK FALSE
