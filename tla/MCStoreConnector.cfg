SPECIFICATION MCSpec
CONSTANTS
    NumBlocks = 4
    BlockSize = 2
    Watermark = 0
    ka = ka
    kb = kb
    kc = kc
    kd = kd
    r1 = r1
    r2 = r2
    r3 = r3
    r4 = r4
    NoKey = NoKey
    Reserve = Reserve
    Keys <- MCKeys
    Reqs <- MCReqs
    PrefillLen <- MCPrefillLen
    DecodeLen <- MCDecodeLen
    InputKeys <- MCInputKeys
    OutputKeys <- MCOutputKeys
    Arrival <- MCArrival
    MaxParallel = 3
    MaxOccupied = 4
    MaxMail = 2
    MaxAccess = 100
    Configs <- MCConfigs
    MemCap = 2
    OffCap = 1
INVARIANTS
    MatchesSound
    PrefillIsSaved
    PinnedWhileSaved
PROPERTIES
    SpillsExact
    EveryRequestFinishes
CHECK_DEADLOCK FALSE
