SPECIFICATION MCSpec
CONSTANTS
    NumBlocks = 5
    BlockSize = 2
    Watermark = 1
    ka = ka
    kb = kb
    kc = kc
    kd = kd
    r1 = r1
    r2 = r2
    r3 = r3
    r4 = r4
    r5 = r5
    NoKey = NoKey
    Reserve = Reserve
    Keys <- MCKeys
    Reqs <- MCReqs
    PrefillLen <- MCPrefillLen
    DecodeLen <- MCDecodeLen
    InputKeys <- MCInputKeys
    OutputKeys <- MCOutputKeys
    Arrival <- MCArrival
    MaxParallel = 3
    MaxOccupied = 4
    MaxMail = 4
    MaxAccess = 100
INVARIANTS
    SchedTypeOK
    NobodyLost
    BatchesReady
    FcfsUnlessCrowded
PROPERTIES
    OldestAdvances
    EveryoneFinishes
CHECK_DEADLOCK FALSE
