SPECIFICATION MCSpec
CONSTANTS
    ka = ka
    kb = kb
    kc = kc
    kd = kd
    ke = ke
    kf = kf
    p1 = p1
    p2 = p2
    Keys <- MCKeys
    Parts <- MCParts
    PartOf <- MCPartOf
    Chains <- MCChains
    MemCap = 2
    OffCap = 2
    LedgerPolicies <- CountedPolicies
    MaxCalls = 6
INVARIANTS
    TiersExact
    NoDangling
    OnlyReadBlocksWritten
    CountersAgree
    ContentsCounted
PROPERTY LeavesUnderPressure
SYMMETRY MCSymmetry
CHECK_DEADLOCK FALSE
