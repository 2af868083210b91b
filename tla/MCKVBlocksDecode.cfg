SPECIFICATION Spec
CONSTANTS
    NumBlocks = 4
    BlockSize = 2
    Watermark = 0
    ka = ka
    kb = kb
    kc = kc
    kx = kx
    r1 = r1
    r2 = r2
    r3 = r3
    NoKey = NoKey
    Reserve = Reserve
    Keys <- MCKeys
    Reqs <- MCReqs
    PrefillLen <- MCPrefillLen
    DecodeLen <- MCDecodeLen
    InputKeys <- MCInputKeys
    OutputKeys <- MCOutputKeys
    MaxAccess = 3
PROPERTY DecodeBlocksNotCached
CHECK_DEADLOCK FALSE
