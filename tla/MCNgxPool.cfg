SPECIFICATION Spec
CONSTANTS
    HeadCap = 4
    Cap = 6
    Alignment = 2
    FailLimit = 0
    Size = {1, 3, 6, 7}
    MaxBlock = 4
    MaxPiece = 5
INVARIANT PoolSafe
PROPERTY PassedBlocksIdle
