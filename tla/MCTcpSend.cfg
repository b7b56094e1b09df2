SPECIFICATION FairSpec
CONSTANTS
    MaxLen = 3
    MaxMsg = 4
    MaxAgain = 3
    nalloc = 2
    SizeMod = 8
    NULL = NULL
INVARIANT SendSafe
PROPERTIES WedgedForever TailWaits PartCompletes
CHECK_DEADLOCK FALSE
