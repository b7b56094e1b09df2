CONSTANTS
    HeapVals = {8, 10, 11}
    HeapSize = 5
    MaxContexts = 6
    Ns = {5, 8, 9}
    ByteBits = 3
    StringSize = 3
    Strings = {"x", "y"}
    Characters <- MCCharacters
    BufferSize = 3
    Buffers = {"a", "b"}
    MaxByte = 2
    Objects = {"x", "y"}
    Blocks = {"b1", "b2", "b3"}
    MaxSize = 3
    Expand = {0, 2}
    NULL = "null"
    MaxParam = 5
    MaxCalls = 14
    Sections = {"s", "t"}
    Keys = {"k"}
    NodeValues <- MCNodeValues
    Texts <- MCTexts
    MaxArray = 1
SPECIFICATION Spec
INVARIANTS HeapSafe ScansFind BuffersSafe GapBounded ReadsBack
PROPERTY KeysKept
CHECK_DEADLOCK FALSE
