CONSTANTS
    Threads = {"t1", "t2"}
    URLs <- MCURLs
    Known = {"good"}
    Interfaces = {0, 1, 6}
    NoLoop = "none"
    nalloc = 3
    Lens = {0, 2}
    log_max_size = 4
    MaxRecords = 6
    Rx = {"rx"}
    Tx = {"tx"}
    Io = {"io"}
    Other = {"other"}
    Nobody = "nobody"
    TableSize = 3
    ShmObjects = {"s1", "s2"}
    ShmSizes = {0, 2}
    MaxHandles = 4
SPECIFICATION Spec
INVARIANTS ThreadsSafe LogSafe OwnersSafe MapUsable
PROPERTY LoopThreadsStop
CHECK_DEADLOCK FALSE
