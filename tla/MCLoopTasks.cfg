SPECIFICATION FairSpec
CONSTANTS
    Loop = Loop
    User = {u1, u2}
    Acceptor = {}
    AccConn = {}
    UserConn = {c1}
    MaxTask = 2
    Ops = {"add_net", "add_task", "stop"}
    SendFails = TRUE
    None = None
INVARIANTS NoLostWakeup TasksInOrder
PROPERTY TaskRuns
CHECK_DEADLOCK FALSE
