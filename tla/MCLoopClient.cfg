SPECIFICATION FairSpec
CONSTANTS
    Loop = Loop
    User = {u1, u2}
    Acceptor = {}
    AccConn = {}
    UserConn = {c1}
    MaxTask = 0
    Ops = {"add_net", "reconnect", "send_msg", "terminate", "stop"}
    SendFails = TRUE
    None = None
INVARIANTS RefExact LoopNeverUsesFreed DeletedUnlinked
PROPERTY StopExitsOrStuck
CHECK_DEADLOCK FALSE
