SPECIFICATION FairSpec
CONSTANTS
    Loop = Loop
    User = {signal}
    Acceptor = {apt}
    AccConn = {c1, c2}
    UserConn = {}
    MaxTask = 0
    Ops = {"stop"}
    SendFails = TRUE
    None = None
INVARIANT ServerSafe
PROPERTY StopExits
CHECK_DEADLOCK FALSE
