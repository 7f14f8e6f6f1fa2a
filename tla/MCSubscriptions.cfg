SPECIFICATION Spec
CONSTANTS
    Client = {c1, c2}
    NoClient = none
    Room = {0, 1}
    RandRoom = 1
    MaxFd = 2
    SndBuf = 2
    RcvBuf = 2
    QUEUE_MAXMSG = 1
    FifoCap = 1
    MaxTime = 1
    MaxMsgs = 0
    CONN_TIMEOUT = 0
    BUFFER_CLEANUP_PERIOD = 3
    MaxTokens = 2
    StaleStack = FALSE
    MaxCmds = 2
    Commands = {"add", "delete"}
    OperatorWaits = TRUE
SYMMETRY Symmetry
INVARIANTS
    CounterExact
PROPERTIES
    Subscriptions
CHECK_DEADLOCK FALSE
