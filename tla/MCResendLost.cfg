SPECIFICATION Spec
CONSTANTS
    Client = {c1, c2}
    NoClient = none
    Room = {0}
    RandRoom = 1
    MaxFd = 2
    SndBuf = 3
    RcvBuf = 2
    QUEUE_MAXMSG = 1
    FifoCap = 1
    MaxTime = 1
    MaxMsgs = 1
    CONN_TIMEOUT = 1
    BUFFER_CLEANUP_PERIOD = 3
    MaxTokens = 2
    StaleStack = FALSE
    MaxCmds = 1
    Commands = {"add"}
    OperatorWaits = TRUE
SYMMETRY Symmetry
PROPERTIES
    ResendComplete
CHECK_DEADLOCK FALSE
