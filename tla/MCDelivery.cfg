SPECIFICATION FairSpec
CONSTANTS
    Client = {c1}
    NoClient = none
    Room = {1}
    RandRoom = 1
    MaxFd = 1
    SndBuf = 2
    RcvBuf = 1
    QUEUE_MAXMSG = 1
    FifoCap = 1
    MaxTime = 2
    MaxMsgs = 2
    CONN_TIMEOUT = 1
    BUFFER_CLEANUP_PERIOD = 2
    MaxTokens = 1
    StaleStack = FALSE
    MaxCmds = 1
    Commands = {"add", "log"}
    OperatorWaits = TRUE
INVARIANTS
    PlainStreamOrdered
    ChecksumFailsLate
PROPERTIES
    DroppedUseless
    DeadCollected
    QueueDrained
CHECK_DEADLOCK FALSE
