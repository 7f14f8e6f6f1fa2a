SPECIFICATION Spec
CONSTANTS
    Client = {c1, c2, c3}
    NoClient = none
    Room = {0}
    RandRoom = 1
    MaxFd = 2
    SndBuf = 2
    RcvBuf = 2
    QUEUE_MAXMSG = 1
    FifoCap = 1
    MaxTime = 1
    MaxMsgs = 0
    CONN_TIMEOUT = 0
    BUFFER_CLEANUP_PERIOD = 3
    MaxTokens = 3
    StaleStack = TRUE
    MaxCmds = 1
    Commands = {"add"}
    OperatorWaits = TRUE
SYMMETRY Symmetry
INVARIANTS
    TypeOK
    SessionOwned
    RoomsExact
    LeakOnlyRejected
    AckOfPlainClientSafe
    FinMeansGone
CHECK_DEADLOCK FALSE
