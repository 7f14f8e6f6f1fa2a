SPECIFICATION FairSpec
CONSTANTS
    Lines <- MCLines
    Producer = {p1}
    BufWords = 4
    MaxCliFd = 2
    FifoCap = 1
    QUEUE_MAXMSG = 1
    MaxLines = 3
    MaxMsgs = 2
    MaxLives = 2
INVARIANTS
    
    CommandsReachOnce
    MessagesSurvive
PROPERTIES
    EveryoneServed
CHECK_DEADLOCK FALSE
