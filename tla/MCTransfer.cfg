SPECIFICATION FairSpec
CONSTANTS
    Client = {c1}
    Thread = {t1, t2}
    Nobody = none
    MaxFd = 5
    Blocks = 2
    LogSize = 3
    MaxFile = 3
    Leftover = {99}
    Mortal = {"client", "server"}
INVARIANTS
    OneTransfer
    FileOfTransfer
    VerdictRight
PROPERTIES
    
    PortFreed
CHECK_DEADLOCK FALSE
