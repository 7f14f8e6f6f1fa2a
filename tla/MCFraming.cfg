SPECIFICATION FairSpec
CONSTANTS
    Size = 3
    SndBuf = 7
    RcvBuf = 4
    MaxSends = 4
    MaxHandled = 6

    
    
PROPERTIES
    ClientEnds
CHECK_DEADLOCK FALSE
