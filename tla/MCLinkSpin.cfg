SPECIFICATION FairSpec
CONSTANTS
    NUM = 1
    IDXMOD = 2
    TxQueueLen = 1
    NMsgs = 3
    Foreign = {}
    Empty = {}
    NActive = 0
    KickMayTimeOut = TRUE
PROPERTIES
    PollReturns
CHECK_DEADLOCK FALSE
