SPECIFICATION FairSpec
CONSTANTS
    NUM = 2
    IDXMOD = 4
    TxQueueLen = 1
    NMsgs = 4
    Foreign = {}
    Empty = {}
    NActive = 0
    KickMayTimeOut = FALSE
INVARIANTS
    EchoInOrder
PROPERTIES
    EveryMessageEchoed
CHECK_DEADLOCK FALSE
