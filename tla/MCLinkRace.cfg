SPECIFICATION Spec
CONSTANTS
    NUM = 2
    IDXMOD = 4
    TxQueueLen = 1
    NMsgs = 2
    Foreign = {}
    Empty = {}
    NActive = 1
    KickMayTimeOut = FALSE
INVARIANTS
    ReportedMeansSent
CHECK_DEADLOCK FALSE
