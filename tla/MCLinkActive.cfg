SPECIFICATION FairSpec
CONSTANTS
    NUM = 2
    IDXMOD = 4
    TxQueueLen = 1
    NMsgs = 2
    Foreign = {2}
    Empty = {}
    NActive = 2
    KickMayTimeOut = FALSE
INVARIANTS
    ReportedMeansSent
PROPERTIES
    EveryActiveSent
CHECK_DEADLOCK FALSE
