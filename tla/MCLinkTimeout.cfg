SPECIFICATION Spec
CONSTANTS
    NUM = 2
    IDXMOD = 4
    TxQueueLen = 1
    NMsgs = 5
    Foreign = {}
    Empty = {2}
    NActive = 0
    KickMayTimeOut = TRUE
INVARIANTS
    EachMessageOnce
    NoBufferLeak
    RecursionBounded
    NoMessageStranded
    NeverWedged
CHECK_DEADLOCK FALSE
