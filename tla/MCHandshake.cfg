SPECIFICATION FairSpec
CONSTANTS
    TxQueueLen = 2
    MaxMsgs = 4
    Core1First = TRUE
INVARIANTS
    ViewsAfterFill
    ReadyMeansListening
    NoEarlyMessageStranded
PROPERTIES
    LinkComesUp
    EveryMessageRead
CHECK_DEADLOCK FALSE
