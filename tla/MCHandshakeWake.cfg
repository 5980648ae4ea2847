SPECIFICATION FairSpec
CONSTANTS
    TxQueueLen = 2
    MaxMsgs = 1
    Core1First = FALSE
PROPERTIES
    HandlerWakesHandshake
CHECK_DEADLOCK FALSE
