SPECIFICATION FairSpec
CONSTANTS
    NBUF = 3
    TxQueueLen = 2
INVARIANTS
    NoLostDoorbell
    NoLostKick
PROPERTIES
    AllReadOnceQuiet
