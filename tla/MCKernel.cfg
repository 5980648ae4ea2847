CONSTANTS
    idle = idle
    t1 = t1
    t2 = t2
    rpmsg = rpmsg
    Task = {idle, t1, t2, rpmsg}
    Idle = idle
    BasePriority <- AppPriority
    MaxPriority = 2
    TickModulus = 4
    OverflowModulus = 1
    PendedLimit = 2
    ValueLimit = 2
    Sleepers = {t2}
    Periodic = {t1}
    Takers = {rpmsg}
    Setters = {t2}
    Settable = {t1, t2}
    NewPriority = {0, 1}
    Waits = {0, 1, 3}
SPECIFICATION FairSpec
INVARIANTS ListsExact NoOversleep SuspendedAlone HighestRuns NoLostNotification
PROPERTIES PeriodicExact ImplementsAlarms SleepEnds NotifiedTaskTakes
CHECK_DEADLOCK TRUE
