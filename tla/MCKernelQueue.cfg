CONSTANTS
    idle = idle
    low = low
    high = high
    Task = {idle, low, high}
    Idle = idle
    BasePriority <- AppPriority
    MaxPriority = 1
    TickModulus = 3
    OverflowModulus = 3
    WrapLimit = 2
    PendedLimit = 1
    ValueLimit = 0
    Sleepers = {}
    Periodic = {}
    Takers = {}
    Setters = {}
    Settable = {}
    NewPriority = {}
    Waits = {2}
    x = x
    y = y
    Item = {x, y}
    Length = 2
    Positions = {"back", "front"}
    Receivers = {low, high}
    Senders = {low}
SPECIFICATION QSpec
INVARIANTS QTypeOK EventListsExact LockedAlone NobodyForgotten
PROPERTIES ImplementsFifo TimeoutExact
CONSTRAINT FewWraps
SYMMETRY ItemsAlike
