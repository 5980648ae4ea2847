SPECIFICATION Spec
CONSTANTS
    NUM = 3
    IDXMOD = 6
    Lens = {16, 20}
    Callers = {rpmsg}
INVARIANTS
    DescriptorExclusive
    RingNotBroken
PROPERTIES
    ImplementsExchange
