SPECIFICATION FairSpec
CONSTANTS
    CPU = {c1, c2, c3}
    NoCPU = NoCPU
    Interval = 2
INVARIANTS
    NoFalsePanic
PROPERTIES
    LockProgress
    ImplementsMutex
