SPECIFICATION OneSpec
CONSTANTS
    NCPU = 2
    NENV = 5
    Pgdir = {1, 2, 3, 4, 5}
    NextPgdir <- LeastPgdir
    KernPgdir = KernPgdir
    None = None
    MaxGen = 2
    GenWraps = FALSE
    Calls = {"yield", "ipc_send", "ipc_recv", "env_destroy", "exofork", "set_status"}
    Gates = {"trap"}
    LibraryUse = {"set_status", "env_destroy"}
    Boot = 1
    Value = {v1}
    PageArgs = {TRUE}
CONSTRAINTS
    Few
INVARIANTS
    NoMissedRendezvous
    SleepersWait
PROPERTIES
    ImplementsRendezvous
CHECK_DEADLOCK FALSE
