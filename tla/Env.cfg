SPECIFICATION OneBootSpec
CONSTANTS
    NCPU = 2
    NENV = 5
    Pgdir = {1, 2, 3, 4, 5}
    NextPgdir <- AnyPgdir
    KernPgdir = KernPgdir
    None = None
    MaxGen = 1
    GenWraps = TRUE
    Calls = {"yield", "exofork", "set_status", "env_destroy", "exec_commit", "fault"}
    Gates = {"trap"}
    LibraryUse = {"set_status", "env_destroy", "exec_commit"}
    Boot = 1
INVARIANTS
    OneCpuPerEnv
    RunningIsCurrent
    AddressSpaceMatches
    FreeListExact
    ZombieOnCpu
PROPERTIES
    FreedOnItsCpu
    DyingIsFinal
CHECK_DEADLOCK FALSE
