SPECIFICATION Spec
CONSTANTS
    NCPU = 2
    NENV = 4
    Pgdir = {p1, p2, p3, p4}
    NextPgdir <- AnyPgdir
    KernPgdir = KernPgdir
    None = None
    MaxGen = 2
    GenWraps = FALSE
    Calls = {"yield", "exofork", "set_status", "env_destroy", "exec_commit", "fault"}
    Gates = {"trap", "sysenter"}
    LibraryUse = {"set_status", "env_destroy", "exec_commit"}
    Boot = 1
INVARIANTS
    ZombieOnCpu
CHECK_DEADLOCK FALSE
