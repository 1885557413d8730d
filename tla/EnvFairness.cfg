SPECIFICATION OneBootSpec
CONSTANTS
    NCPU = 2
    NENV = 6
    Pgdir = {1, 2, 3, 4, 5, 6}
    NextPgdir <- AnyPgdir
    KernPgdir = KernPgdir
    None = None
    MaxGen = 1
    GenWraps = TRUE
    Calls = {"yield", "exofork", "set_status"}
    Gates = {"trap", "sysenter"}
    LibraryUse = {"set_status"}
    Boot = 2
PROPERTIES
    ReadyRuns
CHECK_DEADLOCK FALSE
