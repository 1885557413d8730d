SPECIFICATION Spec
CONSTANTS
    CPU = {c1, c2}
    Proc = {e1, e2}
    First = e1
    Page = {p1, p2, p3, p4, p5, p6}
    NextPage <- AnyPage
    Va = {va1, va2}
    PDX <- OneTable
    FirstVa = va1
    Perm = {"W", "R"}
    None = None
    Foreign = FALSE
SYMMETRY CpuPageSymmetry
INVARIANTS
    RefsCounted
    FreeExact
    TlbFresh
PROPERTIES
    NobodyGainsWrite
CHECK_DEADLOCK FALSE
