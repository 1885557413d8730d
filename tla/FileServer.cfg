SPECIFICATION Spec
CONSTANTS
    Client = {c1, c2}
    First = c1
    File = {f1, f2}
    MAXOPEN = 2
    MAXFD = 2
    MaxGen = 2
    Frame = {p1, p2, p3, p4}
    NextFrame <- AnyFrame
    None = None
SYMMETRY FrameSymmetry
INVARIANTS
    RightFile
    OpenStaysOpen
CHECK_DEADLOCK FALSE
