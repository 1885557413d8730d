SPECIFICATION OneSpec
CONSTANTS
    Proc = {e1, e2}
    First = e1
    Text = {t1}
    Data = {d1, d2, d3}
    Stack = {s1, s2, s3}
    XStack = {x1, x2}
    Frame <- Frames
    NextFrame <- AnyFrame
    Val = {v0, v1}
    Zero = v0
    None = None
SYMMETRY FrameSymmetry
INVARIANTS
    SharedIsReadOnly
PROPERTIES
    ImplementsPrivateMemory
CHECK_DEADLOCK FALSE
