SPECIFICATION Spec
CONSTANTS
    s1 = s1
    s2 = s2
    Sessions = {s1, s2}
    Refs = {1}
    Size <- UnitSize
    Grace = 1
    MaxBytes = 9
    NoRow = NoRow
    None = None
    MaxNow = 0
    MaxReads = 0
    Frames = {}
INVARIANT SquashRecoverable
