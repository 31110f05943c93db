SPECIFICATION Spec
CONSTANTS
    s1 = s1
    s2 = s2
    Sessions = {s1}
    Refs = {1}
    Size <- UnitSize
    Grace = 1
    MaxBytes = 0
    NoRow = NoRow
    None = None
    MaxNow = 2
    MaxReads = 0
    Frames = {"gc"}
INVARIANT StagedStored
