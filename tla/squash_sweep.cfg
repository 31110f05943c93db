SPECIFICATION SweepSpec
CONSTANTS
    s1 = s1
    s2 = s2
    Sessions = {s1}
    Refs = {1, 2, 3, 4}
    Size <- MixedSize
    Grace = 0
    MaxBytes = 4
    NoRow = NoRow
    None = None
    MaxNow = 2
    MaxReads = 1
    Frames = {"gc"}
INVARIANT ScanTakesVictims
PROPERTY SweepIsTight
