SPECIFICATION Spec
CONSTANTS
    s1 = s1
    s2 = s2
    Sessions = {s1, s2}
    Refs = {1}
    Size <- UnitSize
    Grace = 0
    MaxBytes = 0
    NoRow = NoRow
    None = None
    MaxNow = 1
    MaxReads = 2
    Frames = {"mint", "evict", "gc", "restart"}
SYMMETRY Symmetry
VIEW WithoutPutTimes
INVARIANTS TypeOK HotAfterReads FirstPutProtected SplicedWasStored
