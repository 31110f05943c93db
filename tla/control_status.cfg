SPECIFICATION Spec
CONSTANTS
    t1 = t1
    None = None
    Tokens = {}
    Switches = {"kill"}
    ReviveBreaker = 3
    MyVersion = 1
    DiskVersion = 1
    LastVersion = 1
    LateRegister = FALSE
    MaxChildren = 3
    MaxFaults = 0
    MaxToggles = 2
INVARIANT StatusFresh
