SPECIFICATION FairSpec
CONSTANTS
    t1 = t1
    None = None
    Tokens = {}
    Switches = {}
    ReviveBreaker = 3
    MyVersion = 1
    DiskVersion = 2
    LastVersion = 2
    LateRegister = FALSE
    MaxChildren = 3
    MaxFaults = 0
    MaxToggles = 0
PROPERTY KeepsReplacing
