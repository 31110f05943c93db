SPECIFICATION FairSpec
CONSTANTS
    t1 = t1
    None = None
    Tokens = {}
    Switches = {}
    ReviveBreaker = 2
    MyVersion = 1
    DiskVersion = 2
    LastVersion = 2
    LateRegister = FALSE
    MaxChildren = 2
    MaxFaults = 1
    MaxToggles = 0
PROPERTY ReplacementBinds
