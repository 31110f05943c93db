SPECIFICATION FairSpec
CONSTANTS
    t1 = t1
    None = None
    Tokens = {}
    Switches = {}
    ReviveBreaker = 2
    MyVersion = 1
    DiskVersion = 1
    LastVersion = 1
    LateRegister = FALSE
    MaxChildren = 3
    MaxFaults = 2
    MaxToggles = 0
PROPERTY RetreatRetries
