SPECIFICATION Spec
CONSTANTS
    t1 = t1
    None = None
    Tokens = {t1}
    Switches = {}
    ReviveBreaker = 3
    MyVersion = 1
    DiskVersion = 1
    LastVersion = 1
    LateRegister = TRUE
    MaxChildren = 3
    MaxFaults = 2
    MaxToggles = 0
INVARIANT TokensSurvive
