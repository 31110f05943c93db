SPECIFICATION Spec
CONSTANTS
    t1 = t1
    None = None
    Tokens = {t1}
    Switches = {"kill"}
    ReviveBreaker = 3
    MyVersion = 1
    DiskVersion = 2
    LastVersion = 3
    LateRegister = FALSE
    MaxChildren = 2
    MaxFaults = 3
    MaxToggles = 1
INVARIANTS TypeOK TokensSurvive CrashLoopBounded NoFlap
