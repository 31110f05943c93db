SPECIFICATION FairSpec
CONSTANTS
    k1 = k1
    k2 = k2
    k3 = k3
    r1 = r1
    r2 = r2
    e1 = e1
    e2 = e2
    None = None
    Reqs = {r1, r2}
    Econs = {e1}
    Keys = {k1}
    Transcript <- OneTurn
    Cleanable = {}
    ClientAborts = TRUE
    Serial = FALSE
    AppendOnly = FALSE
    Frames = {"mint"}
    Usages = {}
PROPERTIES StagingReleased
