SPECIFICATION Spec
CONSTANTS
    k1 = k1
    k2 = k2
    k3 = k3
    r1 = r1
    r2 = r2
    e1 = e1
    e2 = e2
    None = None
    Reqs = {r1}
    Econs = {e1}
    Keys = {k1, k2}
    Transcript <- RepeatedTurn
    Cleanable = {k1, k2}
    ClientAborts = FALSE
    Serial = TRUE
    AppendOnly = TRUE
    Frames = {"mint"}
    Usages = {"ok"}
INVARIANT LaneKeepsSentBytes
