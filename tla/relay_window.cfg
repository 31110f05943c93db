SPECIFICATION Spec
CONSTANTS
    k1 = k1
    k2 = k2
    k3 = k3
    r1 = r1
    r2 = r2
    e1 = e1
    e2 = e2
    None = None
    Reqs = {r1}
    Econs = {e1}
    Keys = {k1, k2, k3}
    Transcript <- ThreeTurns
    Cleanable = {k2}
    ClientAborts = TRUE
    Serial = TRUE
    AppendOnly = TRUE
    Frames = {"mint", "evict", "kill", "shadow"}
    Usages = {"cold", "overran"}
VIEW WithoutOrphans
INVARIANTS FreshNeverSeen LaneKeepsSentBytes
