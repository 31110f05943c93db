SPECIFICATION Spec
CONSTANTS
    a1 = a1
    a2 = a2
    b = b
    c = c
    bash = bash
    None = None
    NoTool = NoTool
    N = 4
    Docs = {a1, a2, b, c}
    Core <- MCCore
    Family <- MCFamily
    Gain <- MCGain
    DiffLen = 2
    DiffNoise = {"ws"}
    Tools = {bash}
    Conversations <- Mixed
    Pipelines <- Chains
    max_reverts = 2
    Envelope = 1
    MIN_RECODE_SHRINK_PCT = 20
    pre_gate_min_chars = 3
    CALL_TIMEOUT = 1
    RetryAfters = {0, 9}
INVARIANT BackrefHasTarget
