SPECIFICATION Spec
CONSTANTS
    PromptLens = {7}
    TextLens = {6}
    RenderLens = {2}
    HeadTokens <- OneHead
    PrefixHints = 3
    ClientHints = TRUE
    InnerHints = {0}
    ThinkLen = 5
    HintLen = 2
    LaneLen = 4
    DropLen = 2
    MIN_BLOCK_SPAN = 3
    recency_window_n = 1
    human_verbatim_max = 5
    pre_gate_min_chars = 3
    cache_hint_cap = 4
    lookback_positions = 20
    ScoreFloor = FALSE
    min_cache_floor = 4
    HardTarget = 8
    Pressing = 5
    MaxMessages = 5
    None = None
INVARIANT ThinkingExact
CHECK_DEADLOCK FALSE
