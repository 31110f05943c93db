SPECIFICATION Spec
CONSTANTS
    Pages <- MCPages
    UNQUOTED_TAG_WINDOW = 4
    MIN_TAG_HITS = 2
    MIN_DISTINCT_TAGS = 2
INVARIANTS TextKept PreVerbatim BlocksApart
CHECK_DEADLOCK FALSE
