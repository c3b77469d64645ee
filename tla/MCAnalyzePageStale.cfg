\* MCAnalyzePageStale
SPECIFICATION PageSpec
CONSTANTS
    Defects = {d1, d2}
    Jobs = {j1, j2}
    None = None
INVARIANT OutcomeBelongs
CHECK_DEADLOCK FALSE
