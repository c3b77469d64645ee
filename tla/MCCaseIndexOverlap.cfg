\* MCCaseIndexOverlap
SPECIFICATION IndexSpec
CONSTANTS
    Handlers = {h1, h2}
    MaxCases = 1
    Saves = {s1, s2}
    WithAnalysis = {s1}
    None = None
INVARIANT IndexFollowsRows
CHECK_DEADLOCK FALSE
