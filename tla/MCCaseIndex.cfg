\* MCCaseIndex
SPECIFICATION IndexSpec
CONSTANTS
    Handlers = {h1, h2}
    MaxCases = 2
    Saves = {s1, s2}
    WithAnalysis = {s1}
    None = None
INVARIANT UndisturbedAgrees
CHECK_DEADLOCK FALSE
