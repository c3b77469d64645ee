\* MCCaseIndexSync
SPECIFICATION IndexSpec
CONSTANTS
    Handlers = {h1}
    MaxCases = 2
    Saves = {s1, s2}
    WithAnalysis = {s1}
    None = None
PROPERTY SyncRebuilds
CHECK_DEADLOCK FALSE
