\* MCAnalyzePage
SPECIFICATION FairSpec
CONSTANTS
    Defects = {d1, d2}
    Jobs = {j1, j2}
    None = None
INVARIANT OutcomeBelongsUnlessStray
PROPERTY RunningEnds
CHECK_DEADLOCK FALSE
