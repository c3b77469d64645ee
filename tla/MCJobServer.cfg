\* MCJobServer
SPECIFICATION FairSpec
CONSTANTS
    Jobs = {j1, j2}
    MaxWorkers = 1
    StageCount = 7
    TTL = 1
    MaxTime = 1
    MaxFaults = 1
    MaxRestarts = 2
INVARIANT ActiveIsAttended
INVARIANT EarlyCancelWins
INVARIANT ReportMeansDone
PROPERTY ImplementsLifecycle
PROPERTY EveryJobEnds
CHECK_DEADLOCK FALSE
