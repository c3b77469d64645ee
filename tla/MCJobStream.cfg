SPECIFICATION StreamSpec
CONSTANTS
    Jobs = {j1}
    MaxWorkers = 1
    StageCount = 7
    TTL = 2
    MaxTime = 3
    MaxFaults = 1
    MaxRestarts = 2
INVARIANT StreamTellsTheTruth
PROPERTY NewStampIsDelivered
CHECK_DEADLOCK FALSE
