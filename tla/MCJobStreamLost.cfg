SPECIFICATION StreamSpec
CONSTANTS
    Jobs = {j1}
    MaxWorkers = 1
    StageCount = 6
    TTL = 2
    MaxTime = 3
    MaxFaults = 1
    MaxRestarts = 2
PROPERTY EndIsDelivered
CHECK_DEADLOCK FALSE
