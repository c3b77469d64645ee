\* MCJobServerZombies
SPECIFICATION Spec
CONSTANTS
    Jobs = {j1, j2}
    MaxWorkers = 1
    StageCount = 6
    TTL = 1
    MaxTime = 0
    MaxFaults = 0
    MaxRestarts = 2
PROPERTY ZombiesAreReported
CHECK_DEADLOCK FALSE
