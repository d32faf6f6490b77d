SPECIFICATION FairSpec
CONSTANTS
    Workers <- TwoWorkers
    Kinds <- CronAndButton
    Faults <- NoFaults
    MaxOps = 4
    MaxFaults = 0
    MaxQueue = 1
    Owns <- Contents
    NoOwn = none
    none = none
    evening = evening
    w1 = w1
    w2 = w2
    NoMessage = nothing
    nothing = nothing
    Retries = 2
PROPERTIES
    SavedScheduleReachesDevice
CHECK_DEADLOCK FALSE
