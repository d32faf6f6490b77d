SPECIFICATION FairSpec
CONSTANTS
    Workers <- OneWorker
    Kinds <- AllKinds
    Faults <- AnyFault
    MaxOps = 3
    MaxFaults = 1
    MaxQueue = 1
    Owns <- Contents
    NoOwn = none
    none = none
    evening = evening
    w1 = w1
    w2 = w2
    NoMessage = nothing
    nothing = nothing
    Retries = 2
INVARIANTS
    
    InSyncIsDelivered
PROPERTIES
    KeepsStore
    RecordedScheduleReachesDevice
    EndsInSync
CHECK_DEADLOCK FALSE
