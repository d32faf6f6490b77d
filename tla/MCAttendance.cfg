SPECIFICATION FairSpec
CONSTANTS
    Devices <- Terminals
    Protocol <- Connected
    Direction <- Directed
    Known <- DoorKnows
    Coded <- OldCodes
    Unmatched <- Strays
    Mappable <- GateOnly
    AutoClear <- Cleared
    Sessions <- TwoWorkers
    NoSession = none
    MaxPunches = 3
    MaxFaults = 1
    gate = gate
    door = door
    old = old
    stray = stray
    s1 = s1
    s2 = s2
    none = none
INVARIANTS
    StoredOnce
    AckedIsStored
    ProcessedIsRecorded
PROPERTIES
    KeepsRecord
    EveryPunchStored
CHECK_DEADLOCK FALSE
