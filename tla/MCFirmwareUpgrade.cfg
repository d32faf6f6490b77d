\* One device, three versions, two pushes, one fault, one message on each hop.
CONSTANTS
    d1 = d1
    v1 = v1
    v2 = v2
    v3 = v3
    none = none
    Devices = {d1}
    Versions = {v1, v2, v3}
    None = none
    Tries = 2
    MaxPushes = 2
    MaxEvents = 1
    MaxFaults = 1
    MaxWire = 1
SPECIFICATION FairSpec
INVARIANTS PendingIsLogged SuccessWasRun
PROPERTIES RecordEndsRight
