\* Both ways in; two changes of the relay, one fault, three rows.
SPECIFICATION IngestFairSpec
CONSTANTS
    RelayStates <- OnOff
    on = on
    off = off
    Unknown = unknown
    unknown = unknown
    BatchLimit = 2
    MaxChanges = 2
    MaxFaults = 1
    MaxWire = 2
    MaxRows = 3
PROPERTIES StatusesAreProcessed TwinSettles
CHECK_DEADLOCK FALSE
