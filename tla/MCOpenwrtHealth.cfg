\* Two access points, one change, one lost or late post, one command.
CONSTANTS
    a1 = a1
    a2 = a2
    none = none
    Aps = {a1, a2}
    Threshold = 2
    Timeout = 1
    Interval = 1
    Tries = 2
    NoAp = none
    MaxFlips = 1
    MaxFaults = 1
    MaxClicks = 1
SPECIFICATION FairSpec
INVARIANTS OfflineIsCounted
PROPERTIES LastSeenAdvances AbsentEndsOffline PresentEndsOnline
