SPECIFICATION FairSpec
CONSTANTS
    Sessions <- TwoSessions
    Values <- ThreeValues
    Own <- SensorLimits
    GroupLimits <- Shifted
    ZeroHours <- SecondHour
    MaxTries = 2
    MaxHour = 3
    MaxChanges = 2
    s1 = s1
    s2 = s2
INVARIANTS
    AlertsFollow
PROPERTIES
    HourIsKept
    LateIsAveraged
    AlertSettles
CHECK_DEADLOCK FALSE
