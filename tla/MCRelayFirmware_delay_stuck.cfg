CONSTANTS
    Empty = Empty
    Daily = Daily
    Schedules <- MCSchedules
    NoEntries = Empty
    Due <- MCDue
    Minutes = 2
    Delays = {0, 2}
    MaxRestarts = 1
    Unreadable = Unreadable
SPECIFICATION FairSpec
PROPERTIES DelayReleasesRelay
