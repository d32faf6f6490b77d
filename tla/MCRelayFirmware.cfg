\* Everything the firmware should keep: two power cuts, delays of no and of two minutes.
CONSTANTS
    Empty = Empty
    Daily = Daily
    Schedules <- MCSchedules
    NoEntries = Empty
    Due <- MCDue
    Minutes = 2
    Delays = {0, 2}
    MaxRestarts = 2
    Unreadable = Unreadable
SPECIFICATION FairSpec
INVARIANTS DelayHoldsRelay FlashRestoresState BrokerKnowsRelay
PROPERTIES ScheduleYieldsToUser DelayHasPriority DelayEnds ScheduleNeedsNoNetwork
