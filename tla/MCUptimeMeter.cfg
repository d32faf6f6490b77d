\* Two sessions, minutes of two instants, two switchings off between resets.
SPECIFICATION MeterSpec
CONSTANTS
    Workers <- TwoSessions
    Unit = 2
    NoTime = none
    none = none
    w1 = w1
    w2 = w2
    MaxTime = 4
    MaxCuts = 2
INVARIANTS OnSinceWhileOn UptimeAccounted
SYMMETRY Sessions
