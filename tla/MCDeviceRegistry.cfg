CONSTANTS
    w1 = w1
    w2 = w2
    c1 = c1
    c2 = c2
    none = none
    Workers = {w1, w2}
    Companies = {c1, c2}
    None = none
    Retention = 1
    MaxRows = 3
    MaxRegister = 1
    MaxTime = 2
SPECIFICATION Spec
PROPERTIES PurgeKeepsBound NoTakeover
SYMMETRY Symmetry
