CONSTANTS
    t1 = t1
    t2 = t2
    k1 = k1
    k2 = k2
    i1 = i1
    i2 = i2
    i3 = i3
    Threads = {t1, t2}
    Keys = {k1}
    Items = {i1, i2}
    KeyOf <- OneKey
    TimeoutSlices = 2
    SpareBuckets = 3
    Limit = 1
    StartTime = 7
    MaxTime = 10
    MadeAt = {0, 7}
    MaxOps = 3
    MaxSpan = 1
    NoItem = NoItem
SPECIFICATION Spec
SYMMETRY Same
INVARIANT DestroyedOnce
CHECK_DEADLOCK FALSE
