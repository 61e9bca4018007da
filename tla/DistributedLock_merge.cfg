SPECIFICATION Spec
CONSTANTS
    a = a
    b = b
    c = c
    d = d
    e = e
    f = f
    NoRow = NoRow
    LoopUsers = {}
    TryUsers = {}
    SpinUsers = {a, b}
    Named = {}
    ValueOf <- BatchMerge
    MaxCrashes = 0
    MaxFaults = 0
INVARIANTS MutualExclusion
CHECK_DEADLOCK FALSE
