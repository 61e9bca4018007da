SPECIFICATION FairSpec
CONSTANTS
    a = a
    b = b
    c = c
    d = d
    e = e
    f = f
    NoRow = NoRow
    LoopUsers = {}
    TryUsers = {}
    SpinUsers = {a, b}
    Named = {}
    ValueOf <- BatchMerge
    MaxCrashes = 1
    MaxFaults = 0
PROPERTIES SpinAcquires
CHECK_DEADLOCK FALSE
