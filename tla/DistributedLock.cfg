\* Two loops (report_status keeps its value, update_progress does not) and one
\* that tries once, or three tasks that spin; crashes and lost answers.
SPECIFICATION FairSpec
CONSTANTS
    a = a
    b = b
    c = c
    d = d
    e = e
    f = f
    NoRow = NoRow
    LoopUsers = {a, b}
    TryUsers = {c}
    SpinUsers = {d, e, f}
    Named = {a}
    ValueOf <- OwnValue
    MaxCrashes = 2
    MaxFaults = 1
INVARIANTS LeaseBacked MutualExclusion
PROPERTIES ExpiredIsFreed SpinAcquiresUndisturbed
CHECK_DEADLOCK FALSE
