\* Overlapping requests, two threads of the server, one page range.
SPECIFICATION Spec
CONSTANTS
    w1 = w1 w2 = w2 h1 = h1 h2 = h2 p1 = p1 p2 = p2
    Server = server
    NoTask = none
    MayFail = TRUE
    Workers = {w1}
    Handlers = {h1, h2}
    Pages = {p1}
    Requests = {"run", "rerun", "cancel", "stop", "remove"}
    AttemptLimit = 3
    MaxRequests = 2
    MaxRuns = 2
    MaxCrashes = 1
    MaxExpiries = 1
    MaxFaults = 1
INVARIANT
    UnfinishedHasMessage
SYMMETRY HandlerSymmetry
CHECK_DEADLOCK FALSE
