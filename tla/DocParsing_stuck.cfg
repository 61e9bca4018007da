\* One run: a stale summary leaves the document RUNNING with progress -1.
SPECIFICATION FairSpec
CONSTANTS
    w1 = w1 w2 = w2 h1 = h1 h2 = h2 p1 = p1 p2 = p2
    Server = server
    NoTask = none
    MayFail = TRUE
    Workers = {w1}
    Handlers = {h1}
    Pages = {p1}
    Requests = {"run"}
    AttemptLimit = 3
    MaxRequests = 1
    MaxRuns = 1
    MaxCrashes = 0
    MaxExpiries = 0
    MaxFaults = 0
PROPERTY EventuallySettled
CHECK_DEADLOCK FALSE
