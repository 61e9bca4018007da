\* One parse request, two page ranges, an executor that may crash: liveness. Two
\* attempts instead of three, so that two crashes use them up.
SPECIFICATION FairSpec
CONSTANTS
    w1 = w1 w2 = w2 h1 = h1 h2 = h2 p1 = p1 p2 = p2
    Server = server
    NoTask = none
    MayFail = TRUE
    Workers = {w1}
    Handlers = {h1}
    Pages = {p1, p2}
    Requests = {"parse"}
    AttemptLimit = 2
    MaxRequests = 1
    MaxRuns = 1
    MaxCrashes = 2
    MaxExpiries = 0
    MaxFaults = 1
INVARIANTS DoneIsIndexed AttemptsBounded
PROPERTY ProgressEnds
CHECK_DEADLOCK FALSE
