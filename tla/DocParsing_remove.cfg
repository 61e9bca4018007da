\* A run, and the removal of the document while an executor works on it.
SPECIFICATION Spec
CONSTANTS
    w1 = w1 w2 = w2 h1 = h1 h2 = h2 p1 = p1 p2 = p2
    Server = server
    NoTask = none
    MayFail = FALSE
    Workers = {w1}
    Handlers = {h1}
    Pages = {p1}
    Requests = {"run", "remove"}
    AttemptLimit = 3
    MaxRequests = 2
    MaxRuns = 1
    MaxCrashes = 0
    MaxExpiries = 0
    MaxFaults = 0
INVARIANT DeletedLeavesNothing
CHECK_DEADLOCK FALSE
