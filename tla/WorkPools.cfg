\* Three requests for two containers, two calls of a session that two
\* threads close, three extractions for two workers.
SPECIFICATION FairSpec
CONSTANTS
    Containers = {c1, c2}
    Requests = {r1, r2, r3}
    NoContainer = noContainer
    NoRequest = noRequest
    MaxDeaths = 1
    MaxStops = 1
    Calls = {m1, m2}
    Closers = {k1, k2}
    NoCall = noCall
    Extractions = {t1, t2, t3}
    MaxWorks = 2
    Texts <- SmallTexts
INVARIANTS
    HeldOnce
    NothingForgotten
    BusyMeansLost
    AnsweredByOwnResult
    WorkersCounted
    NeverQueued
PROPERTIES
    RequestsAnswered
    NothingAfterClose
    CallsReturn
    CloseReturns
    OverdueEnds
CHECK_DEADLOCK FALSE
