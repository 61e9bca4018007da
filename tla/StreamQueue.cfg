\* Two executors, two queues, two messages, a database error, and a crash: the
\* executors are alike, so it may as well be c1's.
SPECIFICATION FairSpec
CONSTANTS
    Consumers = {c1, c2}
    NumStreams = 2
    MaxId = 2
    MaxHeld = 2
    MayCrash = {c1}
    MaxCrashes = 1
    MaxFaults = 1
INVARIANTS ClaimedOnce LockedHeadsDiffer HandledByOwner NothingLost DeliveredOncePerBoot
PROPERTIES ImplementsDelivery EventuallyAcked
