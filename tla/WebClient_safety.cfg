\* Every part of the web client, one at a time: what no step may break.
SPECIFICATION Spec
CONSTANTS
    MaxNodes = 5
    MaxCases = 1
    Toolboxes <- SmallToolboxes
    MaxCanvas = 3
    Stripped <- PlaceholderLast
    MaxHistory = 2
    MaxFlight = 1
    MaxRows = 1
    MaxSubmits = 2
    MaxLogFaults = 0
    MaxQuestions = 2
    MaxConversations = 2
    MaxWrites = 1
    DeletableIds = {1}
    MaxRuns = 2
    MaxUnbinds = 1
    MaxTries = 2
    MaxMishaps = 1
    Parts = {"graph", "editor", "pipeline", "chat", "dataset"}
INVARIANTS
    TypeOK
    GraphAcyclic EdgesMatchForms
    AgreesAtRest
    FollowedUntilEnd
    StreamsCanBeStopped QuestionStoredOnce
    BoundRunIsWorked
PROPERTIES
    FixedNodesStay
    ImplementsUndoStack
CHECK_DEADLOCK FALSE
