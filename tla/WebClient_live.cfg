\* The parts with timers, polls and streams: what must happen in the end.
SPECIFICATION FairSpec
CONSTANTS
    MaxNodes = 5
    MaxCases = 1
    Toolboxes <- SmallToolboxes
    MaxCanvas = 3
    Stripped <- PlaceholderLast
    MaxHistory = 1
    MaxFlight = 1
    MaxRows = 1
    MaxSubmits = 1
    MaxLogFaults = 1
    MaxQuestions = 1
    MaxConversations = 2
    MaxWrites = 1
    DeletableIds = {1}
    MaxRuns = 2
    MaxUnbinds = 1
    MaxTries = 2
    MaxMishaps = 1
    Parts = {"editor", "pipeline", "chat", "dataset"}
PROPERTIES
    SavedWhenQuiet
    RunEndIsShown
    InputReturns
    ShownRunEnds
CHECK_DEADLOCK FALSE
