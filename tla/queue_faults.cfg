SPECIFICATION Spec
CONSTANTS
    Messages = 2
    Malformed = {}
    Workers = {w1, w2}
    NoWorker = NoWorker
    MinIdle = 2
    PromptWorkers = FALSE
    MaxStops = 1
    MaxCrashes = 1
    MaxFaults = 1
INVARIANTS
    AckedWasHandled
    NothingLost
    ExclusiveInTime
SYMMETRY MCSymmetry
