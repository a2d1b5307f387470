SPECIFICATION FairSpec
CONSTANTS
    Messages = 3
    Malformed = {2}
    Workers = {w1, w2}
    NoWorker = NoWorker
    MinIdle = 2
    PromptWorkers = TRUE
    MaxStops = 0
    MaxCrashes = 1
    MaxFaults = 1
INVARIANTS
    HandledOnce
PROPERTIES
    NeverStuck
