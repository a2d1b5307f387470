SPECIFICATION Spec
CONSTANTS
    Events = {1, 2}
    Dispatchers = {d1, d2}
    NoOne = NoOne
    MaxAttempts <- MCMaxAttempts
    BatchSize = 2
    LockTimeout = 1
    FirstDue <- MCNow
    PromptBatches = FALSE
    Horizon = 0
    AgeCap = 2
    MaxInterrupts = 1
INVARIANTS
    ExhaustedIsSettled
