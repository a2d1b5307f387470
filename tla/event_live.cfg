SPECIFICATION LiveSpec
CONSTANTS
    Events = {1, 2}
    Dispatchers = {d1, d2}
    NoOne = NoOne
    MaxAttempts <- MCMaxAttempts
    BatchSize = 2
    LockTimeout = 1
    FirstDue <- MCNow
    PromptBatches = FALSE
    Horizon = 0
    AgeCap = 2
    MaxInterrupts = 1
    Keys = {k1}
    Callers = {c1, c2, c3}
    NoCaller = NoCaller
    NoKey = NoKey
    MaxCalls = 4
    LostAcks = TRUE
INVARIANTS
    SuccessMeansEffect
    CallbackExclusive
PROPERTIES
    SettledOrStranded
    EventuallySettled
    CallsReturn
CHECK_DEADLOCK FALSE
