SPECIFICATION Spec
CONSTANTS
    Events = {1, 2}
    Dispatchers = {d1, d2}
    NoOne = NoOne
    MaxAttempts <- MCTwice
    BatchSize = 2
    LockTimeout = 1
    FirstDue <- MCAround
    PromptBatches = FALSE
    Horizon = 1
    AgeCap = 3
    MaxInterrupts = 1
SYMMETRY MCSymmetry
INVARIANTS
    TypeOK
    LeaseExclusive
    PublishedWasDelivered
    DeadLetterWasExhausted
    ClaimsAreNumbered
PROPERTIES
    NoAttemptTwice
    SettledIsFinal
    KeepsPromise
