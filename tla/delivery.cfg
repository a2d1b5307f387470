SPECIFICATION DeliverySpec
CONSTANTS
    Events = {1}
    Dispatchers = {d1, d2}
    NoOne = NoOne
    MaxAttempts <- MCMaxAttempts
    BatchSize = 1
    LockTimeout = 1
    FirstDue <- MCNow
    PromptBatches = FALSE
    Horizon = 0
    AgeCap = 2
    MaxInterrupts = 1
    order = order
    any = any
    audit = audit
    mail = mail
    Wildcard = any
    TypeOf <- MCTypeOf
    Subscriptions <- MCTwoConsumers
    MaxCalls = 6
    LostAcks = TRUE
INVARIANTS
    ExactlyOnceInTime
    EveryConsumerRan
CHECK_DEADLOCK FALSE
