CONSTANTS
    Tenants = {0, 1}
    Paths = {0, 1, 7}
    Keys = {"k1", "k2"}
    Savers = {s1, s2}
    Resolvers = {r1}
    Requests <- RequestsMC
    OpenFallback = TRUE
    AppIDPassed = FALSE
    NotifyTemplate = TRUE
    Ttl = 2
    MaxSaves = 1
    MaxTime = 0
    Owners = {t1, t2}
    Apps = {a1, a2}
    NoApp = NoApp
    Binders = {b1, b2}
    MaxBinds = 1
    Orders = {o1}
    Tasks = {w1, w2}
    Paid <- PaidMC
    Commissions <- CommissionsMC
    MaxCalls = 4
    Trades = {x1, x2}
    ClosedStates = {"CLOSED", "REVOKED", "PAYERROR"}
    MaxAttempts = 2
    ApiCallers = {c1, c2}
    Lives = {1, 3}
    RefreshWindow = 1
    ShortTtl = 3
    Overlap = 1
    PhoneAuths = {"n"}
    LoginCodes = {"l"}
    MaxTokens = 2
    MaxMessages = 1
    MaxTick = 4
    Gates = {"w1", "a1", "a2"}
    GateConfig <- GateConfigMC
    Numbers = {"n", " n", ""}
    Trimmed <- TrimmedMC
    OrderInputs <- OrderInputsMC
    RefundInputs <- RefundInputsMC
    Envelopes <- EnvelopesMC
    MaxPlaced = 2
    TransferInputs <- TransferInputsMC
    AuthInputs <- AuthInputsMC
    ShareInputs <- ShareInputsMC
    ReturnInputs <- ReturnInputsMC
    Funds <- FundsMC
SPECIFICATION Spec
INVARIANT ConfiguredTenantsResolve
CHECK_DEADLOCK FALSE
