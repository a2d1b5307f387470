CONSTANTS
    Workers = {w1, w2}
    Phones = {"p1"}
    Opens = {"o1", "o2", "dev"}
    UnionOf <- UnionMC
    Creds = {"error", "unbound", "no secret", "ready"}
    SavesPhone = TRUE
    SelfIssues = FALSE
    MaxLogins = 3
    Users = {u1, u2}
    Keys <- KeysMC
    Backends = {"redis", "redka", "none"}
    Absent = Absent
    MaxTime = 2
    MaxPushed = 2
    SessionStores = {"redis", "cache", "memory"}
    Tokens = {"t1"}
    CodePhones = {"p1"}
    SessionTTL = 2
    CodeTTL = 2
    SendInterval = 1
    MaxCodes = 3
    Members = {m1}
    Guards = {g1, g2}
    AppIds = {a1}
    Owners = {0, 1, 2}
    Instances = {i1, i2}
    MemberTtl = 2
    NegativeTtl = 1
    AppTtl = 1
    RateWindow = 2
    Limit = 2
    TranslatesErrors = TRUE
    MaxClock = 4
    MaxRequests = 3
    ObjectKeys = {"a/x", "b/x", "y"}
    Base <- BaseMC
    Stores = {"s3", "local"}
    Callers = {c1, c2}
    Readers = {c1}
    Cached = {"a", "b"}
    FileTtl = 1
    TempTtl = 1
    MaxFiles = 1
    MaxVersion = 2
    MaxNow = 3
    MaxStarts = 3
    Streams = {s1, s2}
    Recipients = {"r1", "r2"}
    Publishers = {p1, p2}
    BufferSize = 1
    MaxEvents = 3
    AlertInterval = 2
    AgeThreshold = 2
    MaxMinute = 5
    Requesters = {q1, q2}
    Records <- RecordsMC
    Models = {"m2"}
    Known = {"m1"}
    BufferCap = 1
    BatchSize = 2
    MaxRecords = 2
    Chains <- ChainsMC
    Inputs <- InputsMC
    MemberOf <- MemberMC
    FallbackOf <- FallbackMC
    AppOf <- AppMC
    DomainOf <- DomainMC
    RoleNow <- RoleMC
    Allowed <- AllowedMC
    Admins = {2}
    Origins = {"o1"}
    Credentials = TRUE
    MaxBytes = 2
INIT Init
NEXT Next
CHECK_DEADLOCK FALSE
INVARIANT RefusalsAreKept
