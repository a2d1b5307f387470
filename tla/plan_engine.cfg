SPECIFICATION Spec
CONSTANTS
    shop = shop
    basic = basic
    free = free
    o1 = o1
    o2 = o2
    Tenants = {shop}
    Plans = {basic, free}
    Clients = {c1, c2}
    Orders = {o1, o2}
    Asked <- MCAsked
    Length <- MCLength
    Free = {free}
    Builtin <- MCBuiltin
    Limits <- MCLimits
    Keys = {k1, NoKey}
    NoKey = NoKey
    Expiries <- MCExpiries
    MonthLength = 2
    None = None
    Horizon = 2
    MaxEdits = 1
    MaxAssigns = 1
    MaxAborts = 1
INVARIANTS
    MonthlyQuotaHolds
    RecordedOnce
    OverrunIsBounded
    SomebodyGoesOn
PROPERTIES
    OrderIsFinal
    PaidTimeIsAdded
SYMMETRY MCSymmetry
CHECK_DEADLOCK FALSE
