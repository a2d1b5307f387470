CONSTANTS
    Callers = {c1, c2}
    Refs = {c1, c2}
    Holders = {0, 1}
    Shops = {0, 1}
    Templates = {t1}
    CardTemplates = {t1}
    Offers <- OffersMC
    CardOffers <- CardOffersMC
    Bills = {1, 3}
    NoRef = NoRef
    RechargeRef = RechargeRef
    MaxTemplateAmount = 2
    MaxValidDays = 1
    MaxIssueBatch = 1
    MaxTotalTimes = 2
    MaxRechargeAmount = 2
    Horizon = 2
    MaxCoupons = 3
    MaxCards = 2
    MaxEdits = 2
    Amounts = {0, 2, 3}
    Totals = {1, 4}
    MaxLedger = 3
    MaxFailures = 1
    Editors = {c1, c2}
    Trimmed <- TrimmedMC
    PlanInputs <- PlanInputsMC
    SeedSets <- SeedSetsMC
    MaxPlans = 3
    Sellers = {1, 2}
    Clerks = {c1, c2}
    ItemInputs <- ItemInputsMC
    MaxItems = 3
    PriceLists <- PriceListsMC
    Durations <- DurationsMC
    LongTerm = 10000
    MonthCycleMaxDays = 62
    YearCycleMinDays = 360
SYMMETRY Symmetry
SPECIFICATION Spec
CHECK_DEADLOCK FALSE
INVARIANTS
    CountersAreRows
    OverIssueIsBounded
    CardsAddUp
    LedgerExplainsBalance
    SettlementsAreSound
    CataloguesHold
PROPERTIES
    OutcomeIsFinal
