SPECIFICATION MarketDataSpec
CONSTANTS
    Keys = {k1, k2}
    Timeout = 1
    Threshold = 2
    Cooldown = 3
    Minute = 2
    Day = 6
    PerMinute = 3
    PerDay = 4
    CacheTTL = 2
    LastGoodTTL = 3
    MaxTime = 7
    Configurations = {{"liq"}, {"ticker"}}
    Sides = {long, short}
    Never = Never
    Missing = Missing
    Window = 2
    Baseline = 3
    CountCap = 1
    LiqMaxAge = 2
    TickerMaxAge = 1
    Notional = 2
    MaxReconnects = 1
    MaxSkew = 1
    MaxClock = 6
    MaxEvents = 4
    MaxWire = 2
INVARIANTS
    QuotaKept
    BreakerHolds
    ServedFresh
    BaselineExact
    DeadFeedAgesOut
    BudgetPerOutage
    ReportExact
SYMMETRY KeySymmetry
CHECK_DEADLOCK FALSE
