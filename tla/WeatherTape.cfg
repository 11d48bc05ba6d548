CONSTANTS
    m1 = m1
    m2 = m2
    today = today
    tomorrow = tomorrow
    Markets = {m1, m2}
    Collectors = {c1, c2}
    CityDay <- DayOf
    CloseAt <- CloseOf
    Month <- MonthOf
    MinLead = 1
    SettleLag = 1
    MaxRun = 1
    MaxListed = 2
    MaxRuns = 2
    MaxKills = 2
    MaxClock = 3
SPECIFICATION FairWeatherSpec
INVARIANTS
    DecisionStands
    ResolvedOnce
    KillCostsOneRow
PROPERTY
    PrintsCatchUp
