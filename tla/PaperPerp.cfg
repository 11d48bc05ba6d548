CONSTANTS
    None = None
    Venues = {hl, htx}
    Fills = {d1}
    CacheAge = 1
    Lookback = 2
    MaxClock = 4
    MaxCycle = 2
    MaxRestarts = 1
    MaxPrints = 2
    MaxFlips = 1
SPECIFICATION PerpSpec
INVARIANTS
    FundingExact
    FeesExplained
SYMMETRY VenueSymmetry
