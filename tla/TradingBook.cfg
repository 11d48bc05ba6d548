CONSTANTS
    Assets = {btc, eth}
    Prices = {80, 120}
    Skew = 5
    StartingNav = 400
    DemoPct = 60
    PositionPct = 70
    GrossPct = 60
    ReservePct = 20
    DailyLossPct = 4
    DrawdownPct = 5
    MaxPositions = 2
    StopPct = 10
    TrailPct = 15
    TakePct = 12
    ThesisExits = FALSE
    SlipPct = 5
    FeePct = 2
    MaxSlipPct = 5
    MinNotional = 50
    MaxEntries = 2
    MaxUnsaved = 1
    MaxDate = 1
SPECIFICATION BookSpec
INVARIANTS
    BookSolvent
    AnchorStands
    StopLossGetsOut
PROPERTY EntriesWithinLimits
SYMMETRY AssetSymmetry
