CONSTANTS
    d1 = d1
    d2 = d2
    Decisions = {d1, d2}
    None = None
    ReduceOnly = {}
    Sells = {d2}
    Instrument <- PairAndSide
    MaxQuantity = 1
    MaxRetries = 0
    HasResolver = TRUE
    EchoesClientId = FALSE
    LateDelivery = FALSE
    Submits = TRUE
    PaperSettings = {FALSE}
    VenueReportsFees = TRUE
    SavesFail = TRUE
    MaxRestarts = 1
SPECIFICATION FairPlaneSpec
INVARIANTS
    AppliedUnlessRefused
    NeverBookedTwice
PROPERTIES
    BlockClearsWithoutOrphans
    TradesReachBook
