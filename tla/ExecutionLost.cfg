CONSTANTS
    d1 = d1
    d2 = d2
    Decisions = {d1}
    None = None
    ReduceOnly = {}
    Sells = {}
    Instrument <- PairAndSide
    MaxQuantity = 1
    MaxRetries = 0
    HasResolver = TRUE
    EchoesClientId = FALSE
    LateDelivery = FALSE
    Submits = TRUE
    PaperSettings = {FALSE}
    VenueReportsFees = TRUE
    SavesFail = FALSE
    MaxRestarts = 1
SPECIFICATION PlaneSpec
INVARIANT AppliedExactlyOnce
