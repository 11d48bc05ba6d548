CONSTANTS
    d1 = d1
    d2 = d2
    Decisions = {d1, d2}
    None = None
    ReduceOnly = {d2}
    Sells = {d2}
    Instrument <- PairAndSide
    MaxQuantity = 2
    MaxRetries = 1
    HasResolver = TRUE
    EchoesClientId = FALSE
    LateDelivery = FALSE
    Submits = TRUE
    PaperSettings = {TRUE, FALSE}
    VenueReportsFees = TRUE
    SavesFail = FALSE
    MaxRestarts = 2
SPECIFICATION PlaneSpec
INVARIANTS
    ClosedMeansRecorded
    EntriesBookedOnce
PROPERTY DurableLifecycle
