CONSTANTS
    d1 = d1
    d2 = d2
    Decisions = {d1, d2}
    None = None
    ReduceOnly = {d2}
    Instrument <- OneInstrument
    MaxQuantity = 2
    MaxRetries = 2
    HasResolver = TRUE
    EchoesClientId = FALSE
    LateDelivery = FALSE
SPECIFICATION FairSpec
INVARIANTS
    TypeOK
    AtMostOneOrder
    WriteAhead
    BoundedRequests
PROPERTIES
    ReduceOnlyNeverGrows
    ImplementsOncePerDecision
    CallReturns
