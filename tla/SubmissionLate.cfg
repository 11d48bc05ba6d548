CONSTANTS
    d1 = d1
    d2 = d2
    Decisions = {d1}
    None = None
    ReduceOnly = {}
    Instrument <- OneInstrument
    MaxQuantity = 1
    MaxRetries = 1
    HasResolver = TRUE
    EchoesClientId = FALSE
    LateDelivery = TRUE
SPECIFICATION Spec
INVARIANT AtMostOneOrder
