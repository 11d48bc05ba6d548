SPECIFICATION RiskControlsSpec
CONSTANTS
    Sinks = {"local", "redis"}
    Anchoring = {TRUE, FALSE}
    AnchorEvery = 2
    MaxLines = 5
    MaxFaults = 2
    Outcomes <- OutcomeSet
    MaxLosses = 3
    Window = 3
    Limit = 4
    Cooldown = 2
    Lag = 1
    MaxOutcomes = 4
    MaxClock = 4
INVARIANTS
    ChainIntact
    NeverLocksItselfOut
    ForksAreOwn
    TailBounded
    TrippedOnPolicy
    SuspensionHolds
