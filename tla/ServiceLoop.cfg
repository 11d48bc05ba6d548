CONSTANTS
    Configs <- MCConfigs
    NumSymbols = 2
    MaxErrors = 3
    Evidence = {e1, e2}
    MaxReviews = 1
SPECIFICATION FairServiceSpec
INVARIANTS
    HaltHonoured
    ReviewHonoured
PROPERTY PersistentFailureEnds
