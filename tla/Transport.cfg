SPECIFICATION FairSpec
CONSTANTS
    NCalls = 2
    ConfigAttempts = 2
    Statuses = {200, 204, 404, 429, 500}
    Decoding = {1}
INVARIANTS
    TypeOK
    OkMeansApplied
    RefusalIsConclusive
    StaleWriteNeedsAbandonedAttempt
PROPERTIES
    CancelIsPrompt
    EveryCallReturns
    Contract
CHECK_DEADLOCK FALSE
