SPECIFICATION Spec
CONSTANTS
    Blocks <- MCBlocks
    Environments <- MCEnvironments
    CallPrefixes <- MCCallPrefixes
    CallAddresses <- MCCallAddresses
INVARIANTS
    BundleArrives
    KeysStayHome
    OutcomeIsTrue
    CauseIsTold
    ReverseZoneHoldsPtr
CHECK_DEADLOCK FALSE
