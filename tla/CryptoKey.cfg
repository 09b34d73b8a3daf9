SPECIFICATION FairSpec
CONSTANTS
    Resources = {a, b}
    Types = {"ksk", "zsk"}
    MaxFaults = 1
    MaxEdits = 2
INVARIANTS
    TypeOK
    SeparateKeys
    LeakBounded
PROPERTIES
    SigningKeySurvives
    ApplyForgetsOnlyGone
    Converges
