SPECIFICATION FairSpec
CONSTANTS
    Resources = {a, b}
    Kinds = {"metadata", "network", "view_zone", "autoprimary", "tsigkey", "recursor_zone", "recursor_acl", "dnsdist_acl"}
    Keys = {"p", "q", "soa"}
    Reserved = {"soa"}
    Values = {"x", "y"}
    Unset = "x"
    MaxFaults = 1
    MaxEdits = 1
    MaxOutside = 1
INVARIANTS
    TypeOK
    StateMatchesServer
    NoLeftovers
PROPERTIES
    OtherKeysKept
    ForgetsOnlyGone
    Converges
