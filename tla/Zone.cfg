SPECIFICATION FairSpec
CONSTANTS
    Kinds = {"Native", "Master"}
    Accounts = {"x"}
    Params = {"p"}
    Default = "p"
    Servers = {"ns"}
    Offered <- MCOffered
    MaxFaults = 1
    MaxEdits = 1
    MaxOutside = 1
INVARIANTS
    TypeOK
    StateMatchesServer
PROPERTIES
    DestroyedOnPurpose
    UnmentionedKept
    Converges
