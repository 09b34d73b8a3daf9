SPECIFICATION FairSpec
CONSTANTS
    Resources = {a, b}
    Pairs = {"p", "q"}
    Contents = {"x"}
    Comments = {"note"}
    TTLs = {0, 1, 6}
    Modulus = 4
    Offered <- MCOffered
    MaxFaults = 1
    MaxEdits = 1
    MaxOutside = 1
INVARIANTS
    TypeOK
    StateMatchesServer
    NoLeftovers
PROPERTIES
    OtherSetsKept
    Converges
