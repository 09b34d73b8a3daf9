SPECIFICATION FairSpec
CONSTANTS
    Servers = {"ns1", "ns2"}
    Accounts = {"a", "b"}
    Algorithms = {"ecdsa", "ed25519"}
    MaxFaults = 2
    MaxEdits = 2
INVARIANTS
    OneRunSuffices
PROPERTIES
    ChildrenKept
    Converges
