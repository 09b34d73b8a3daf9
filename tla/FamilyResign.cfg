SPECIFICATION Spec
CONSTANTS
    Servers = {"ns1"}
    Accounts = {"a", "b"}
    Algorithms = {"ecdsa", "ed25519"}
    MaxFaults = 0
    MaxEdits = 1
INVARIANTS
    NoKeyUnasked
