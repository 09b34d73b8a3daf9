SPECIFICATION Spec
CONSTANTS
    Resources = {a, b}
    Pairs = {"p", "q"}
    Contents = {"x"}
    Comments = {"note"}
    TTLs = {1}
    Modulus = 4
    Offered <- MCOffered
    MaxFaults = 0
    MaxEdits = 1
    MaxOutside = 0
PROPERTIES
    NoRecordVanishes
