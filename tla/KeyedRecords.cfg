SPECIFICATION Spec
CONSTANTS
    Resources = {a, b}
    Kinds = {"recursor_zone"}
    Keys = {"p", "q", "soa"}
    Reserved = {"soa"}
    Values = {"x", "y"}
    Unset = "x"
    MaxFaults = 0
    MaxEdits = 1
    MaxOutside = 1
PROPERTIES
    RecordsKept
