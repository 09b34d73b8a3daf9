SPECIFICATION Spec
CONSTANTS
    Resources = {a, b}
    Types = {"ksk", "zsk", "csk"}
    MaxFaults = 1
    MaxEdits = 0
PROPERTIES
    StateKeptUnlessGone
