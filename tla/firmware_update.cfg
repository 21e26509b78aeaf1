CONSTANTS
    Cards <- BothCards
    MaxFiles = 3
    Kinds = {"good", "bad_header", "bad_payload"}
    MaxFails = 2
    MaxCuts = 2
SPECIFICATION Spec
INVARIANTS NeverBootsTorn
PROPERTIES GoodFileKept AutomaticCompletes
