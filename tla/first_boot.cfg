CONSTANTS
    Fallible <- AllCommands
    MaxFails = 2
    MaxCuts = 2
SPECIFICATION Spec
INVARIANTS NeverStuck Provisioned
PROPERTIES UserFilesKept SetupFinishes
