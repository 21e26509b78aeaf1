CONSTANTS
    Cards <- OnlyImage
    MaxFiles = 1
    Kinds = {"good"}
    MaxFails = 0
    MaxCuts = 0
SPECIFICATION Spec
PROPERTIES UpdateCompletes
