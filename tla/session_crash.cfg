CONSTANTS
    Scheds = {s1}
    MaxCuts = 1
    MaxRequests = 2
    Overlap = TRUE
    Late = TRUE
SPECIFICATION Spec
INVARIANTS DurableSave
PROPERTIES ShutdownHappens BootReachesProgram
