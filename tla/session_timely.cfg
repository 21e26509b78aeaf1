CONSTANTS
    Scheds = {s1}
    MaxCuts = 1
    MaxRequests = 2
    Overlap = FALSE
    Late = FALSE
SPECIFICATION Spec
INVARIANTS ResumedOnce
PROPERTIES ImplementsSavedGame
