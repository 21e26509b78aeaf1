CONSTANTS
    Callers = {ui}
    MaxFwu = 1
SPECIFICATION Spec
INVARIANTS Exclusive ExitStatusTruthful UpdateDetected
PROPERTIES HostKeepsMedium ImplementsOwnership
