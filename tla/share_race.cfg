CONSTANTS
    Callers = {ui, rcK}
    MaxFwu = 0
SPECIFICATION Spec
INVARIANTS ClearToShare
