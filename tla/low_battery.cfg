CONSTANTS
    MaxLevel = 7
    MaxGlitches = 4
SPECIFICATION Spec
INVARIANTS NoSpuriousShutdown PromptShutdown
PROPERTIES LowBatteryShutsDown
CHECK_DEADLOCK FALSE
