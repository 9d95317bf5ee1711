SPECIFICATION FairSpec
CONSTANTS
    NChips = 3
    NAxes = 3
    None = None
    Scenarios <- MCScenarios
INVARIANTS TypeOK AxesInPlace
PROPERTIES ButtonsInPlace AnswerToAsker LoopGoesOn Refreshed
