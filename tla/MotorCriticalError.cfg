SPECIFICATION Spec
CONSTANTS
    NAxes = 1
    Scenarios <- CriticalScenario
INVARIANTS
    CriticalMeansShutdown
