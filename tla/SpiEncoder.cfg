SPECIFICATION FairSpec
CONSTANTS
    Cpr = 4
    MaxShaft = 4
    None = None
    Scenarios <- MCScenarios
INVARIANT TracksShaft
PROPERTIES AloneOnBus PositionGoesOn
