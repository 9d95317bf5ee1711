SPECIFICATION FairSpec
CONSTANTS
    NEffects = 2
    Type = {"sine", "damper"}
    Filtered = {"damper"}
    None = None
    Infinite = 99
    Hosts <- MCHosts
INVARIANTS TypeOK Agreement FeltArePlaying FilterPresent
PROPERTIES PlaysWhole EveryEffectEnds ForceReleased
CHECK_DEADLOCK FALSE
