SPECIFICATION Spec
CONSTANTS
    Cpr = 4
    MaxShaft = 4
    None = None
    Scenarios <- AskedFor
INVARIANT UpdateIsUnderWay
