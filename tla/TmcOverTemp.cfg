SPECIFICATION Spec
CONSTANTS
    PowerChecks = 1
    EncRetryMax = 1
    Events = {"usb", "turn", "overTemp"}
    Paces = {"settled"}
INVARIANTS
    HardErrorMeansNoTorque
