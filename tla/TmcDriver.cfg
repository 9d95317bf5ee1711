SPECIFICATION FairSpec
CONSTANTS
    PowerChecks = 1
    EncRetryMax = 1
    Events = {"power", "usb", "button", "turn", "encoderFault", "overTemp"}
    Paces = {"settled", "press"}
INVARIANTS TypeOK EmergencyMeansDisabled StoppedMeansNoTorque
PROPERTIES RunsAgain
