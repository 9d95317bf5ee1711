SPECIFICATION Spec
CONSTANTS
    NAxes = 2
    Scenarios <- MCScenarios
INVARIANTS
    TypeOK
    EmergencyMeansNoTorque
    ButtonStopHolds
    OutOfBoundsMeansNoTorque
    NoHostNoTorque
    MotorsComeBack
