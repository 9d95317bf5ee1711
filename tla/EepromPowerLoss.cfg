SPECIFICATION FairSpec
CONSTANTS
    NSlots = 5
    VirtAddVarTab <- MCTable
    Addrs <- MCListed
    Data = {"FFFF", "v1"}
    Blank = "FFFF"
    None = None
    Faults = {}
    MaxRetries = 1
INVARIANTS TypeOK KnownGood AckedReadable RoomSuffices
PROPERTIES ReadyAgain ImplementsStore
