SPECIFICATION Spec
CONSTANTS
    NSlots = 5
    VirtAddVarTab <- MCTable
    Addrs <- MCListed
    Data = {"FFFF", "v1"}
    Blank = "FFFF"
    None = None
    Faults = {"lossInReturnTransfer"}
    MaxRetries = 1
INVARIANT KnownGood
