SPECIFICATION OwnSpec
CONSTANTS
    NSlots = 4
    VirtAddVarTab <- MCOneVariable
    Addrs <- MCListed
    Data = {"FFFF", "v1", "v2"}
    Blank = "FFFF"
    None = None
    Faults = {"lossInReturnTransfer", "lossInRecovery", "formatOnPage1", "programFailure"}
    MaxRetries = 2
VIEW PagesAndCall
INVARIANT ReadsOwnValues
