SPECIFICATION FairSpec
CONSTANTS
    CdcCommands = 3
    HidCommands = 2
    SetCommands = {2, 4}
    FifoSize = 2
    MaxQueued = 2
    MaxQueuedBroadcast = 0
    Hosts <- CarefulHosts
INVARIANTS TypeOK RepliesIntact ExecutedOnce HidRepliesOnce
PROPERTIES ImplementsService Answered HidExecuted
CHECK_DEADLOCK FALSE
