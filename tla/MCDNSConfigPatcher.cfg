SPECIFICATION PatcherFairSpec
CONSTANTS
    DomainSuffixes = {"d1", "d2"}
    UserBlocks = {"u1", "u2"}
    IPs = {"ip1", "ip2"}
    Corefiles <- MCCorefiles
    BackoffLimit = 1
    MaxEdits = 1
    MaxServiceChanges = 2
    MaxFaults = 1
CHECK_DEADLOCK FALSE
INVARIANTS PatcherTypeOK OneSection CompleteIsForwarded
PROPERTIES UserBlocksKept SuccessIsOwnSection JobsEnd
