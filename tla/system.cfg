SPECIFICATION FairSystemSpec
CONSTANTS
    MiB = 1
    GiB = 2
    MaxStorage = 8
    Half = 16
    MaxVols = 2
    MaxFaults = 1
    Names = {"n1", "n2"}
    Claims = {"k1"}
    FaultKinds = {"read", "write", "commit", "fs", "crash"}
    Controllers = {"c1"}
    CreateReqs <- PlainReqs
    ExpandBytes = {9}
    Jobs = {"j1"}
INVARIANTS
    SystemTypeOK
    CleanupSparesCommitted
PROPERTIES
    DanglingDataRemoved
    LinksRebuilt
