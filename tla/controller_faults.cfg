SPECIFICATION Spec
CONSTANTS
    MiB = 1
    GiB = 2
    MaxStorage = 8
    Half = 16
    MaxVols = 3
    MaxFaults = 2
    Names = {"n1", "n2"}
    Claims = {"k1"}
    FaultKinds <- AllFaults
    Controllers = {"c1"}
    CreateReqs <- MixedReqs
    ExpandBytes = {3, 4, 9}
INVARIANTS
    TypeOK
    AckedHasData
    PromiseKept
    DeletionHolds
    SizeMatchesRow
PROPERTIES
    CapacityNeverShrinks
    DataNeverTruncated
