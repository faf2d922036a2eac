SPECIFICATION Spec
CONSTANTS
    MiB = 1
    GiB = 2
    MaxStorage = 8
    Half = 16
    MaxVols = 3
    MaxFaults = 1
    Names = {"n1", "n2"}
    Claims = {"k1"}
    FaultKinds = {"crash"}
    Controllers = {"c1"}
    CreateReqs <- PlainReqs
    ExpandBytes = {3, 4}
INVARIANT
    DeletedLeavesNothing
