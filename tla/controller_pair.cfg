SPECIFICATION Spec
CONSTANTS
    MiB = 1
    GiB = 2
    MaxStorage = 8
    Half = 16
    MaxVols = 2
    MaxFaults = 2
    Names = {"n1", "n2"}
    Claims = {"k1"}
    FaultKinds <- NoCommitFaults
    Controllers = {c1, c2}
    CreateReqs <- PlainReqs
    ExpandBytes = {3}
INVARIANT
    AckedHasData
SYMMETRY ControllerSymmetry
