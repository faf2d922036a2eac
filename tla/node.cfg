SPECIFICATION NodeSpec
CONSTANTS
    Targets = {"t1", "t2"}
    Volumes = {"v1", "v2"}
    Uses <- Mixed
    Calls = {c1, c2}
    Overlaps = FALSE
    MaxDevices = 3
    MaxSize = 2
    MaxFaults = 1
    FaultKinds <- AllNodeFaults
INVARIANTS
    NodeTypeOK
    PublishedIsMounted
    UnpublishedIsClean
    DataSpared
    OneLoopPerFile
    ExpandedFits
SYMMETRY CallSymmetry
