SPECIFICATION AttachSpec
CONSTANTS
    Nodes = {"n1"}
    Window = 6
    MaxDelay = 1
    MaxMisses = 2
    Volumes = {"v1"}
    Controllers = {c1, c2}
    Calls = {k1, k2}
    Modes = {TRUE, FALSE}
    MaxFaults = 1
    FaultKinds = {"read", "write", "crash"}
INVARIANTS
    
    ServingIsFound
    AttachedHasRow
    DetachedIsClean
SYMMETRY AttachSymmetry
