SPECIFICATION NodeSpec
CONSTANTS
    Targets = {"t1"}
    Volumes = {"v1"}
    Uses <- OneFolder
    Calls = {"c1", "c2"}
    Overlaps = TRUE
    MaxDevices = 1
    MaxSize = 1
    MaxFaults = 0
    FaultKinds = {}
INVARIANT
    NeverRemounted
