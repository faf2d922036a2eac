SPECIFICATION ListingSpec
CONSTANTS
    Volumes = {v1, v2, v3}
    Blocks = {v1, v2}
    PageSizes = {0, 1, 2}
    MaxChanges = 2
    MaxFaults = 1
SYMMETRY ListingSymmetry
INVARIANTS
    ListingTypeOK
    WalkIsComplete
    WalkNeverRepeats
    
