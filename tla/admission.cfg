SPECIFICATION Spec
CONSTANTS
    MiB = 4
    GiB = 12
    MaxStorage = 40
    Half = 64
    CapabilitySets <- UpToTwo
    Bytes <- SafeBytes
INVARIANTS
    TypeOK
    GrantSuffices
    RefusalJustified
    AdmittedIsConfirmed
PROPERTY
    GrantIsLeast
