SPECIFICATION Spec
CONSTANTS
    k1 = k1
    k2 = k2
    Keys = {k1, k2}
    NoSidecar = NoSidecar
    SegmentSize = 2
    MaxSidecar = 2
    Reads = FALSE
    Faults = {"write", "sidecar", "fsync", "drop"}
SYMMETRY AnyKey
INVARIANTS
    IInv
    AckedStored
    IndexAgrees
    MarksDurable
PROPERTY
    ImplementsDurable
