SPECIFICATION Spec
CONSTANTS
    k1 = k1
    k2 = k2
    Keys = {k1, k2}
    NoSidecar = NoSidecar
    SegmentSize = 2
    MaxSidecar = 1
    Reads = TRUE
    Faults = {}
SYMMETRY AnyKey
INVARIANTS
    AckedStored
    IndexAgrees
