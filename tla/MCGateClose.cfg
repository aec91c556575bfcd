SPECIFICATION SpecAnyClose
CONSTANTS
    s1 = s1
    s2 = s2
    s3 = s3
    s3cycle = s3cycle
    s1put = s1put
    s1inner = s1inner
    s1cycle = s1cycle
    s1compact = s1compact
    s2put = s2put
    s2cycle = s2cycle
    Stores <- ThreeStores
    StoreOf <- OwnerOf
    Outer <- Nesting
    Cancelable = {}
    Spans = {s2put}
    Sweeps = {s1cycle, s3cycle}
    Segments = {1}
    MaxGen = 2
INVARIANT
    SpanViewIsLive
