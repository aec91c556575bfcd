SPECIFICATION FairSpec
CONSTANTS
    s1 = s1
    s2 = s2
    s3 = s3
    s3cycle = s3cycle
    s1put = s1put
    s1inner = s1inner
    s1cycle = s1cycle
    s1compact = s1compact
    s2put = s2put
    s2cycle = s2cycle
    Stores <- TwoStores
    StoreOf <- OwnerOf
    Outer <- Nesting
    Cancelable = {s1cycle}
    Spans = {s1put, s2put}
    Sweeps = {s1cycle}
    Segments = {}
    MaxGen = 1
PROPERTY
    SpanServed
