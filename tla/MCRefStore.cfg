CONSTANTS
    a = a  b = b  k1 = k1  k2 = k2
    t1 = t1  t2 = t2  t3 = t3  s1 = s1  s2 = s2
    Threads = {t1, t3}
    Stores = {s1, s2}
    StoreOf <- TwoStores
    Names = {a, b}
    Keys = {k1, k2}
    NoKey = NoKey
    Records <- MCRecords
    Absent = Absent
    NoThread = NoThread
    Ops <- MCOps
    Sync = TRUE
    MaxIdle = 1
    MaxCalls = 3
    MaxFaults = 1
SPECIFICATION FairSpec
INVARIANTS IInv AckedDurable LockInsideCall
PROPERTIES ImplementsRefMap CallsReturn
