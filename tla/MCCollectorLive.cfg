SPECIFICATION FairSpec
CONSTANTS
    s1 = s1
    s2 = s2
    put1 = put1
    put2 = put2
    direct1 = direct1
    commit = commit
    top = top
    tree = tree
    blob = blob
    g1 = g1
    g2 = g2
    g3 = g3
    None = None
    Stores = {s1, s2}
    Cyclers = {s1, s2}
    Mortal = {s1, s2}
    Puts = {put1}
    Directs = {}
    StoreOf <- OwnerOf
    Names = {"n1"}
    Keys = {blob}
    Leaves = {blob}
    Trees = {blob}
    Git = {}
    LinksOf <- TreeLinks
    Packs = {g1}
    Old = {g1}
    Fills = {FALSE}
PROPERTIES
    PutServed
    SweepEnds
