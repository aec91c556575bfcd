SPECIFICATION Spec
CONSTANTS
    s1 = s1
    s2 = s2
    put1 = put1
    put2 = put2
    direct1 = direct1
    commit = commit
    top = top
    tree = tree
    blob = blob
    g1 = g1
    g2 = g2
    g3 = g3
    None = None
    Stores = {s1}
    Cyclers = {s1}
    Mortal = {}
    Puts = {put1}
    Directs = {direct1}
    StoreOf <- OwnerOf
    Names = {"n1"}
    Keys = {commit, blob}
    Leaves = {blob}
    Trees = {commit}
    Git = {}
    LinksOf <- TreeLinks
    Packs = {g1, g2, g3}
    Old = {g1}
    Fills = {TRUE, FALSE}
SYMMETRY NewPacks
INVARIANTS
    RefsComplete
    WritesStay
