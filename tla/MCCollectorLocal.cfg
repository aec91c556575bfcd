SPECIFICATION Spec
CONSTANTS
    s1 = s1
    s2 = s2
    put1 = put1
    put2 = put2
    direct1 = direct1
    commit = commit
    top = top
    tree = tree
    blob = blob
    g1 = g1
    g2 = g2
    g3 = g3
    None = None
    Stores = {s1}
    Cyclers = {s1}
    Mortal = {s1}
    Puts = {put1}
    Directs = {}
    StoreOf <- OwnerOf
    Names = {"n1"}
    Keys = {top, tree, blob}
    Leaves = {}
    Trees = {top}
    Git = {top, tree, blob}
    LinksOf <- TreeLinks
    Packs = {g1, g2}
    Old = {g1}
    Fills = {FALSE}
INVARIANTS
    IInv
    RefsComplete
