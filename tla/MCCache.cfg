CONSTANTS
    d = d
    f = f
    NoValue = NoValue
    Values <- MCValues
    Tasks = {t1, t2}
    Paths <- BranchPaths
    Items <- MixedItems
    Capacity = 2
    TTL = 1
    UseTtl = TRUE
    Policies = {"Lru", "Lfu"}
    MaxTime = 2
    MaxAccess = 1
SPECIFICATION Spec
INVARIANTS TypeOK WithinCapacity HitsAreFresh AncestorsDropped
PROPERTY EvictsLeastUsed
SYMMETRY TaskSymmetry
