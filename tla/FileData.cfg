CONSTANTS
    Tasks = {t1, t2}
    Files = {a, b}
    Absent = Absent
    NoEntry = NoEntry
    NoSize = NoSize
    NoPath = NoPath
    Zero = Zero
    Capacity = 2
    PageSize = 2
    MaxPages = 2
    Scopes <- ConcurrentScopes
    Lossy = TRUE
    MaxSize = 2
SPECIFICATION Spec
INVARIANTS TypeOK BytesAccounted BufferHasRoom NoCrossWiring
SYMMETRY Symmetry
CHECK_DEADLOCK FALSE
