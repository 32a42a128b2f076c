CONSTANTS
    Tasks = {t1}
    Files = {a, b}
    Absent = Absent
    NoEntry = NoEntry
    NoSize = NoSize
    NoPath = NoPath
    Zero = Zero
    Capacity = 2
    PageSize = 2
    MaxPages = 2
    Scopes <- SerialScopes
    Lossy = TRUE
    MaxSize = 2
SPECIFICATION Spec
INVARIANTS SerialCoherence FsyncDurable
PROPERTY LastWriteWins
CHECK_DEADLOCK FALSE
