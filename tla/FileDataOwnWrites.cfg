CONSTANTS
    Tasks = {t1}
    Files = {a, b}
    Absent = Absent
    NoEntry = NoEntry
    NoSize = NoSize
    NoPath = NoPath
    Zero = Zero
    Capacity = 2
    PageSize = 2
    MaxPages = 2
    Scopes <- OwnWritesScopes
    Lossy = FALSE
    MaxSize = 2
SPECIFICATION Spec
INVARIANT ReadYourWrites
CHECK_DEADLOCK FALSE
