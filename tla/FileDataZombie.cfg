CONSTANTS
    Tasks = {t1}
    Files = {a, b}
    Absent = Absent
    NoEntry = NoEntry
    NoSize = NoSize
    NoPath = NoPath
    Zero = Zero
    Capacity = 2
    PageSize = 2
    MaxPages = 2
    Scopes <- ZombieScopes
    Lossy = FALSE
    MaxSize = 2
SPECIFICATION Spec
INVARIANT NoZombies
CHECK_DEADLOCK FALSE
