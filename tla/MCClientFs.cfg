SPECIFICATION Spec
CONSTANTS
    t1 = t1
    t2 = t2
    d1 = d1
    d2 = d2
    f1 = f1
    Tasks = {t1, t2}
    Absent = Absent
    NoEntry = NoEntry
    NoInfo = NoInfo
    NoAnswer = NoAnswer
    Retries = 1
    MaxChanges = 3
    MaxHandles = 1
    Paths <- SomePaths
    Scopes <- SomeScopes
INVARIANTS
    TypeOK
    ReportsTrue
PROPERTIES
    Refines
