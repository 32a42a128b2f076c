CONSTANTS
    Clients = {c1, c2}
    Tasks = {t1, t2}
    None = None
    Lifetime = 2
    MaxRetries = 1
    MaxTime = 3
    MaxTokens = 2
SPECIFICATION Spec
INVARIANTS TypeOK LogoutSticks RevokedIsDropped
SYMMETRY Symmetry
