CONSTANTS
    Tasks = {t1, t2}
    Users = {u1}
    Server = Server
    Items = {i1, i2}
    Paths <- MCPaths
    Attributes = {n1}
    SwapName <- MCSwapName
    NoItem = NoItem
    NoName = NoName
    Left = NoItem
    Orphan = Orphan
    Exchanging = Exchanging
    Requests = {"write", "mkdir", "delete", "rename", "noreplace", "exchange", "set", "unset"}
    x = x
    d = d
    swap_x = swap_x
    swap_d = swap_d
    MaxOverlaps = 1
SYMMETRY MCSymmetry
SPECIFICATION Spec
INVARIANTS TypeOK XattrsFollow OwnersSet
PROPERTY ItemsConserved
CONSTRAINT FewRows
CHECK_DEADLOCK FALSE
