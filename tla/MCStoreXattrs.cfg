CONSTANTS
    Tasks = {t1, t2}
    Users = {u1, u2}
    Server = Server
    Items = {i1, i2, i3}
    Paths <- MCPaths
    Attributes = {n1}
    SwapName <- MCSwapName
    NoItem = NoItem
    NoName = NoName
    Left = Left
    Orphan = Orphan
    Exchanging = Exchanging
    Requests = {"write", "mkdir", "delete", "rename", "noreplace", "exchange", "set", "unset"}
    x = x
    d = d
    swap_x = swap_x
    swap_d = swap_d
    MaxOverlaps = 0
SYMMETRY MCSymmetry
SPECIFICATION Spec
INVARIANT XattrsFollowItems
CHECK_DEADLOCK FALSE
