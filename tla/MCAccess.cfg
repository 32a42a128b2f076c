CONSTANTS
    Commands = {c1, c2, c3}
    Names = {n0, n1, n2}
    UidModulus = 5
    FirstUid = 3
    CountLimit = 2
    None = None
    Tasks = {t1, t2}
    Top = Top
    Paths = {Top, file}
    Before = Before
    Given = {None, 4}
    Groups = {None, 1}
    MaxChanges = 3
    file = file
    n0 = n0
    n1 = n1
    n2 = n2
    Instances <- SomeInstances
SYMMETRY Symmetry
SPECIFICATION Spec
INVARIANTS TypeOK CommandsTellTrue Rightful MtimeTells
CHECK_DEADLOCK FALSE
