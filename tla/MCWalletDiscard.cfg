SPECIFICATION SpecOwner
CONSTANTS
    Proc = {p1, p2}
    LocalOp = {o1, o2}
    Coin = {i1, i2}
    Absent = Absent
    Left = Left
    MaxCommands = 3
    MaxKeys = 0
    MaxCrashes = 0
PROPERTY DiscardsOnlyUnreserved
CHECK_DEADLOCK FALSE
