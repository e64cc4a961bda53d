SPECIFICATION MCSpec
CONSTANTS
    p1 = p1 p2 = p2 o1 = o1 o2 = o2 i1 = i1 i2 = i2
    Process = {p1, p2}
    Operation = {o1, o2}
    NoAttempt = NoAttempt
    MaxRows = 2
    MaxMined = 1
    MaxFee = 2
    Proc = {p1, p2}
    LocalOp = {o1, o2}
    Coin = {i1, i2}
    Absent = Absent
    Left = Left
    MaxCommands = 4
    MaxKeys = 1
    MaxCrashes = 1
SYMMETRY MCSymmetry
INVARIANTS
    NonceOneOperation ExecutedIsFinal InputsApart ReportedIsKept RestoredSeesTheChain
PROPERTIES
    RetryKnowsAll ProgressOnlyGrows
CHECK_DEADLOCK FALSE
