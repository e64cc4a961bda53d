SPECIFICATION Spec
CONSTANTS
    c1 = c1 c2 = c2 r1 = r1 r2 = r2 pay1 = pay1 pay2 = pay2 ox = ox i1 = i1
    Client = {c1}
    Record = {r1, r2}
    Operation = {pay1, pay2}
    Foreign = {ox}
    InputOf <- MCInputOf
    DeadlineOf <- MCDeadlineOf
    MaxTime = 3
    MaxRevision = 2
    MaxVersion = 3
    MaxForks = 0
    MaxStops = 0
    None = None
SYMMETRY MCSymmetry
INVARIANT StopMeansReorg
CHECK_DEADLOCK FALSE
