SPECIFICATION Spec
CONSTANTS
    c1 = c1 c2 = c2 r1 = r1 r2 = r2 pay1 = pay1 pay2 = pay2 ox = ox i1 = i1
    Client = {c1, c2}
    Record = {r1, r2}
    Operation = {pay1, pay2}
    Foreign = {}
    InputOf <- MCInputOf
    DeadlineOf <- MCDeadlineOf
    MaxTime = 2
    MaxRevision = 2
    MaxVersion = 2
    MaxForks = 0
    MaxStops = 1
    None = None
SYMMETRY MCSymmetry
INVARIANT OneLiveAuthorization
PROPERTY NothingLost
CONSTRAINT StopsEarly
CHECK_DEADLOCK FALSE
