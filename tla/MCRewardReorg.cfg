SPECIFICATION Spec
CONSTANTS
    r1 = r1
    r2 = r2
    alice = alice
    bob = bob
    large = large
    None = None
    Request = {r1, r2}
    Owner = {alice, bob}
    Posts <- TwoOwners
    Base = {c1, c2, large}
    RewardAmount <- TwoUnits
    Face <- Faces
    MaxCoins = 2
    InitialFunds = 2
    AdmissionCrash = FALSE
    GasMayRunOut = FALSE
    Stops = {}
    MaxPosts = 1
    MaxDisturbances = 1
    MaxForks = 1
CONSTRAINT CalmWithChange
SYMMETRY PairSymmetry
INVARIANTS
    InputsExclusive
    ReservationsMatch
PROPERTIES
    InOrder
CHECK_DEADLOCK FALSE
