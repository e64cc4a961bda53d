SPECIFICATION MCSpec
CONSTANTS
    large = large
    None = None
    Never = Never
    Request = {r1, r2}
    Owner = {alice, bob}
    Posts <- AnyOwner
    Base = {c1, large}
    RewardAmount <- TwoUnits
    Face <- Faces
    MaxCoins = 2
    InitialFunds = 0
    AdmissionCrash = FALSE
    GasMayRunOut = TRUE
    Stops = {"operator-stopped", "quota-stopped", "restore-stopped"}
    MaxPosts = 2
    MaxDisturbances = 1
    MaxForks = 0
    Piece = {1, 2, 3, 4, 5}
    Value <- MCValue
    Limit = 6
    Needs = {1, 2, 3, 4, 5, 6}
    EarlierAttempt = TRUE
    MaxRounds = 3
    MaxTroubles = 2
    MaxEras = 1
SYMMETRY MCSymmetry
INVARIANTS
    EndedNeverPaid
    Backed
    WorkScheduled
    FewRounds
    EndedIsQuiet
CHECK_DEADLOCK FALSE
