SPECIFICATION FairSpec
CONSTANTS
    r1 = r1
    r2 = r2
    alice = alice
    bob = bob
    large = large
    None = None
    Request = {r1, r2}
    Owner = {alice, bob}
    Posts <- TwoOwners
    Base = {large}
    RewardAmount <- OneUnit
    Face <- Faces
    MaxCoins = 1
    InitialFunds = 0
    AdmissionCrash = TRUE
    GasMayRunOut = FALSE
    Stops = {"operator-stopped"}
    MaxPosts = 1
    MaxDisturbances = 1
    MaxForks = 0
PROPERTIES
    Settled
CHECK_DEADLOCK FALSE
