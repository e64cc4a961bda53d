SPECIFICATION MCSpec
CONSTANTS
    alice = alice bob = bob deposit = deposit pay = pay send = send
    Owner = {alice, bob}
    PoolAddress = pool
    Payee = {pool, shop}
    None = None
    M = 2
    Q = 9
    Claim <- MCClaim
    MaxOps = 3
    MaxBalance = 3
    Op = {deposit, pay, send}
    Consumes <- MCConsumes
    Creates <- MCCreates
    Draft = pay
    Empty = Empty
    MaxBlocks = 3
    MaxForks = 2
    Order = 19
    Width = 4
    Amount = {0, 1, 2, 11, 16, 17}
    Secret <- MCSecret
    Answer = {1, 7}
    Opening <- MCOpening
    Public = {0, 1, 17, 33}
SYMMETRY MCSymmetry
INVARIANTS
    TypeOK ExactBalance Conservation Solvency NoDoubleSpend OwnerAuthorizes LogReplays
    SyncTrue PreflightTrue ProvedIffTrue
PROPERTY ImplementsAccounts
CHECK_DEADLOCK FALSE
