SPECIFICATION MCSpec
CONSTANTS
    c1 = c1 c2 = c2 q1 = q1 q2 = q2
    Owner = {alice}
    PoolAddress = pool
    Adapter = adapter
    Payee = {pool, adapter, payee}
    Recipient = {shop, system}
    SystemAddress = {system}
    None = None
    M = 2
    Q = 9
    Claim <- MCClaim
    MaxOps = 3
    MaxBalance = 1
    MaxOut = 2
    MaxTime = 2
    MaxForced = 1
    Tab = {c1, c2}
    Deadline = 2
    MaxBlockTime = 3
    MaxRuns = 3
    Outside = Outside
    Rival = Rival
    Elsewhere = {Outside}
    NoRow = NoRow
    Account = {a1, a2}
    Challenge = {n1, n2}
    Login = {q1, q2}
    ChallengeTerm = 2
    SessionTerm = 3
    MaxClock = 3
    Unset = Unset
SYMMETRY MCSymmetry
INVARIANTS
    WithdrawnIffPaid DeliveredAsAgreed
    SignedAfterStarted RevisionCarriesSignatures OneHolder SentIsRecorded
    OneUnresolved SuccessorOnlyWhenDead OneSessionPerSignature
CHECK_DEADLOCK FALSE
