CONSTANTS
    m1 = m1
    m2 = m2
    d1 = d1
    e1 = e1
    w1 = w1
    w2 = w2
    b1 = b1
    b2 = b2
    n1 = n1
    n2 = n2
    k1 = k1
    k2 = k2
    pay = pay
    Wildcard = Wildcard
    MaeIds = {m1, m2}
    WardIds = {d1}
    EnvIds = {e1}
    WarrantIds = {w1, w2}
    Nonces = {n1, n2}
    BridgeIds = {b1, b2}
    Keys = {k1, k2}
    PrimaryKey = k1
    MaeInputs <- MCMaeInputs
    WardInputs <- MCWardInputs
    EnvInputs <- MCEnvInputs
    WarrantInputs <- MCWarrantInputs
    CommitRequests <- MCCommitRequests
    BridgeInputs <- MCBridgeInputs
    NotFound = NotFound
    NoProof = NoProof
    NoWrite = NoWrite
    Founded <- MCFounded
    FoundedNonce = n1
    MaxPosts = 3
    Skew = 1
    MaxTime = 1
    MaxRecords = 2
    MaxCrashes = 1
SPECIFICATION Spec
INVARIANTS SingleUse EvidenceAgrees BudgetHolds
PROPERTIES DurableIsFinal RevokedNeverAllowed AuthorityNarrows
CHECK_DEADLOCK FALSE
