CONSTANTS
    w1 = w1
    w2 = w2
    w3 = w3
    op1 = op1
    op2 = op2
    n1 = n1
    n2 = n2
    Dispatchers = {d1}
    Warrants = {w1, w2, w3}
    Scopes = {op1, op2}
    Nonces = {n1, n2}
    ScopeOf <- MCScopeOf
    NonceOf <- MCNonceOf
    ExpiresAt <- MCExpiresAt
    Revocable = {}
    ObsIds = {o1}
    MaxAge = 1
    Skew = 1
    MaxTime = 1
    MaxObs = 1
SPECIFICATION Spec
INVARIANT EvidenceAgrees
PROPERTY OperationsSpec
CHECK_DEADLOCK FALSE
