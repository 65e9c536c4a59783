CONSTANTS
    w1 = w1
    w2 = w2
    w3 = w3
    op1 = op1
    op2 = op2
    n1 = n1
    n2 = n2
    Dispatchers = {d1, d2}
    Warrants = {w1, w2}
    Scopes = {op1, op2}
    Nonces = {n1, n2}
    ScopeOf <- MCScopeOf
    NonceOf <- MCNonceOf
    ExpiresAt <- MCExpiresAt
    Revocable = {w1}
    ObsIds = {o1, o2}
    MaxAge = 0
    Skew = 0
    MaxTime = 1
    MaxObs = 2
SPECIFICATION Spec
SYMMETRY MCSymmetry
INVARIANTS AtMostOneEffect ReopenSucceeds
PROPERTY SettledStaysSettled
CHECK_DEADLOCK FALSE
