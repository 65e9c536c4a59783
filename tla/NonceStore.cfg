CONSTANTS
    Nonces = {n1, n2}
    MaxAge = 2
    MaxTears = 2
    MaxTime = 3
    MaxAccepted = 4
SPECIFICATION Spec
INVARIANTS ReplayRefused OneLossPerTear
SYMMETRY NonceSymmetry
