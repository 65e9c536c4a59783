CONSTANTS
    Root = root
    w1 = w1
    e1 = e1
    Witnesses = {}
    Edges = {e1}
    Envelopes = {x}
    Calls = {c1, c2}
    EdgeOf <- MCEdgeOf
    Loops = {l1, l2}
    MaxDisconnected = 1
    Cosigned = 1
    RequireQuorum = 1
    TokenTTL = 2
    Margin = 1
    LinkSets <- MCCutOff
    HealAfterNoticed = FALSE
    Latency = 2
    MaxCuts = 1
    MaxTokens = 2
    MaxVersion = 1
    MaxHistory = 2
    MaxTime = 1
SPECIFICATION Spec
INVARIANTS QuotaHolds LateWarrantsFlagged DecisionsReconciled
SYMMETRY Symmetry
CHECK_DEADLOCK FALSE
