CONSTANTS
    Root = root
    w1 = w1
    e1 = e1
    Witnesses = {w1}
    Edges = {e1}
    Envelopes = {x}
    Calls = {c1}
    EdgeOf <- MCEdgeOf
    Loops = {l1}
    MaxDisconnected = 1
    Cosigned = 1
    RequireQuorum = 1
    TokenTTL = 9
    Margin = 2
    LinkSets <- MCIsolate
    HealAfterNoticed = TRUE
    Latency = 1
    MaxCuts = 1
    MaxTokens = 1
    MaxVersion = 2
    MaxHistory = 0
    MaxTime = 3
SPECIFICATION FairSpec
INVARIANT NewestVersionArrives
PROPERTY RevocationArrives
CHECK_DEADLOCK FALSE
