CONSTANTS
    r1 = r1
    r2 = r2
    r3 = r3
    r4 = r4
    h1 = h1
    h2 = h2
    i1 = i1
    i2 = i2
    Criticality = "mission_critical"
    Instances = {i1, i2}
    Requests = {r1, r2, r4}
    Hashes = {h1, h2}
    HashOf <- MCHashOf
    InstanceOf <- MCInstanceOf
    InputOf <- MCInputOf
    ConditionSets <- Healthy
    Subject = s
    Voters = {s, a, b, c}
    DualHashes = {h1}
    Required = 2
    TTL = 0
    Window = 1
    MaxCalls = 2
    CostOf <- MCCostOf
    MaxCost = 9
    BudgetDurable = TRUE
    KillSwitchConfigured = FALSE
    RevocationConfigured = FALSE
    LedgerMode = "transaction"
    MaxTime = 1
SPECIFICATION Spec
INVARIANTS ReplayOnlyInLookupWindow AnswerIsEvidenced DualControlHolds
PROPERTY SharedSpec
SYMMETRY PostgresSymmetry
CHECK_DEADLOCK FALSE
