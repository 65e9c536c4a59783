CONSTANTS
    r1 = r1
    r2 = r2
    r3 = r3
    r4 = r4
    h1 = h1
    h2 = h2
    i1 = i1
    i2 = i2
    Criticality = "mission_critical"
    Instances = {i1}
    Requests = {r1, r2, r3}
    Hashes = {h1, h2}
    HashOf <- MCHashOf
    InstanceOf <- MCInstanceOf
    InputOf <- MCInputOf
    ConditionSets <- MCConditionSets
    Subject = s
    Voters = {s}
    DualHashes = {}
    Required = 1
    TTL = 1
    Window = 1
    MaxCalls = 2
    CostOf <- MCCostOf
    MaxCost = 2
    BudgetDurable = TRUE
    KillSwitchConfigured = TRUE
    RevocationConfigured = TRUE
    LedgerMode = "sync"
    MaxTime = 2
SPECIFICATION Spec
INVARIANTS AdmittedOnce BudgetHolds
PROPERTY LedgerSpec
CHECK_DEADLOCK FALSE
