CONSTANTS
    executor = executor
    auditor = auditor
    NumTasks = 2
    Autonomous = {2}
    Agents = {executor, auditor}
    Assigned <- MCAssigned
    MaxAttempts = 1
    InFlight = 2
    MaxEvents = 2
    NoAgent = NoAgent
    NoCopy = NoCopy
    Torn = Torn
SPECIFICATION FairSpec
INVARIANTS RetryBudget CompletedHasReceipt DependenciesFirst AcknowledgedIsKept
PROPERTIES NoSuccessUnderKill StaleRunsTakenBack
