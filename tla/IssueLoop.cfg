SPECIFICATION Spec
CONSTANTS
    MaxTotalIterations = 11
    MaxRetry = 2
    RateLimitAttempts = 2
    Changes = {"change"}
    ToolSteps = {"commit-changes", "misspelled"}
    ToolTimes = {"selecting", "top", "body", "session", "returned"}
    GateSettings <- MCGateSettings
    MaxRuns = 2
    MaxDisturbances = 1
INVARIANTS
    TypeOK
    VerifiedBeforeCommit
    SessionBudget
    CheckpointComplete
    RefusedOnlyAtFixTests
PROPERTIES
    ImplementsIssueRun
    EngineReturns
CHECK_DEADLOCK FALSE
