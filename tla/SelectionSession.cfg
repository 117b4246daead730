SPECIFICATION Spec
CONSTANTS
    MaxTotalIterations = 4
    MaxRetry = 2
    RateLimitAttempts = 2
    Changes = {"change"}
    ToolSteps = {"commit-changes"}
    ToolTimes = {"session"}
    GateSettings <- AllGateSettings
    MaxRuns = 2
    MaxDisturbances = 1
INVARIANT SelectionNotEngines
CHECK_DEADLOCK FALSE
