SPECIFICATION DisplaySpec
CONSTANTS
    Issues = {"a", "b", "c"}
    Deps <- MCDeps
    Cyclic = {}
    Position <- MCPosition
    Priority <- MCPriority
    IterationLimits = {0}
    MaxRuns = 2
    MaxCompletions = 3
    MaxDisturbances = 0
INVARIANTS
    BoardFollowsSprint
    LogFollowsSprint
    ThrobberMeansWork
CHECK_DEADLOCK FALSE
