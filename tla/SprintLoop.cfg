SPECIFICATION Spec
CONSTANTS
    Issues = {"a", "b", "c"}
    Deps <- MCDeps
    Cyclic <- MCCyclic
    Position <- MCPosition
    Priority <- MCPriority
    IterationLimits = {0, 1}
    MaxRuns = 3
    MaxDisturbances = 1
INVARIANTS
    TypeOK
    CompletedByEngine
    CompletedMeansDone
    DependenciesRespected
    NoRework
    OneInProgress
    GivenUpForCause
    DetectionIsExact
PROPERTIES
    CompletedIsFinal
    SprintReturns
CHECK_DEADLOCK FALSE
