SPECIFICATION Spec
CONSTANTS
    Modes <- AllModes
    MaxSessions = 2
    MaxFaults = 1
INVARIANTS
    ChildGone
    LeftoversTracked
    ExitLeavesNothing
    SuccessIsReal
PROPERTIES
    StrangersSpared
    SessionEnds
    SignalEnds
CHECK_DEADLOCK FALSE
