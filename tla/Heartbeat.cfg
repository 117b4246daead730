SPECIFICATION Spec
CONSTANTS
    Kinds = {"thread", "async"}
    Steps = {"implement", "run-tests"}
    Timeout = 2
    Monitors <- ThreeMonitors
INVARIANTS
    OneMonitor
    ReportedOnce
PROPERTY HangReported
CHECK_DEADLOCK FALSE
