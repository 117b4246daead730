SPECIFICATION Spec
CONSTANTS
    Modes <- SyncOnly
    MaxSessions = 1
    MaxFaults = 0
PROPERTY TimeoutKills
CHECK_DEADLOCK FALSE
