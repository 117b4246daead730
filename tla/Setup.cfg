SPECIFICATION SetupSpec
CONSTANTS
    Shared = {"debug_conversations"}
    Local = {}
    Flagged = {"debug_conversations"}
    Values = {"on"}
    On = "on"
    Models = {"opus"}
    Absent = Absent
    Damaged = Damaged
    UserHooks = {"lint"}
INVARIANTS
    EnvironmentFirst
    UserHooksKept
    HooksOnce
    DamageRecoverable
PROPERTY ModelFixed
CONSTRAINT Apart
CHECK_DEADLOCK FALSE
