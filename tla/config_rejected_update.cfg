SPECIFICATION ConfigSpec
CONSTANTS
    ConfigAdmins = {a1}
    MaxUpdates = 2
    MaxFieldsSent = 2
CHECK_DEADLOCK FALSE
INVARIANTS
    RefusedLeavesNothing
