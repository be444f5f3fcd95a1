SPECIFICATION Spec
CONSTANTS
    Addresses = {x}
    Reasons = {test, other}
    TestReason = test
    MaxRetainedLabelSets = 1
    Keyspaces = {k1, k2}
    Cooldown = 1
    SessionLimits = {1, 2}
    MaxSession = 2
    MaxReservation = 2
    MaxAccount = 2
    MaxRedirect = 2
    MaxClose = 1
    Horizon = 1
INVARIANTS CountsMatchSessions ChargedIsRetained PendingNeverStuck LedgerConsistent
PROPERTY KeyspaceKept
CONSTRAINT Explored
CHECK_DEADLOCK FALSE
