SPECIFICATION Spec
CONSTANTS
    QueueDepth = 2
    Severity = {0, 2}
    MinSeverity = 1
    MaxNotifications = 5
    MaxSurprises = 1
INVARIANTS
    CountedWhileAlive
    DrainedOnReturn
PROPERTIES
    StopReturns
CHECK_DEADLOCK FALSE
