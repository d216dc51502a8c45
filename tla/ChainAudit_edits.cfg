SPECIFICATION Spec
CONSTANTS
    TicksPerSecond = 2
    KwUnit = 2
    Length = 4
    Instant = {1, 2, 6}
    Power = {1, 2, 3, 4}
    MaxEdits = 3
INVARIANTS
    CleanMeansUntouched
    WalkMatchesIntact
CHECK_DEADLOCK FALSE
