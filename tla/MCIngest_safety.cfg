SPECIFICATION Spec
CONSTANTS
    TicksPerSecond = 2
    KwUnit = 2
    Building = {"hall", "shed"}
    InitialPortfolio = {"hall"}
    Source = {"sim"}
    Reading <- HallAndShed
    Anomalous <- FirstHall
    BatchRows = 2
    MaxQueued = 2
    CheckpointEvery = 1
    MaxArrivals = 3
    MaxMalformed = 1
    MaxFailures = 1
    MaxRestarts = 1
    MaxSeconds = 1
INVARIANTS
    TypeOK
    ChainsIntact
    SeqFollowsTime
    AnchorsHold
    DetectorInStep
    NotifiedStored
PROPERTIES
    ImplementsLog
CHECK_DEADLOCK FALSE
