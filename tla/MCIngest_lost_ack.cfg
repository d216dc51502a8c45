SPECIFICATION LossySpec
CONSTANTS
    TicksPerSecond = 2
    KwUnit = 2
    Building = {"hall"}
    InitialPortfolio = {"hall"}
    Source = {"sim"}
    Reading <- HallOnly
    Anomalous = {}
    BatchRows = 2
    MaxQueued = 4
    CheckpointEvery = 1
    MaxArrivals = 2
    MaxMalformed = 0
    MaxFailures = 1
    MaxRestarts = 0
    MaxSeconds = 0
INVARIANTS
    ChainsIntact
CHECK_DEADLOCK FALSE
