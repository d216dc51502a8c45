SPECIFICATION FairSpec
CONSTANTS
    TicksPerSecond = 2
    KwUnit = 2
    Building = {"hall", "shed"}
    InitialPortfolio = {"hall"}
    Source = {"sim"}
    Reading <- HallAndShed
    Anomalous = {}
    BatchRows = 2
    MaxQueued = 2
    CheckpointEvery = 1
    MaxArrivals = 3
    MaxMalformed = 0
    MaxFailures = 2
    MaxRestarts = 1
    MaxSeconds = 0
INVARIANTS
    EveryReadingAccounted
    NoOvertake
PROPERTIES
    ReadingReachesTable
CHECK_DEADLOCK FALSE
