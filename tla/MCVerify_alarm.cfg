SPECIFICATION VerifySpec
CONSTANTS
    TicksPerSecond = 2
    KwUnit = 2
    Building = {"hall"}
    InitialPortfolio = {"hall"}
    Source = {"sim"}
    Reading <- TwoReadings
    Anomalous = {}
    BatchRows = 1
    MaxQueued = 2
    CheckpointEvery = 1
    MaxArrivals = 2
    MaxMalformed = 0
    MaxFailures = 1
    MaxRestarts = 1
    MaxSeconds = 2
INVARIANTS
    NoFalseAlarm
CHECK_DEADLOCK FALSE
