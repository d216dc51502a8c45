SPECIFICATION DetectorSpec
CONSTANTS
    Building = {"hall", "gym", "lab"}
    MaxTracked = 2
    History = 2
    MaxReadings = 6
INVARIANTS
    UndoneUnlessEvicted
    ScoredGoLast
CHECK_DEADLOCK FALSE
