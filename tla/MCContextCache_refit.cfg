SPECIFICATION Spec
CONSTANTS
    Client = {c1, c2}
    MaxChanges = 2
    MaxFailures = 1
SYMMETRY ClientSymmetry
INVARIANTS
    RequestsSeeNightly
    BuiltOnlyWhenCold
CHECK_DEADLOCK FALSE
