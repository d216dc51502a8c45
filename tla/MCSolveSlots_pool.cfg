SPECIFICATION SlotsSpec
CONSTANTS
    r1 = r1
    r2 = r2
    r3 = r3
    r4 = r4
    r5 = r5
    ann = ann
    bob = bob
    cyd = cyd
    Request <- MCRequest
    Account <- MCAccount
    Cores = 8
    MaxRuns = 3
SYMMETRY Symmetry
INVARIANTS
    SlotsAccounted
    NoMonopoly
    HeldRunsReadable
