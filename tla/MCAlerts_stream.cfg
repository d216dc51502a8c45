SPECIFICATION AlertsSpec
CONSTANTS
  Buildings <- MCBuildings
  Prober = {"probe"}
  MaxTs = 3
  SeedEnds = {1, 2}
  FaultSteps = 2
  ATTEMPTS = 2
  PerHour = 2
  Refit = {"night", "job"}
  Budgets <- MCBudgets
INVARIANTS HolesExplained TruthAfterHistory FaultsAlerted
CHECK_DEADLOCK FALSE
