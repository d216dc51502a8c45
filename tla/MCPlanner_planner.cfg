SPECIFICATION Spec
CONSTANTS
  One = 4
  MaxMembers = 2
  LifeUnit = 2
  HOURS_PER_DAY = 2
  Scenes <- MCScenes
  Budgets <- MCBudgets
  NoCap = NoCap
  Caps = {NoCap, 1}
INVARIANTS BundlesHonest SpendingBounded NeverEmptyHanded PruneSafe
PROPERTIES SolveReturns
CHECK_DEADLOCK FALSE
