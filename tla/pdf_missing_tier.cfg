SPECIFICATION Spec
CONSTANTS
  Pages = 1
  Budgets <- SmallBudgets
  Nothing = Nothing
INVARIANTS
  MissingTierDegrades
CHECK_DEADLOCK FALSE
