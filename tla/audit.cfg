SPECIFICATION Spec
CONSTANTS
  MaxShares = 4
  MaxTotal = 1000
  Refused = "refused"
  Cards = {a, b}
  Conjured = {g}
  Stray = "stray"
  Limits = {11, 60}
  MaxPending = 2
  MaxStacks = 4
  Amounts = {2}
  Budgets <- MCBudgets
  a = a
  b = b
  g = g
INVARIANTS
  CompleteIsTrue
  PartialIsSound
  EngineNotAccused
SYMMETRY Symmetry
VIEW View
CHECK_DEADLOCK FALSE
