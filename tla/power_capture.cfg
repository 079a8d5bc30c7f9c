SPECIFICATION CaptureSpec
CONSTANTS
  Powers = {x}
  DoomPowers = {}
  StrengthPowers = {x}
  PoisonPowers = {}
  Creatures = {c1}
  Roots = {r1, r2}
  Unknown = unknown
  Inputs = {{r1}, {r2}}
  MaxAmount = 2
  MaxDebt = 1
  MaxPowers = 1
  MaxLayers = 2
  MaxExtra = 1
  MaxRoots = 2
  MaxReductions = 1
  MaxBatches = 0
  MaxSerial = 0
  MaxTargets = 0
  MaxHp = 0
  MaxOwed = 0
  MaxDepth = 3
  MaxCalls = 4
  None = none
  x = x
  c1 = c1
  r1 = r1
  r2 = r2
  unknown = unknown
INVARIANTS CompleteMeansExact NeverOverCredits StandingReductions
CHECK_DEADLOCK FALSE
