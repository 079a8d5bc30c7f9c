SPECIFICATION Spec
CONSTANTS
  Powers = {d, x}
  DoomPowers = {d}
  StrengthPowers = {}
  PoisonPowers = {x}
  Creatures = {c1}
  Roots = {r1, r2}
  Unknown = unknown
  Inputs = {{r1}, {r1, r2}}
  MaxAmount = 2
  MaxDebt = 0
  MaxPowers = 2
  MaxLayers = 2
  MaxExtra = 1
  MaxRoots = 2
  MaxReductions = 0
  MaxBatches = 1
  MaxSerial = 2
  MaxTargets = 1
  MaxHp = 1
  MaxOwed = 2
  None = none
  d = d
  x = x
  c1 = c1
  r1 = r1
  r2 = r2
  unknown = unknown
INVARIANTS StacksAccountedFor LayersLimited DoomWithinSupply
CHECK_DEADLOCK FALSE
