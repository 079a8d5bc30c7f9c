SPECIFICATION Spec
CONSTANTS
  NumSlots = 2
  Roots = {r1, r2}
  Osty = osty
  Snapshots <- MCSnapshots
  Receivers = {1}
  Amounts = {1, 3}
  Modifiers <- MCModifiers
  Kinds = {"hit", "absorb"}
  MaxResults = 1
  MaxCredit = 3
  MaxRows = 3
  MaxBlocks = 2
  MaxOsty = 2
  None = none
  r1 = r1
  r2 = r2
  osty = osty
INVARIANTS SlicesHold Recoverable
PROPERTY ImplementsPoints

CONSTRAINT OneDefence
CHECK_DEADLOCK FALSE
