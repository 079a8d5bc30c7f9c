SPECIFICATION Spec
CONSTANTS
  Identities = {i1}
  MaxRun = 2
  MaxCombat = 2
  MaxEvents = 1
  PageRows = 1
  None = None
INVARIANTS
  LiveAgreesWithStore
  CombatIsSavable
  StoredUnderItsRun
  OneRunPerIdentity
PROPERTIES
  CompleteMeansAll
CHECK_DEADLOCK FALSE
