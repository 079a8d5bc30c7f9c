SPECIFICATION Spec
CONSTANTS
  Slots = {0, 1, 2}
  MaxRows = 4
  MaxGenerated = 1
  MaxOrbs = 1
  MaxOpen = 1
  MaxPayload = 2
  MaxCount = 2
  MaxShares = 2
  MaxReasons = 1
  Flows = {f, g}
  Cards = {1, 2}
  Orbs = {3}
  Unidentified = {}
  PlayerOf <- PlayerOfAll
  CardId <- CardIdOfAll
  MaxDepth = 1
  MaxExecutions = 2
  MaxStarts = 2
  MaxCombats = 2
VIEW View
SYMMETRY Symmetric
INVARIANTS
  PlaysAddUp
  OpenPlaysAreRunning
  CompleteMeansCounted
  KnownAlike
PROPERTY
  LateFlowsAreInert
CHECK_DEADLOCK FALSE
