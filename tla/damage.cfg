CONSTANTS
  Calls = {c1, c2}
  Early = {weak}
  Late = {modifier}
  MaxReports = 2
  MaxCalculations = 1
  MaxBatches = 1
  MaxSerial = 2
  MaxSequence = 2
  MaxResults = 1
  MaxTargets = 1
  None = None
SPECIFICATION Spec
SYMMETRY MCSymmetry
CHECK_DEADLOCK FALSE
INVARIANTS
  BookedOnce
  OwnEvidence
  HeldCalculations
