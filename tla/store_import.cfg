SPECIFICATION Spec
CONSTANTS
  None = None
  Identities = {i1}
  Unmatchable = {}
  MaxRun = 3
  MaxCombat = 1
  Outcomes = {victory}
  Payloads = {p1, p2}
  Unreadable = {p2}
  SourceKeys = {k1, k2}
  Gaps = {"gap"}
  PageRows = 2
  MaxArchive = 2
INVARIANTS
  IdsReserved
  DeliveredOnce
  ImportExtendsDisk
