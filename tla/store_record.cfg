SPECIFICATION FairSpec
CONSTANTS
  None = None
  Identities = {i1, i2}
  Unmatchable = {i2}
  MaxRun = 2
  MaxCombat = 2
  Outcomes = {victory, defeat}
  Payloads = {p1, p2}
  Unreadable = {p2}
  SourceKeys = {}
  Gaps = {}
  PageRows = 1
  MaxArchive = 0
INVARIANTS
  PendingPersistable
  NoSilentLoss
  CleanReadIsComplete
PROPERTIES
  ImplementsLog
  ReadEnds
