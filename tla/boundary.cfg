SPECIFICATION Spec
CONSTANTS
  Slots = {0, 1}
  MaxRows = 4
  MaxGenerated = 1
  MaxOrbs = 1
  MaxOpen = 1
  MaxPayload = 2
  MaxCount = 1
  MaxShares = 2
  MaxReasons = 1
  Threads = {main}
  MaxEngines = 1
  MaxObservations = 3
  MaxReleases = 3
  MaxIds = 1
  Calls <- Chosen
VIEW View
INVARIANTS
  ReplayReproduces
  TruncationIsEarned
  CacheIsCurrent
PROPERTY
  Quarantined
CHECK_DEADLOCK FALSE
