SPECIFICATION Spec
CONSTANTS
  Holders = {h1, h2, h3}
  Objects = {o1, o2, o3, o4}
  Snapshots <- MCSnapshots
  Unknown = unknown
  MaxPayload = 3
  MaxSequence = 2
  MaxShares = 2
  MaxTotal = 4
  Refused = refused
  None = none
  r1 = r1
  r2 = r2
INVARIANTS OwnersResolve ReleasedOnce

CHECK_DEADLOCK FALSE
