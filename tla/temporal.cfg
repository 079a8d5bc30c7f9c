SPECIFICATION TemporalSpec
CONSTANTS
  Frames = {f1}
  Keys <- MCKeys
  Holders <- MCHolders
  NoCard = nocard
  Executions = {e1}
  Amounts <- MCAmounts
  IntRange <- MCInts
  MaxPending = 1
  Unit = 12
  Objects = {o1, o2, o3}
  Snapshots <- MCSnapshots
  Unknown = unknown
  MaxPayload = 3
  MaxSequence = 1
  MaxShares = 2
  MaxTotal = 4
  Refused = refused
  None = none
  r1 = r1
  r2 = r2
  f1 = f1
  p = p
  card = card
INVARIANT PendingIsExact

CHECK_DEADLOCK FALSE
