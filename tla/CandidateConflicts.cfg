SPECIFICATION CandidateSpec
CONSTANTS
  c1 = c1  c2 = c2  d1 = d1  d2 = d2
  Component = {c1, c2}
  Namespace = {n1}
  Owner <- MCOwner
  Readers <- MCReaders
  Writers <- MCWriters
  Scope = {"project"}
  Doc = {d1, d2}
  Key = {k1}
  Val = {v1}
  None = None
  Untouched = Untouched
  Weight <- MCWeight
  Quota = 1
  Parse <- MCPair
  Call <- CandidateCalls
  Slot <- NoSlot
  RollbackDuringCall = FALSE
  Texts <- OnePiece
  MaxDepth = 2
  MaxDelta = 1
  MaxOverlay = 3
INVARIANT SelectionAlwaysApplies
PROPERTY Serializable
ACTION_CONSTRAINTS PeerFirst OneAccess
CHECK_DEADLOCK FALSE
