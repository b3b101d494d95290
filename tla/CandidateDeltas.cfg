SPECIFICATION CandidateSpec
CONSTANTS
  c1 = c1  c2 = c2  d1 = d1  d2 = d2
  Component = {c1, c2}
  Namespace = {n1}
  Owner <- MCOwner
  Readers <- MCReaders
  Writers <- MCWriters
  Scope = {"project"}
  Doc = {d1, d2}
  Key = {k1}
  Val = {v1}
  None = None
  Untouched = Untouched
  Weight <- MCWeight
  Quota = 1
  Parse <- OneParse
  Call <- OneParseCalls
  Slot <- NoSlot
  RollbackDuringCall = FALSE
  Texts <- Pieces
  MaxDepth = 2
  MaxDelta = 2
  MaxOverlay = 3
INVARIANTS OverlayNamesContents 
PROPERTY SelectionReplays
ACTION_CONSTRAINTS OneAccess PiecesInOrder
CHECK_DEADLOCK FALSE
