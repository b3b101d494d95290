SPECIFICATION Spec
CONSTANTS
  c1 = c1  c2 = c2  d1 = d1  d2 = d2
  Component = {c1, c2}
  Namespace = {n1}
  Owner <- MCOwner
  Readers <- MCReaders
  Writers <- MCWriters
  Scope = {"project"}
  Doc = {d1, d2}
  Key = {k1, k2}
  Val = {v1}
  None = None
  Untouched = Untouched
  Weight <- MCWeight
  Quota = 1
  Parse <- MCParse
  Call <- MCCall
  Slot <- MCSlot
  RollbackDuringCall = FALSE
INVARIANTS TypeOK QuotaRespected DependenciesSound ConflictHasCause
PROPERTIES NewerRevisionWins Serializable
SYMMETRY KeySymmetry
CHECK_DEADLOCK FALSE
