SPECIFICATION DocSpec
CONSTANTS
  Component = {1, 2}
  Core = 1
  Doc = {d1}
  Txn = {t1, t2}
  MaxRevision = 2
  MaxWork = 2
  MaxRounds = 3
INVARIANTS DocTypeOK FailureUndone NoGhosts
PROPERTIES DocumentAtomic CancelledStays
SYMMETRY TxnSymmetry
CHECK_DEADLOCK FALSE
