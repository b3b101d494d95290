SPECIFICATION Spec
CONSTANTS
  c1 = c1  c2 = c2  l1 = l1  l2 = l2
  Component = {c1, c2}
  Local = {l1, l2}
  Names <- MCNames
  Doc = {d1}
  MaxItems = 1
  Update = {u1, u2}
  Slot = {s1}
  MaxDocRevision = 2
  MaxOps = 2
  MaxRegistry = 3
INVARIANTS TypeOK SnapshotIsLayer OrdersUnique SnapshotsNamed ItemsBounded
PROPERTY StaleHandlesHarmless
CHECK_DEADLOCK FALSE
