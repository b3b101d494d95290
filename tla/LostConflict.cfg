SPECIFICATION Spec
CONSTANTS
  Project = {1}
  Namespace = {n1, n2}
  Schema <- MCSchema
  Key = {k1}
  Val = {v1}
  None = None
  Untouched = Untouched
  Parse <- MCThree
  MaxCrash = 1
  MaxFault = 1
ACTION_CONSTRAINTS OneNamespace
PROPERTY ConflictsDetected
CHECK_DEADLOCK FALSE
