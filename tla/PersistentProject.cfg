SPECIFICATION Spec
CONSTANTS
  Project = {1, 2}
  Namespace = {n1, n2}
  Schema <- MCSchema
  Key = {k1}
  Val = {v1}
  None = None
  Untouched = Untouched
  Parse <- MCParse
  MaxCrash = 1
  MaxFault = 1
INVARIANTS CacheCoherent SchemaIsolated ReadsCurrent
PROPERTY ContentsChange
ACTION_CONSTRAINTS OneNamespace NewSchemaLater
SYMMETRY NamespaceSymmetry
CHECK_DEADLOCK FALSE
