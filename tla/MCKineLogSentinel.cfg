\* DeleteRevision of any handed-out id, the sentinel row included.
CONSTANTS
  Keys = {k1}
  Vals = {v1}
  Clients = {c1}
  Compactors = {p1}
  NULL = NULL
  CompactRevKey = CompactRevKey
  MaxId <- MCMaxId
  MaxRetries <- MCMaxRetries
  Faults <- MCNoFaults
  LockWrites = FALSE
  Ops <- MCAllOps
  CompactInterval = 5

SPECIFICATION SpecDeleteRevision

PROPERTY CompactRevisionMonotonic
