\* A Create/Update/Delete whose statement committed but whose answer was
\* lost, retried by execute.
CONSTANTS
  Keys = {k1}
  Vals = {v1}
  Clients = {c1}
  Compactors = {p1}
  NULL = NULL
  CompactRevKey = CompactRevKey
  MaxId <- MCMaxId
  MaxRetries <- MCMaxRetries
  Faults <- MCLostFaults
  LockWrites = FALSE
  Ops <- MCCasOps
  CompactInterval = 5

SPECIFICATION Spec

INVARIANT CasMissWritesNothing
