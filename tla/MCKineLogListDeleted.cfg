\* MVCC reads that include tombstones, across a compaction.
CONSTANTS
  Keys = {k1}
  Vals = {v1}
  Clients = {c1}
  Compactors = {p1}
  NULL = NULL
  CompactRevKey = CompactRevKey
  MaxId <- MCMaxId
  MaxRetries <- MCMaxRetries
  Faults <- MCNoFaults
  LockWrites = FALSE
  Ops <- MCCasOps
  CompactInterval = 5

SPECIFICATION Spec

INVARIANT ListWithTombstonesSurvivesCompaction
