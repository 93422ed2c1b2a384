\* One client of an older release writing while two
\* compactors (two nodes) race on stale GetCompactRevision reads, under
\* transient and lost-answer faults.
CONSTANTS
  Keys = {k1}
  Vals = {v1}
  Clients = {c1}
  Compactors = {p1, p2}
  NULL = NULL
  CompactRevKey = CompactRevKey
  MaxId <- MCMaxId
  MaxRetries <- MCMaxRetries
  Faults <- MCAllFaults
  LockWrites = TRUE
  Ops <- MCLegacyOps
  CompactInterval = 5

SPECIFICATION Spec

INVARIANT ReadsSurviveCompaction
INVARIANT CompactionComplete
PROPERTY CompactRevisionMonotonic
SYMMETRY MCSymmetry
VIEW MCView
