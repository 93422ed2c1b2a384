\* Client writes, fills and two racing compactors under transient and
\* lost-answer statement faults.
CONSTANTS
  Keys = {k1}
  Vals = {v1}
  Clients = {c1, c2}
  Compactors = {p1}
  NULL = NULL
  CompactRevKey = CompactRevKey
  MaxId <- MCMaxId
  MaxRetries <- MCMaxRetries
  Faults <- MCAllFaults
  LockWrites = FALSE
  Ops <- MCWriteOps
  CompactInterval = 5

SPECIFICATION Spec

INVARIANT TypeOK
INVARIANT ReadsSurviveCompaction
INVARIANT PrevRevisionChain
INVARIANT CreateRevisionRoot
PROPERTY RefinesKineAbstract
SYMMETRY MCSymmetry
VIEW MCView
