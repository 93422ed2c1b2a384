\* The poller tailing the log while a client writes and a compactor
\* compacts behind (or past) it, with batches capped at one row, statement
\* faults, and one restart of the poller's node.
CONSTANTS
  Keys = {k1}
  Vals = {v1}
  Clients = {c1}
  Compactors = {p1}
  NULL = NULL
  CompactRevKey = CompactRevKey
  MaxId <- MCPollMaxId
  MaxRetries <- MCPollMaxRetries
  Faults <- MCPollFaults
  LockWrites = FALSE
  Ops <- MCPollOps
  CompactInterval = 5
  BatchLimit <- MCBatchLimit
  MaxRestarts <- MCMaxRestarts

SPECIFICATION PSpec

INVARIANT PollerTypeOK
INVARIANT WatchStreamFaithful
PROPERTY PollerCatchesUp
