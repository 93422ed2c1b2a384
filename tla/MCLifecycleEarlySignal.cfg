\* A signal sent after server.Start but before its signal.Notify.
CONSTANTS
  MaxSignals = 1

SPECIFICATION Spec

INVARIANT StartedServerStopsGracefully
CHECK_DEADLOCK FALSE
