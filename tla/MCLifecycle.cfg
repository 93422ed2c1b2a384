\* Run's start-up, signal handling and shutdown, with up to four signals (one of each kind, or repeats)
\* from outside and the server's MustStop.
CONSTANTS
  MaxSignals = 4

SPECIFICATION Spec

INVARIANT TypeOK
PROPERTY StopRequestEndsProcess
\* The process ends, or waits in the select for a signal that may never come.
CHECK_DEADLOCK FALSE
