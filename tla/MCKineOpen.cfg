\* Open against an engine that never answers: all 300 rounds fail.
CONSTANTS
  OpenAttempts = 300

SPECIFICATION Spec

INVARIANT OpenNeverUsesNilDB

\* Open returns: done, canceled and the crash are final states.
CHECK_DEADLOCK FALSE
