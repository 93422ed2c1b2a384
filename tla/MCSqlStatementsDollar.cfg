\* Reads with a limit and tryCompact under the numbered $N parameter style.
CONSTANTS
  ParamStyles <- MCDollarStyle
  Calls <- MCDollarCalls
  NULL = NULL

SPECIFICATION Spec

INVARIANT ParamsBindArgs
