\* Every statement of every Generic method under the SQLite parameter
\* styles, and the name ranges of every ranged read.
CONSTANTS
  ParamStyles <- MCSqliteStyles
  Calls <- MCAllCalls
  NULL = NULL

SPECIFICATION Spec

INVARIANT ParamsBindArgs
INVARIANT RangeSelectsRequestedKeys
