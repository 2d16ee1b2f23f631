\* Up to five calls of RegisterCleanup with three functions: an empty list, one
\* without a node, and every longer one.
SPECIFICATION Spec
CONSTANTS
  Functions = {f, g, h}
  MaxCleanups = 5
  NULL = NULL
INVARIANTS TypeOK RunsInOrder NothingLeft
CHECK_DEADLOCK FALSE
