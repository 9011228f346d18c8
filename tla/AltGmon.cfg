SPECIFICATION Spec
CONSTANTS
  Function = {"f", "g"}
  Caller = {"x", "y"}
  NULL = NULL
  heap_start = 2
  heap_limit = 90
  MCOUNT_SLAB_INCREMENT = 28
  entrySize = 12
  arcSize = 12
  textSize = 80
  MaxCalls = 5
INVARIANTS BlocksApart CallsCounted OneSampler
CHECK_DEADLOCK FALSE
