SPECIFICATION Spec
CONSTANTS
  Writers = {w1, w2}
  MaxAppends = 3
INVARIANTS
  LogVerifies
CHECK_DEADLOCK FALSE
