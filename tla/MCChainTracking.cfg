SPECIFICATION Spec
CONSTANTS
  Forks = {a}
  MaxHeight = 3
INVARIANT ChainOrderIsAccepted
CHECK_DEADLOCK FALSE
