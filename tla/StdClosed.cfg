SPECIFICATION Spec
CONSTANTS
  Transfer = {t1, t2}
  Options <- StdOptions
INVARIANTS
  StandardStreamOpen
CHECK_DEADLOCK FALSE
