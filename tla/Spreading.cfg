SPECIFICATION Spec
CONSTANTS
  Transfer = {t1}
  Options <- SpreadingOptions
INVARIANTS
  CreatedCanStart
CHECK_DEADLOCK FALSE
