SPECIFICATION Spec
CONSTANTS
  Transfer = {t1, t2}
  Options <- SomeOptions
INVARIANTS
  TypeOK
  HandleComplete
  FreedExactly
PROPERTIES
  StopInterrupts
  StopAllHolds
CHECK_DEADLOCK FALSE
