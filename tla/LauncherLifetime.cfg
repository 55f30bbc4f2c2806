SPECIFICATION Spec
CONSTANT MaxAttempts = 3
INVARIANTS
  NothingOutlivesStop
PROPERTIES
  ImplementsLifetime
  StopCompletes
CHECK_DEADLOCK FALSE
