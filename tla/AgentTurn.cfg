SPECIFICATION Spec
INVARIANTS
  ReleasedOnce
  RuntimeOutlivesLoop
PROPERTIES
  ImplementsLifetime
  CompletionStands
  CancelledTurnEnds
CHECK_DEADLOCK FALSE
