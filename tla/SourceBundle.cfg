SPECIFICATION MCSpec
CONSTANTS
  t0 = t0
  t1 = t1
  NoClient = 0
  Clients = {1, 2}
  Texts = {t0, t1}
  Original = t0
  KeepsUnchanged = TRUE
  MaxOps = 4
  MaxHandlers = 2
  MaxEdits = 1
  MaxFaults = 2
INVARIANTS BaselineWasNative UnconfirmedIsNotRepeated NobodyWaitsForGood
PROPERTIES ImplementsWriteResults WritesReplaceWhatTheyRead
CHECK_DEADLOCK FALSE
