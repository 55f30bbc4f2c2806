SPECIFICATION EditSpec
CONSTANTS
  Steps = {s1}
  Texts = {t1, t2}
  AgentText = t1
  Documents <- MCDocuments
  Targets = {p1}
  Unloaded = Unloaded
  Versions = {v1}
  Ops = {o1, o2}
  Calls <- AllCalls
  None = None
  MaxRevision = 2
  MaxSessions = 2
  MaxTurns = 1
  LedgerLimit = 2
  ScopeLimit = 1
  PinLimit = 1
SYMMETRY Symmetry
INVARIANTS
  ReceiptsAreTrue
PROPERTIES
  RowIsNeverSubstituted
  EditsWhatWasRead
CHECK_DEADLOCK FALSE
