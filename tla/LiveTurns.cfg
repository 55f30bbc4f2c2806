SPECIFICATION TurnSpec
CONSTANTS
  Steps = {s1}
  Texts = {t1, t2}
  AgentText = t1
  Documents <- MCDocuments
  Targets = {p1}
  Unloaded = Unloaded
  Versions = {v1}
  Ops = {o1, o2}
  Calls <- InputCalls
  None = None
  MaxRevision = 0
  MaxSessions = 1
  MaxTurns = 2
  LedgerLimit = 2
  ScopeLimit = 1
  PinLimit = 1
INVARIANTS
  ResultsAreOfTheTurn
PROPERTIES
  ImplementsWriteResults
  ReadsAreAnswered
CHECK_DEADLOCK FALSE
