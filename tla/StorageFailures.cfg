SPECIFICATION Spec
CONSTANTS
  Editors = {e1}
  Values = {a, b}
  Torn = Torn
  None = None
  Scenarios <- FailingServer
PROPERTIES
  ReplacesItsBaseline
  SavesAreAnswered
CHECK_DEADLOCK FALSE
