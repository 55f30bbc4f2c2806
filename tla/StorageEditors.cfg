SPECIFICATION Spec
CONSTANTS
  Editors = {e1, e2}
  Values = {a, b}
  Torn = Torn
  None = None
  Scenarios <- SharedProject
SYMMETRY Symmetry
INVARIANTS
  LeaseHasItsHolder
  BaselineWasStored
PROPERTIES
  ReplacesItsBaseline
  UnsavedIsNeverDropped
CHECK_DEADLOCK FALSE
