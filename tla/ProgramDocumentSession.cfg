SPECIFICATION MCSpec
CONSTANTS
  Bodies = {b1, b2}
  Fields = {"title", "icon"}
  Values = {Blank, v1}
  Blank = Blank
  Extensions = {e1, e2}
  Detached = Detached
  Targets = {Null, p1}
  Unloaded = Unloaded
  Versions = {s1, s2}
  NoTicket = NoTicket
  Idle = Idle
  HistoryMax = 2
  MaxRevision = 3
SYMMETRY Symmetry
INVARIANTS
  UndoRespectsDisk
PROPERTIES
  BaselineMovesByReceipt
  ImplementsContract
CHECK_DEADLOCK FALSE
