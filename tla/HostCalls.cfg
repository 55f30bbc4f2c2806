SPECIFICATION MCSpec
CONSTANTS
  write = write
  read = read
  turn = turn
  h1 = h1
  h2 = h2
  NoHost = NoHost
  Root = Root
  Calls = {write, read}
  Writes = {write}
  Turns = {turn}
  TurnOf <- MCTurnOf
  Hosts = {h1, h2}
  Identified = {h1, h2}
  MaxTries = 2
  MaxConns = 3
  MaxFaults = 1
INVARIANTS TurnTalksToOneHost NoConnectionIsLost
SYMMETRY Sym
CHECK_DEADLOCK FALSE
PROPERTIES ImplementsWriteResults
