SPECIFICATION AnswersSpec
CONSTANTS
  write = write
  read = read
  turn = turn
  h1 = h1
  h2 = h2
  NoHost = NoHost
  Root = Root
  Calls = {write, read}
  Writes = {write}
  Turns = {turn}
  TurnOf <- MCTurnOf
  Hosts = {h1, h2}
  Identified = {h1, h2}
  MaxTries = 1
  MaxConns = 2
  MaxFaults = 1
PROPERTY CallsAreAnswered
CHECK_DEADLOCK FALSE
