SPECIFICATION Spec
CONSTANTS
  c1 = c1
  c2 = c2
  c3 = c3
  Calls <- MCCalls
  Directories <- MCDirectories
  Paths <- MCPaths
  Overlaps <- MCOverlaps
  Covers <- MCCovers
  Nobody = Nobody
INVARIANTS
  LeasesAreDisjoint
  WritersAreAlone
  LeasesMatchClaims
PROPERTIES
  StaleDispatchesNothing
  CallsAreAnswered
CHECK_DEADLOCK FALSE
