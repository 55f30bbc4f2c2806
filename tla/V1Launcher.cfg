SPECIFICATION V1Spec
CONSTANTS
  Versions = {v1, v2}
  Calls = {c1, c2, c3}
  MaxFaults = 2
INVARIANTS OneVersionServes HostHasItsLauncher
PROPERTY LaunchIsHonoured
CHECK_DEADLOCK FALSE
