CONSTANTS
  n1 = n1
  n2 = n2
  n3 = n3
  n4 = n4
  n5 = n5
  Targets <- MCTargets
  BatchSize = 3
  Sleeps = TRUE
SPECIFICATION FairSpec
CHECK_DEADLOCK FALSE
INVARIANTS
  Listening
  StatsAgree
PROPERTIES
  Returns
