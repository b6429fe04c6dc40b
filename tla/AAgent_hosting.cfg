\* Machines are added, changed and removed while they transition.
SPECIFICATION FairSpec
CONSTANTS
  p = p
  q = q
  i1 = i1
  i2 = i2
  Path = {p}
  Instance = {i1, i2}
  Follows <- Self
  MaxVersion = 3
  Invalid = {3}
  MaxEdits = 1
  MaxStarts = 2
  MaxCallers = 1
CHECK_DEADLOCK FALSE
INVARIANTS
  OnePerPath
  SurvivorsWereRestarted
PROPERTIES
  MutexesComeFree
  DiskIsRun
