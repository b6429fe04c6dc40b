\* A directory is removed while its machine transitions.
SPECIFICATION FairSpec
CONSTANTS
  p = p
  q = q
  i1 = i1
  i2 = i2
  Path = {p, q}
  Instance = {i1, i2}
  Follows <- Both
  MaxVersion = 1
  Invalid = {}
  MaxEdits = 1
  MaxStarts = 1
  MaxCallers = 1
PROPERTIES
  RemovedMachinesGo
CHECK_DEADLOCK FALSE
