\* Faults of every kind, no operator and nobody calling Stop(): any of them
\* may happen until none does any more.
SPECIFICATION FairSpec
CONSTANTS
  m1 = m1
  m2 = m2
  Member = {m1, m2}
  TTL = 4
  CInterval = 3
  MaxDelay = 1
  Backoff <- NoBackoff
  StopCallers = {}
  Evictable = FALSE
INVARIANTS
  MutualExclusion
  StandsDownInTime
  IndInv
PROPERTIES
  LeadershipSettles
