\* An operator evicts leaders, somebody calls Stop(), and campaigns are
\* paced by a backoff policy.
SPECIFICATION Spec
CONSTANTS
  m1 = m1
  m2 = m2
  Member = {m1, m2}
  TTL = 3
  CInterval = 2
  MaxDelay = 0
  Backoff <- TwoStepBackoff
  StopCallers = {m1, m2}
  Evictable = TRUE
SYMMETRY Symmetry
CONSTRAINT NotCalm
PROPERTIES
  NoResurrection
