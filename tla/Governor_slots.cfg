\* Two workers, one of which leaves its message behind while the other can be
\* interrupted, and a limit that changes.
SPECIFICATION FairSpec
CONSTANTS
  w1 = w1
  w2 = w2
  s1 = s1
  s2 = s2
  s3 = s3
  s4 = s4
  None = None
  Worker = {w1, w2}
  Limits = {1, 2}
  NoLeave = {w2}
  CLI = {w1}
  Seq = {s1, s2, s3, s4}
INVARIANTS
  NoHoarding
  SlotsAreOwned
PROPERTIES
  ImplementsSemaphore
  SomebodyGetsIn
