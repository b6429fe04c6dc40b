\* Two reliable messages and an unreliable one, and a crash or a failing disk.
SPECIFICATION FairSpec
CONSTANTS
  a = a
  b = b
  c = c
  Msg = {a, b, c}
  Reliable = {a, b}
  Signed = {b}
  Submitters = 2
  SpoolMax = 0
  MaxTries = 2
  MaxFaults = 1
INVARIANTS
  NothingLost
  AttemptsBounded
  OnlyRetriesAreOvertaken
  SpoolBounded
PROPERTIES
  SpoolDrains
