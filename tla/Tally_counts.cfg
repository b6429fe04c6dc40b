\* Servers come and go, events are lost, leadership changes.
SPECIFICATION Spec
CONSTANTS
  h1 = h1
  h2 = h2
  Host = {h1, h2}
  v1 = v1
  v2 = v2
  Version = {v1, v2}
  AliveInterval = 3
  Expire = 8
  MaxChanges = 3
  MaxFaults = 2
  MaxFlips = 1
SYMMETRY Symmetry
INVARIANTS
  NetTally
  TallySettles
PROPERTIES
  OneLossIsTolerated
