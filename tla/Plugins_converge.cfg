\* Two plugins in two versions, changed or dropped once, and one fault.
CONSTANTS
  p = p
  q = q
  Plugin = {p, q}
  Newest = 2
  MaxUpdates = 2
  MaxFaults = 1
SPECIFICATION PluginsFairSpec
INVARIANT
  ManagedOrForgotten
PROPERTIES
  DeclaredIsRun
  PurgedUnlessForgotten
