CONSTANTS
  LinesCap = 1
  PipeCap = 2
  BuffMax = 1
  MaxLines <- TwoAndOne
  MaxLong = 1
  MaxFails = 1
  MaxBeats = 1
  AskWhen = {FALSE}
SPECIFICATION SupervisorFairSpec
CHECK_DEADLOCK FALSE
INVARIANTS
  OutputInPlace
PROPERTIES
  ExitIsLast
  StatusAdvances
  Ends
  NotHeldUp
