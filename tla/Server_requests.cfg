CONSTANTS
  r1 = r1
  r2 = r2
  Req <- MCReq
  InCap = 1
  ReqCap = 1
  ReplyCap = 1
SPECIFICATION FairSpec
CHECK_DEADLOCK FALSE
INVARIANTS
  CountedExactly
  OneReply
PROPERTIES
  NothingAfterStop
  Answered
  StopEnds
