SPECIFICATION FairSpec
CONSTANTS
  Nil = Nil
  Agents = {a1}
  TTL = 2
  HistoryLen = 2
  MaxRows = 1
  MaxFailures = 1
  MaxStarts = 2
PROPERTIES
  FrameWithinTtl
  ServerStarts
  FramesCatchUp
CHECK_DEADLOCK FALSE
