CONSTANTS
  Loop = loop
  Workers = {w1}
  TTL = 2
  MaxVersion = 2
  MaxFailures = 1
SPECIFICATION FairSpec
INVARIANTS
  NeverReadBackwards
PROPERTIES
  ServedWithinTtl
  StreamCatchesUp
