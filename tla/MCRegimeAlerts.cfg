CONSTANTS
  MacroRegimes = {m1}
  Endpoints = {e1}
  RingMax = 2
  MaxTransitions = 3
  MaxFailures = 1
  MaxRestarts = 1
SPECIFICATION FairSpec
INVARIANTS
  RingHoldsLatest
PROPERTIES
  TransitionsAnnounced
  GoneAreRemoved
