CONSTANTS
  Hooks = {h1, h2}
  MaxOutages = 6
SPECIFICATION FairPageSpec
INVARIANTS
  ConnectedOrWaiting
PROPERTIES
  StreamRecovers
  StaleLiveEnds
