SPECIFICATION MacroSpec
CONSTANTS
  Nil = Nil
  Feeds <- MCFeeds
  Readings <- MCReadings
  MaxDay = 2
  MaxSnapshots = 3
  MaxRegimes = 3
  MaxRuns = 1
INVARIANTS
  ChangeReportsAgree
  DegradedIsToldAlike
PROPERTIES
  EveryDayIsCovered
CHECK_DEADLOCK FALSE
