SPECIFICATION Spec
SYMMETRY Symmetry
CONSTRAINT OneStoreAtATime
CONSTANTS
  Nil = Nil
  Rules <- MCRules
  Regimes <- MCRegimes
  Clock <- MCClock
  EventIds = {e1, e2, e3}
  RawEvents <- MCRawEvents
  SnoozeTimes = {16}
  Indicators = {"10y_yield", "cpi"}
  ListLimit = 2
  MaxRegimes = 3
  MaxChanges = 2
INVARIANTS
  HighIsWithinHalfLag
  NearestIsNamed
  MajorTransitionsAlert
PROPERTIES
  AlertFactsStand
CHECK_DEADLOCK FALSE
