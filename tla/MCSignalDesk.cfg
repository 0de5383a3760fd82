SPECIFICATION DeskSpec
CONSTANTS
  Nil = Nil
  Fast = 2
  Slow = 3
  RsiPeriod = 2
  AtrWindow = 3
  Etfs = {"etf"}
  Prices = {2, 3}
  MaxBars = 6
  Corpora <- MCCorpora
  Regimes <- MCRegimes
  Answers <- MCAnswers
  Histories <- MCHistories
  MinObservations = 2
INVARIANTS
  LiveAndBacktestMeet
  EscalationIsShared
  ScenariosMoveAsNamed
PROPERTIES
  NoLookAhead
CHECK_DEADLOCK FALSE
