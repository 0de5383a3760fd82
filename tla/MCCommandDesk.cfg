SPECIFICATION FairSpec
CONSTANTS
  Nil = Nil
  Commands = {c1}
  Queries <- QueriesDef
  Readers = {r1, r2}
  Markets <- MarketsDef
  BriefTTL = 1
  MaxVersion = 2
  MaxChanges = 1
  MaxFailures = 1
INVARIANTS
  AnswerHoldsItsOrders
PROPERTIES
  BriefCatchesUp
CHECK_DEADLOCK FALSE
