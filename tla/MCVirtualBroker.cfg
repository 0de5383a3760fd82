CONSTANTS
  NoThread = NoThread
  Tickers = {kr, us}
  KRTickers = {kr}
  Quantities = {0, 1, 2}
  Prices = {11490}
  SeedBalance <- MCSeed
  QtyUnit = 1
  Grain = 1
  OrderIds = {1, 2}
  Threads = {t1, t2}
SPECIFICATION FairSpec
INVARIANTS
  CashNeverNegative
  BooksReconcile
  FillsAreAudited
  TransactionsIsolated
  CostWithinFills
PROPERTIES
  LedgerSpec
  CallsReturn
