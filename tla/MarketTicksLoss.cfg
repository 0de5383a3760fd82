CONSTANTS
  Tickers = {aapl, tsla}
  LastDay = 4
  Window = 2
  TickColumns = {"timestamp", "ticker", "open_price", "high_price", "low_price", "close_price", "volume", "source"}
SPECIFICATION Spec
PROPERTY UpsertKeepsDays
