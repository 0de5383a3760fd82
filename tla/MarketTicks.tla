---------------------------- MODULE MarketTicks -----------------------------
(***************************************************************************)
(* What one call of fetch_live_market_data does to the rows of             *)
(* market_ticks: it downloads the last trading days of every ticker, falls *)
(* back to the ticker's last stored row when the source has nothing, and   *)
(* replaces everything stored since the first day it got.  The table has   *)
(* the columns its DDL gives it; a statement that names another one fails. *)
(***************************************************************************)
EXTENDS Integers, FiniteSets, FiniteSetsExt

CONSTANTS Tickers,     \* LIVE_TICKERS
          LastDay,     \* bound: days modelled
          Window,      \* days a download covers (period "5d")
          TickColumns  \* columns of market_ticks

Days == 1 .. LastDay
Rows == Tickers \X Days

\* The columns of _DDL_MARKET_TICKS and those the COPY and the fallback name.
DDLColumns == {"timestamp", "ticker", "open_price", "high_price", "low_price",
               "close_price", "volume"}
CopyColumns == DDLColumns \cup {"source"}

VARIABLES today, table, outcome

vars == <<today, table, outcome>>

TypeOK ==
  /\ today \in Days
  /\ table \subseteq Rows
  /\ outcome \in {"none", "nothing", "stored", "raised"}

\* seed_mock_data has filled the days so far.
Init ==
  /\ today = Window
  /\ table = Tickers \X (1 .. Window)
  /\ outcome = "none"

\* _fetch_latest_close_from_db.
LatestRow(t) ==
  IF CopyColumns \subseteq TickColumns
  THEN {r \in table : r[1] = t /\ \A s \in table : s[1] = t => s[2] <= r[2]}
  ELSE {}

\* What _fetch_ticker_ohlcv, retried, may return: the window; the last stored row
\* if the source has none; nothing if every attempt raises.
Fetched(t) ==
  {{t} \X {d \in Days : today - Window < d /\ d <= today}, LatestRow(t), {}}

\* fetch_live_market_data, the database being up.
FetchLiveMarketData ==
  \E fetch \in [Tickers -> UNION {Fetched(t) : t \in Tickers}] :
    LET rows == UNION {fetch[t] : t \in Tickers}
        minDay == Min({r[2] : r \in rows})
        replaced == {r \in table : r[2] >= minDay /\ \E s \in rows : s[1] = r[1]}
    IN  /\ \A t \in Tickers : fetch[t] \in Fetched(t)
        /\ IF rows = {}
           THEN outcome' = "nothing" /\ UNCHANGED table
           ELSE IF CopyColumns \subseteq TickColumns
           THEN outcome' = "stored" /\ table' = (table \ replaced) \cup rows
           ELSE outcome' = "raised" /\ UNCHANGED table
        /\ UNCHANGED today

NextDay ==
  /\ today < LastDay /\ today' = today + 1
  /\ UNCHANGED <<table, outcome>>

Next == FetchLiveMarketData \/ NextDay

Spec == Init /\ [][Next]_vars

---------------------------------------------------------------------------
(* Properties.                                                             *)

\* "Fetch latest OHLCV ... and upsert into market_ticks" (docstring of
\* fetch_live_market_data): an upsert loses no day already stored.
UpsertKeepsDays == [][table \subseteq table']_vars

\* "Fetch real OHLCV on startup so the SSE stream never shows stale GBM prices"
\* (_lifespan): rows fetched with the database up are stored.
FetchedRowsAreStored == outcome # "raised"
=============================================================================
