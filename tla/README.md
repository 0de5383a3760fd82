# Formal models of Aleph-One (macro-invest-agent-system)

TLA+ modules of the parts of this repository whose correctness depends on the
order in which things happen (the virtual broker's transactions, the caches and
background tasks of the API server, the ingestion and agent runtimes, the browser's
shared event stream) and of the rules it decides by (regimes, signals, engines,
synthesis, attribution, alerts). TLC checks them on small instances, TLAPS proves the
most important results for every value of the constants. All paths below are relative
to the repository root.

`PROJECT.json` lists the components, runs, mutants, the map from definitions to source
lines, findings, hazards and theorems in machine-readable form.

## 1. The system

Aleph-One is a FastAPI server (`src/main.py`) over PostgreSQL/TimescaleDB
(`src/database.py`), with analysis engines (`src/engines.py`), an agent that calls
language models and tools (`src/main.py`, `src/agent/`), pure domain algorithms
(`src/domain/`), an ingestion pipeline (`src/pipelines/`), a second REST API
(`apps/api/`), a Streamlit workbench (`apps/workbench/`) and a Next.js frontend
(`apps/frontend/`).

### Threads of control

- **The event loop** runs every coroutine: request handlers, one SSE generator per
  connected client (a payload each second), four collector loops and broadcast
  tasks. Between two awaits it is alone among coroutines, but not among threads.
- **Worker threads** of the default executor (`asyncio.to_thread`) run every blocking
  call: agent runs with their order tool, the portfolio endpoints, the reset,
  downloads, push-subscription queries. They share module globals with the event loop
  without locks. Cancelling a task does not stop the thread it awaits.
- **PostgreSQL transactions** under READ COMMITTED, one per leased connection
  (`get_connection`); leaving the `with` block commits, an exception rolls back.
- **The secondary API** has an event loop of its own, stores in memory, an hourly
  refresh task; its services do not suspend except where a thread queries the database.
- **The browser**: one handler at a time; one module-level EventSource shared by all
  components.
- The server process may die and start again; only the tables survive.

### Inventory

| Component | State | Operations | What makes it correct | Modules |
|---|---|---|---|---|
| Virtual broker (`src/database.py`) | `virtual_accounts`, `portfolio_holdings`, `virtual_orders`, `audit_log` | order, reset, seeding at start | concurrent orders serialise; cash never negative; books add up; fills audited; no endless wait | `OrderMath`, `PaperLedger`, `VirtualBroker` |
| Portfolio summary (`src/main.py`) | `_PORTFOLIO_SUMMARY_CACHE` | build, forced refresh, drop | what is served is recent and not torn the wrong way; the stream catches up | `PortfolioViews` |
| NAV snapshots | `portfolio_nav_snapshots` | daily snapshot | no snapshot from a failed read | `NavSnapshot` |
| Price state and frames (`src/main.py`) | `_PRICE_STATE`, `_PRICE_HISTORY`, `_DB_PRICE_CACHE` | start-up, payload, tools, invalidation | frames not older than the TTL; starts succeed; payloads catch up | `MarketServer` |
| Regime alerts (`src/main.py`, `src/domain/notifications/service.py`) | `_LAST_NOTIFIED_REGIME`, `_ALERT_RING`, broadcast tasks, `push_subscriptions` | detect, broadcast, subscribe, unsubscribe | ring in order; every transition announced; dead endpoints (only) removed | `RegimeAlerts` |
| Live collector (`src/main.py`) | `_SSE_CONNECTION_COUNT`, `_LIVE_COLLECTOR_TASK`, its threads | connect, disconnect, cycles | exists exactly while clients are connected; cycles go on; outages reported | `LiveCollector` |
| Live upsert (`src/database.py`) | `market_ticks` | fetch, delete window, copy | replaces the last days without losing them; doubled days heal while a fetch covers them | `MarketTicks`, `LiveCollector` |
| Stream hook (`apps/frontend/hooks/useAlephStream.ts`) | `_es`, `_retryTimer`, `_retryCount`, `_lastStatus`, listeners | mount, unmount, frame, error, retry, tab switch | one connection or one timer while mounted, neither after; recovers | `StreamClient` |
| Commands and brief (`src/main.py`) | `_AGENT_EXECUTOR`, `_BRIEF_CACHE` | command routes, agent thread, brief | an answer shows the orders it placed; an old brief does not stay | `CommandDesk` |
| Macro, historical collectors (`src/main.py`, `src/database.py`) | `_MACRO_CACHE`, price histories | merge by source priority | | `SignalDesk`, `MarketServer` (partly) |
| Macro rules (`src/domain/macro`, `quant`) | none (pure) | snapshot states, scores, regime, transition, change report | independent rule lists agree | `RegimeRules` |
| Signal rules (`src/domain/signals`, `src/services/signal_service.py`, DTOs) | none (pure) | signals, conflict, caveats, explanations | | `RegimeSignals` |
| Secondary API (`apps/api`) | regime, snapshot, explanation stores, seeder | seed, refresh, services, routers | every day gets its regime; reports agree | `MacroRegimes` (partly) |
| Events, attribution, alert rules (`src/domain/events`, `attribution`, `alerts`) | event and alert stores | normalise, attribute, evaluate, acknowledge, snooze | the nearest match is named; "high" is earned; major transitions alert; facts stay | `ResearchRules`, `ResearchDesk` |
| Engines (`src/engines.py`) | none (pure) | crosses, volatility, sentiment, persona rows, backtest | live rules and backtest agree, no look-ahead | `Engines` |
| Synthesis, risk, what-if (`src/domain/synthesis`, `risk`, `whatif`, `src/main.py`) | `_MACRO_CACHE`, `_REGIME_CACHE` | payload row, synthesis, scenarios | scenarios move as their names say | `Synthesis`, `SignalDesk` |
| Source adapters, macro service (`src/agent/adapters/sources`) | none | observations to features | every error a missing feature | `MacroFeeds` (partly) |
| Ingestion and feature stores (`src/pipelines/ingestion`, `src/agent/adapters/repositories`) | snapshots, connection | ingest | latest is newest; a lost connection costs one save | `MacroIngestion` (partly) |
| Agent contexts and runtime (`src/agent`) | session contexts, bounded turns | invoke, validate, record, clear | sessions apart; hints hang together | `AgentSessions` |
| Workbench, frontend pages and proxies, core infrastructure, scripts, archive | | presentation, configuration | | not modelled |

### How they interact

The order tool runs on a worker thread, commits in the broker and forces a refresh of
the summary cache that the event loop reads for every payload. Payload building also
detects regime transitions and creates broadcast tasks, and reads prices through the
frame cache that tools read on their threads and the collector drops. Opening the first
stream creates the live collector, closing the last cancels it; its threads write
`market_ticks` beside whatever thread a previous collector has left. The frontend hook
opens and closes those streams. The reset endpoint commits on a worker and drops the
cache on the event loop. In the secondary API the seeder writes the stores every router
reads. The agent runtime reads what the ingestion service has stored and remembers its
answers per session.

Three compositions are modelled as one module each: payload, tools, collector and start
(`MarketServer`); ingestion, adapters and agent (`AgentSessions` over `MacroIngestion` over
`MacroFeeds`); engines, sentiment, synthesis and collectors (`SignalDesk`). Elsewhere a neighbour
appears as its interface: a book is the number of its last commit, a market is what the caches
hold of it.

### What is hard here

Interleavings of transactions and of threads with coroutines; state tested before and
used after an await or another statement; threads that outlive their task; reads that
fail and look like empty tables; commits whose acknowledgement is lost; restarts;
backoff timers against mounts and unmounts; refreshes in flight over midnight; rules
written twice, in two modules, that must agree. The list, each at its line, with the
properties that cover it, is in `PROJECT.json` under `hazards`.

## 2. The modules

### OrderMath, PaperLedger, VirtualBroker

`OrderMath` is the arithmetic of `execute_virtual_order` as operators: fill price with
slippage, notional, commission, what a buy or a sell makes of a holding row, and the
rows an order writes. Money is an integer in units of 1e-4 (NUMERIC(20,4)), fill prices
in 1e-6, quantities in sub-units (`QtyUnit` to a share, `Grain` to a column step; the
runs use whole shares). `Round` rounds ties upwards; Python's `round` on binary floats
rounds ties, and floats near a tie, either way: amounts may differ from the program's by one
unit of 1e-4, and no property depends on the direction. The widths of the NUMERIC
columns are not reached.

`PaperLedger` is the abstract specification: a book of five tables on which an order
fills in one step (`Fill`), a reset restores everything in one step (`Reset`) and a
start seeds the accounts that are missing (`Seed`). Rejected orders change nothing.

`VirtualBroker` is the code. Each thread runs the SQL statements of an order or a reset
one by one (`pc`), takes row locks (`acctLock`, `holdLock`) where a statement takes
them, and keeps what its SELECTs returned (`seenCash`, `seenHold`). The tables hold
committed data; a transaction's writes are applied when it commits, because no other
transaction reads them earlier. `SELECT ... FOR UPDATE` on a holding that does not
exist locks nothing. A reset's UPDATE takes the account rows one by one in any order
(heap order changes with updates), its DELETE takes all holding rows at once.
`FailTx` raises at any statement, `CommitOrder` may succeed with its acknowledgement lost,
`DeadlockAbort` is PostgreSQL's detector, `Crash` and `Startup` end and begin the
process, with an `init_db` that may fail. A rolled-back order has used up its id.

### PortfolioViews, NavSnapshot

A book is the number of its last commit, so a summary is the pair of versions its two
reads saw. `PortfolioViews` follows `_build_portfolio_summary` statement by statement on
the event loop and on workers: the clock reading, the test of the cache, its unpacking,
the two reads (each its own transaction, each may fail and then returns nothing), the
unconditional store. Orders and resets make new versions. Ages saturate at the TTL.
`NavSnapshot` is `record_portfolio_nav` in the same terms, with its holdings-first order.

### MarketServer

`boot` is the position in `_lifespan`: tables and seed, price history, first fetch, price
synchronisation, up. Rows and prices are named by the collection they come from, so "older"
is a comparison of numbers. `Payload` (event loop, once a second) and `AskFrame`/`Query`/`StoreFrame`
(tool threads, three steps because the query runs outside any lock) read through the frame cache;
`FetchThread` commits rows, `InvalidateCache` is the loop dropping the cache when the thread is
back, `CancelCycle` leaves a thread behind. `Shutdown` and `Restart` keep the tables and lose
everything else. A failing call is one of the outcomes of each database step.

### RegimeAlerts

`BuildPayload` compares the live regime with the last one and creates a broadcast;
`StartBroadcast`, `Email`, `ListSubscriptions`, `Push`, `DeleteStale` are the stretches of
`_broadcast_regime_alert` between its awaits. Tasks start in creation order, then
interleave. Subscriptions are a sequence in id order. Database failures are swallowed as in
the code; a restart loses all but the table.

### LiveCollector, MarketTicks

`LiveCollector` has the connection counter, the collector task and the threads it submits
fetches to. Of `market_ticks` it follows one ticker: `table` says how many rows stand of each
day, the trading days pass (`NextDay`), and a fetch covers the last `Window` of them (or, with the source
away, the last day stored). A thread's DELETE sees the rows since the first day fetched that are committed
when it starts (`seen`), waits for rows another transaction is deleting, skips those that are gone by then,
and its COPY adds a row for each day at commit. The rows of a day are counted in the order of their commits,
so that those a DELETE has seen are the oldest: `FinishDelete` lets two DELETEs run side by side only
where they have no row in common. A day that is not fetched any more keeps the rows it has. News, indices
and the sleep are one step, `Rest`. A client is counted from the request to the end of its generator: that the
generator's `finally` runs is an assumption about the server library.
The price cache the loop clears is in `MarketServer`.

`MarketTicks` is one fetch seen from the table: which days of which ticker it downloads,
falls back on or misses, and which rows the shared window deletes. Its constant
`TickColumns` is the table's columns.

### StreamClient

Every handler of `useAlephStream.ts` is one action; rendering and the effect are two.
`Frame` is a payload that is not an error; the server's event named `error` and a broken
connection both end in `OnError`.

### CommandDesk

A command is a coroutine (`route`) that may hand its words to an agent on a worker thread
(`agent`), which may place orders (commits of the book), return or raise; the coroutine then
reads accounts and holdings, each read may fail, and falls back to the scenario whose keywords
match first. The client may leave before the answer. The brief has the cache with its TTL, tested
before the call of the model and stored after it, by two readers at once.

### RegimeRules, RegimeSignals, MacroRegimes

`RegimeRules` are the rules of `src/domain/macro` and `src/domain/quant` as operators over
values in hundredths: the state of each category from the observations, freshness, the five
scores, the regime's label, family and confidence, its warnings, transitions, and the change report
between two regimes. `RegimeSignals` has the map from regimes to signals, the fallback rules,
conflict, and what the pages and explanations say of a regime. `MacroRegimes` puts them in the
stores of the secondary API: start and seeder, hourly refresh with its suspended thread, shutdown,
midnight, the snapshot and regime services, the routers that read or write. What the rules build of a
day's readings has its comparison, its key changes and its transition filled in by the service, as the
code's constructors do; the model names the empty values. At the first seeding
no request is served yet, so the seeder finds an empty store; its early return is modelled and would
be taken by a refresh that did not force.

### Engines, Synthesis, SignalDesk

`Engines` is `src/engines.py` over integer prices with the window lengths as constants: crosses,
RSI with Wilder's smoothing, volatility spike, sentiment from a headline's token weights, the
personas' row, and the backtest with its positions and equity, a recursive function over the bars.
Comparisons are made on cross-multiplied integers, so they are exact. `Synthesis` is the weighing of the four scores, the risk
penalty, and the scenarios and presets. `SignalDesk` lets bars, headlines, regimes, provider answers and
histories arrive in any order and computes every answer from what the caches hold; its `follower`
is an observer that acts on each live cross, so that live signals and backtest can be compared.

### MacroFeeds, MacroIngestion, AgentSessions

`MacroFeeds` has the adapters' reading of a feed (each provider skips, or does not skip, missing
observations), the macro service, comparison and signal engine as functions. `MacroIngestion` is
`IngestionService.ingest`, suspended while its source answers, over the in-memory store or the
one on PostgreSQL, whose single connection the server may drop unnoticed. `AgentSessions` adds the
agent runtime: request, context, hint, tools, validation, recorded turn, with calls of one session
overlapping at the wait, contexts trimmed to `MaxTurns`, and sessions cleared while a call holds theirs.

### ResearchRules, ResearchDesk

`ResearchRules` are the attribution engine with its rule table, the events normaliser and the alert
rules as operators over days; the order of the nearest events is *an* order sorted by day and place
(`InOrder`), which is what a stable sort by day returns. `ResearchDesk` is the event and alert stores with their requests, fed as the
tests feed them: events saved in any order and again, regimes evaluated one after another, alerts
acknowledged and snoozed. `ListLimit` is the `limit` of `list_recent` (50): the list is sorted, newest first, and
then cut, so events announced for later days take places on it. Days stand for datetimes.

### MC modules

Each MC module defines the values of the constants its `.cfg` names, or only says which instance the
`.cfg` describes. `MarketTicks`, used in a single run, carries its `.cfg` itself.

Definitions such as `LockAccountPlainSelect` or `DisconnectKeepsTimer`, each before the
definition it varies, are plausible bugs: `PROJECT.json` pairs each with the property that
TLC finds violated when the bug replaces the original.

## 3. Runs

| Run | Instance | What it shows |
|---|---|---|
| `broker` | 2 threads, 1 KRW and 1 USD ticker, 2 order ids, quantities 0-2 | the locking makes every transaction one step of `PaperLedger` (`LedgerSpec`), cash stays non-negative, books reconcile across resets and restarts, fills stay audited, average costs lie within the fills they come from, the inductive invariant holds, every call returns |
| `views` | event loop, 1 worker, 1 commit, TTL 2, 1 failed read | served rows were current less than a TTL ago (`ServedWithinTtl`), cash is never newer than the holdings beside it, the stream catches up |
| `alerts` | 3 transitions, ring of 2, 1 endpoint, 1 failure, 1 restart | the ring is the latest transitions in order; broadcasts finish; gone endpoints are dropped |
| `collector` | 2 clients, 2 threads, windows of 2 among 3 days | counter and collector follow the clients; cycles never stop; doubled days heal while they are in the window; a database outage is reported |
| `stream` | 2 components, 6 outages | connected or waiting exactly while mounted; always recovers; a stale LIVE ends |
| `server` | 1 tool thread, 1 collection beside the seeded rows, TTL 2, history of 2, 1 failure, 2 starts | a frame served from the cache was the newest less than a TTL ago; every start ends with a server that answers; payloads catch up with the rows |
| `command` | 1 command, 2 readers, 2 markets, 1 commit, 1 change, 1 failure | an agent's answer holds the orders it placed; slow model calls do not keep an old brief |
| `macro` | 2 days, 4 feeds, 2 readings, 3 snapshots, 3 regimes, 1 signals run | the stored transition and the report computed afresh agree; two lists of what is degraded agree; every day gets a regime |
| `desk` | windows of 2 and 3, 2 prices, 6 bars | no look-ahead; live crosses and backtest hold the same positions; the regime does not depend on a client's persona; scenarios move the conviction as named |
| `agent` | 2 calls, 2 ingestions, 1 session, 2 countries, 3 runs, 1 drop | the latest snapshot is the newest; a drop costs one save; sessions stay apart; the active parameters are those of the last turn told |
| `research` | 3 days, 3 events of 4 kinds on a list of 2, 3 regimes, 5 rules, 2 changes | "high" is within half the lag of the named event's own rule; no stored event that matches as well is nearer than the one named; major transitions alert; alerts keep their facts |
| `ticks_upsert` | 2 tickers, 4 days, `source` present | **violated**: stored days are lost |

### Properties that do not hold

Ten statements of the repository's own comments, docstrings and docs are contradicted by the code;
`findings` in `PROJECT.json` quotes each. `ticks_upsert` is a run of its own. The others are stated in
their modules under the name given here, and TLC shows each with the instance in the last column (a
`.cfg` naming that one property).

| Property | What happens | Instance |
|---|---|---|
| `PortfolioViews!NextReadReflectsOrder` | a build that read before the order stores after the forced refresh | as `views` |
| `NavSnapshot!NoSnapshotFromFailedRead` | a snapshot is written from a failed holdings read | `MaxVersion = 2`, `MaxFailures = 1` |
| `RegimeAlerts!OnlyGoneAreDeleted` | endpoints that are not gone are deleted | 2 endpoints, ring and transitions 1, no failure, no restart |
| `LiveCollector!NoDoubledDays` | the threads of two collectors double the days; once they have left the window no fetch repairs them | 1 client, 2 threads, window as `collector` |
| `MarketTicks!FetchedRowsAreStored` | without the column `source` every live upsert raises | `TickColumns` as in the DDL |
| `MacroRegimes!RefreshIsServed` | readers are served the day's first regime, not its latest | `Feeds = {}`, 1 day, 2 snapshots, 2 regimes, no run |
| `MarketServer!EngineSeesFreshest` | the price appended as the freshest is older than the frame | as `server`, no failure |
| `MarketServer!DemoIsMarked` | a backtest over seeded rows is not marked as a demo | as `server`, no failure |
| `ResearchDesk!HighInAnyOrder` | a nearest event is judged by another event's rule | as `research` |

### Bounds and why they are enough

- *Threads and calls*: conflicts in the broker, the caches, the upsert and the contexts are between two
  parties at a time; the third waits like the second. Where there is a theorem, it removes the
  bound.
- *Order ids*: two fills are enough for a first buy, a blend, a partial
  and a full sell, and for an order after a rollback. When ids run out the INSERT raises
  (`IdsExhausted`), as a SERIAL column does; nothing else depends on it.
- *Seeds and prices*: KRW pays for two shares and not three, USD for one, so the
  affordability test is contended; 1.1490 gives a fill price that rounding cuts.
- *`MaxVersion`, `MaxFailures`, `MaxTransitions`, `MaxRestarts`, `MaxOutages`, `MaxRows`, `MaxStarts`,
  `MaxChanges`, `MaxDrops`, `MaxRuns`, `MaxTime`, `MaxDay`*: each bounds an environment action in its guard. One
  commit overtaking a build, one failed read, three broadcasts on a ring of two, six outages (one more
  than the backoff counter's cap), a collection that overtakes a query, a midnight, two ingestions that
  overlap in either order.
- *`MaxSnapshots`, `MaxRegimes`*: three, so that a day can have two regimes and the next day one;
  `EveryDayIsCovered` excuses a full store and nothing else.
- *`Window`, `LastDay`, `MaxCopies`* (`collector`): a window of two among three days moves once, so that a day leaves it and
  another stays; two threads never leave more than two rows of a day (with `MaxCopies = 3` TLC finds the same states).
- *`ListLimit`* (`research`): two places for three events, so that a list is cut, before and behind a match. The events
  and the alerts have only the clock in common, and `OneStoreAtATime` keeps the run to behaviours that fill one
  store at a time; three regimes let an alert be acknowledged or snoozed before its rule fires again.
- *Windows of 2 and 3 over two prices, six bars*: all 2^6 series; enough for a cross each way, a tie of the averages,
  and a second entry. The defaults (5 and 20) are values of the same constants.
- *Readings, feeds, events*: at and beside the thresholds the rules test (half the lag, the lag, the
  VIX bands, late and fresh, supported and not).
- *Symmetry* (`agent`, `research`): permutations of calls, jobs, countries and event ids, in runs without
  liveness; no definition orders them.
- *Deadlock checking* is on except in `macro`, `desk`, `server`, `agent`, `research` and `command`, whose
  environments are bounded: once every change allowed has happened they may stop.

### Fairness

- *broker*: a thread that can run its next statement does; a statement that may wait for a row
  lock gets strong fairness, since PostgreSQL grants a lock to its waiters in order of
  arrival. `FailTx`, `Crash` and `Startup` are not fair. The lock circle
  between two resets is broken by the deadlock detector.
- *views*: started builds go on, seconds pass, and a connected stream keeps building payloads.
  Strong fairness of `Tick` and the stream's start: both recur, whatever the order of steps
  inside a second. No order is ever assumed.
- *alerts*: the event loop runs each task; every await has a time-out (10 s HTTP clients) or is
  a database call.
- *collector*: threads run, the task is scheduled, the rest of a cycle ends. Clients, days and
  services are not fair.
- *stream*: events queued in the browser are delivered and timers fire; a component mounted and
  unmounted at once, for ever, may keep a connection from ever delivering, hence
  strong fairness for frames and timers. Users and servers are not fair.
- *server*: `_lifespan` runs through (each step catches its exceptions) and a stopped server is started
  again within its bound; threads finish; strong fairness of `Second` and `Payload`, which
  recur while a client is connected. Nobody has to run a tool, start a collection or stop the server.
- *command*: a command once received goes on, a call of the model ends (the client libraries have time-outs of
  their own; `main.py` sets none), readers ask again (the page
  polls), seconds pass. Nobody has to send a command.
- *macro*: the sleeping refresh wakes, and the thread's query, which has a connect time-out, answers.
  Midnight, shutdown and requests are not fair.

## 4. Proofs

TLAPS checks eight modules of proofs: `FoldLemmas`, which the others share, and one module for every group of
components that meet. Every invariant and every action property that a run checks is the conclusion of a
theorem; `PROJECT.json` lists them under `theorems`. What the theorems assume of the constants is named in the
modules that declare them, and every run evaluates it:

- bounds are naturals (TTLs, ring, history and context sizes positive; `MaxDayAssumption`, `TurnsAssumption`, `WindowAssumption`), and
  the set of clients is finite;
- special values (`NoThread`, `NoRegime`, `Nil`) are not among the ordinary ones (`NilAssumption`, `AbsentAssumption`);
- quantities, prices and ids are integers, seed balances naturals; a bar's prices and those of the histories are
  positive (`PricesAssumption`, `HistoriesAssumption`);
- the windows of the engines are positive, the fast one at least 2 and shorter than the slow one (`WindowsAssumption`);
- rules, caveats, regimes and raw events have the fields the code's dataclasses declare (`ResearchRules`,
  `ResearchDesk`, `CaveatsAssumption`, `RegimesAssumption`).

**Induction over data** (`FoldLemmas`). The library's induction theorems take an operator, which the provers cannot
instantiate. In its place the proofs take a least counterexample: of a set of naturals (`LeastNat`), or of a family of subsets
of a finite set (`LeastSubset`), both from the library's well-founded orders. From these follow that the folds of the
community modules over a finite set are sums (`SumStep`, `SumInsert`, `SumAgrees`), that finite sets of integers have a least
and a greatest member, and, further on, what the backtest's recursive curve holds at each bar.

**Broker** (`VirtualBrokerProofs`). `CashNeverNegative` alone is not inductive: a commit subtracts from
the balance in the table an amount that was compared with the balance *read*. The invariant that
carries the argument is `TransactionsIsolated`:

1. `AccountsLocked`: an order from its first read to its commit, and a reset that has
   finished its UPDATE, own the account row(s) they rely on, and only existing rows are locked;
2. `SnapshotsCurrent`: hence what they read is still what the tables hold, an order at its
   commit is affordable *now*, and the rows a reset is about to delete are all there are;
3. `AccountLockCoversHolding`: holding rows are locked only under their account's lock;
4. `IdsUnique`: ids in the audit trail and in open transactions differ and lie below the
   sequence;
5. `Bookkeeping`: no open transaction while the process is down, only well-formed orders,
   missing rows are empty, held tickers have an account;
6. `TypeOK`, `CashNeverNegative`, `FillsAreAudited`.

One lemma per action shows that it keeps the invariant (`StepIsolated` combines them), over
arithmetic lemmas: rounding stays natural, the commission does not exceed the notional, a
filled order leaves well-typed rows and a covered balance. From `Isolation` follow
`TypeCorrect`, `NeverOverdrawn`, `LockHierarchy`, `AuditComplete`, and, with
`SnapshotsCurrent` turning the values read into the values stored, `BrokerImplementsLedger`:
every step of the broker is a `Fill`, a `Reset`, a `Seed` or a stutter of the paper ledger.

`OnlyCrossedResetsWait` is the safety half of `CallsReturn`, for any number of threads: a circle of waiting transactions always
contains two resets that hold each other's next account row (`OnlyResetsDeadlock`, which no run lists; TLC finds it true on the
broker's instance with three threads, without fairness). It adds `LocksInTurn` to the invariant: who has
a row is past the statement that locks it. Then nobody waits for a holding row, an order waits only while it has none, and with
two account rows the resets of a circle are crossed.

The books are proved on the ledger's steps (`StepRefines`), where a fill is one step:

- `CashAlwaysReconciles`: each account's balance is its seed plus the flows of its audit trail, for any
  number of fills. A fill adds one row with a fresh id to a finite trail, and its flow to the sum; a reset
  empties both.
- `BooksAlwaysReconcile`: with the shares, `BooksReconcile`. Its hypothesis `ColumnsAreExact` says that a quantity a caller asks
  for is one the NUMERIC(20,6) columns keep: whole shares, as in every run, are. `execute_virtual_order` checks only that the
  quantity is positive, so a caller may also ask for a fraction the columns round; then an order row keeps the rounded quantity, a
  sell may leave a row of no shares, and the theorem says nothing (the hazard at `database.py:1702`). The cash needs no hypothesis.
- `RowsHoldShares`, also under `ColumnsAreExact`: a row in the table has a positive number of shares, since a full sell deletes it.
- `CostStaysWithinFills`, under `WholeShares` (every quantity asked for is a whole number of shares): the average cost of a holding
  lies between its cheapest and its dearest BUY since the last reset, up to the rounding of the column: a blend lies between the
  cost before it and the price of the fill.

**Clients** (`ClientProofs`). *Streams*: for any finite set of clients and any threads, the counter counts
the open streams and the collector exists exactly while one is open; the induction carries only that open
streams are clients and the collector is in one of its four states. `CollectorTypes` is the type invariant of the module together with
`SeenStands`: of no day does a DELETE that runs hold more rows than stand. A commit takes the rows it deleted out of the table
and out of what every other thread has seen (`CommitStep`), or the table would count below zero. On the page, `ConnectedOrWaiting` is inductive
together with `PageTypeOK`: a handler that closes the connection either schedules the timer or has just lost the
last listener. *Ingestion*: saved snapshots ascend in time because each is dated when it is appended, although runs
overlap; so the last appended is one of the newest, whichever store is asked (`LatestStays`). `DropsCostOneSave` carries that
a drop that is still unnoticed has cost no save yet: the one save it costs closes the connection. *Sessions*
(`SessionsInv`): every recorded turn, and every turn a call was told of, is of a call made in that session, and the active
country of a context is that of its last turn's request; from it `SessionsStayApart` and `HintsAreOfTheLatest`, also for calls that overlap
in one session and for a session cleared under them.

**Summaries** (`PortfolioViewsProofs`). A timestamp is taken before the reads it dates, so the invariant
speaks of *rows young enough for a timestamp*: whatever an actor has read, or the cache holds, was
committed at some time within the age of the timestamp stored with it (`Young`). A store by a
build that was overtaken brings its own, older timestamp along; that is why age never lies. With
"accounts are not later than holdings" for every actor and the cache this is inductive, and yields
`SummariesReadForwards` and, with the expiry test, `CacheServesYoungRows`.

**Frames** (`MarketServerProofs`). The same argument over one read (`Recent`), with the additional fact that a
thread without a query in flight holds no frame; `ServesRecentFrames` is an action property: a step that
uses a cached frame finds it fresh, hence superseded less than TTL ago. `ServerTypes` is the type invariant of the whole module.

**Regimes** (`RegimeProofs`). *Alert ring*: tasks overtake each other after their first step but start in
order, so the state is counted by two numbers, the broadcasts created and those started (`Counted`): the
ring is determined by the second, the chain of transitions by the first. `RingIsLatest` follows
for every ring size. *Macro stores*: the transition kept with a regime was computed when it was saved, the change report
is computed when it is asked for, and other days may have been saved between. The invariant says that every stored
transition is what `RegimeTransition` gives against the latest regime, among those stored before it, of a day before the one asked.
A regime saved afterwards for a later day changes no such answer (`LaterDaysDoNotCount`); one filled in for an earlier day does, and the
property excepts it. What remains of `ReportsAgree` is a lemma about the two rule lists on one pair of regimes. `DegradedIsTold` compares the signal service's
list with the caveats for every regime; `StoresCorrect` is the type invariant.

**Desk** (`DeskProofs`). *Commands*: an agent's last commit is not later than the book when its thread returns, and the
coroutine reads only then; so rows read are missing or hold the orders. *Backtest*: by induction over the bars,
the position is long exactly while the fast average is above and then there was one more entry than exits
(`CrossesAlternate`); a bar's averages read no later bar, so curves of frames with a common beginning agree there
(`CurvesAgree`), which is `PointsStayDrawn`. `CrossesMeet` needs of the follower only which side of zero the spread is on
(`FollowerInv`). *Rows*: the engines' switch and spike are copied to a row before the persona's signal (`RowsTell`). *Scenarios*: of
the inputs of a synthesis two are never placeholders, so there is always a conviction (`InformedConviction`), and
it is monotone in the two parts of the penalty; the shocks take the largest part there is, the soft landing none. That the risk read from
a history is a number at all rests on finite sets having extremes: a worst day counts among the worst, a peak is a price.

**Research** (`ResearchDeskProofs`). For any rules, events and clocks. Alerts keep their facts because the store
replaces only the status fields (`FactsAreKept`). `MajorTransitionsStayAlerted` carries that each regime evaluated has
left the alerts of the major transition into it, and that the store keeps every alert. `HighIsEarned` and
`NearestStoredIsNamed` are about the attribution of any list of events, newest first: the event named is the first
with the smallest lag among those past, and "high" needs half of its own rule's lag. The list is the beginning of the
sorted store (`RecentIsSorted`), so an event cut off is no newer than the last one left (`Candidates`), hence no
nearer than any past event on the list: what the limit and the events yet to come take away is never better than what
they leave. They can take everything away: with as many later events as the list has places, a past event that matches
is not seen, and the change goes unattributed or to a weaker match. TLC shows that; it is noted with the hazard and
contradicts no statement of the repository. That a sorted order exists for every list (`OrderExists`), so that the
verdicts are not vacuous, is an induction over the number of events.

**Only model-checked.** Liveness under fairness is beyond the prover: `CallsReturn`, `StreamCatchesUp`,
`TransitionsAnnounced`, `GoneAreRemoved`, `CyclesGoOn`, `DuplicatesHeal`, `OutageReported`, `StreamRecovers`, `StaleLiveEnds`,
`EveryDayIsCovered`, `ServerStarts`, `FramesCatchUp`, `BriefCatchesUp`. Of the pure rules, what the proofs do not
use is only exercised by the runs: RSI, volatility and sentiment figures, the five scores, the adapters' reading of a feed.

## 5. What is left out

*Of the modelled parts*: amounts in `PortfolioViews` and `NavSnapshot`; message texts, encryption, VAPID;
retry delays and jitter; Milvus alerts after an upsert; NAV history queries; the statement timeouts
of the pool other than as failures; the process-wide pool itself; what a browser is told when
its subscription could not be stored; quantities below one column step (see the hazard at
`if remaining <= 0` in `execute_virtual_order`): `OrderMath` has the units for it, no run uses them.
`MarketServer` follows one ticker. `MacroIngestion` does not tell raw, normalised and run records from the
snapshot they are saved with. `LiveCollector` lets all sources fail
or answer at once; one ticker failing beside others is `MarketTicks`. The filters of `list_recent`; the letter case and blanks of a source's
name. Regime, signal and alert wording; decimal ties of `round` on scores.

*Not modelled*: the fund collector; `multi_source_ingest`; `event_impact_adapter` and the event quality
report; the stream, sessions, fundamentals and scenarios routers; prompts and the model's choice of
tools (it may do anything); HTTP and its retries in the source adapters; the workbench, the
frontend pages and proxies, settings, metrics, tracing and logging, scripts, deployment, archive:
presentation or infrastructure without a protocol of their own.

## 6. Plan

Done: the broker with its refinement; summaries, snapshots, alerts, collector, upsert, stream hook; the market
server's start and frames; commands and brief; macro rules, regimes, signals and the secondary API's
stores; engines, synthesis, scenarios; feeds, ingestion, agent sessions; attribution, events, alert rules; a
theorem for every safety and action property of a passing run, in eight modules of proofs.

Next:

1. The type invariant of `RegimeAlerts` (its subscription lists are filtered with `SelectSeq`, of which the provers know
   nothing).
2. Abstract specifications for the caches (a register that answers with a value of the last TTL) and the
   refinements that `CacheServesYoungRows` and `ServesRecentFrames` amount to.
3. Bounds of the rule arithmetic: momentum, scores and confidences stay in their ranges for all inputs.
4. `multi_source_ingest` and the remaining routers.
