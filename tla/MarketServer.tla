----------------------------- MODULE MarketServer -----------------------------
(***************************************************************************)
(* src/main.py: the server's start, its price state and the frames of      *)
(* prices it computes on.  The event loop builds a payload every second    *)
(* and the model's tools run on threads; both read market_ticks through    *)
(* _DB_PRICE_CACHE.  The collector's thread commits rows, and the loop     *)
(* drops the cache when the thread is back.                                *)
(*                                                                         *)
(* Rows and prices stand for the collection they come from: Seeded, the    *)
(* rows of seed_mock_data, then one number per collection; Synthetic is a  *)
(* price of _init_price_history.  A frame too short for its user counts as *)
(* no frame, Nil.  Ages are in seconds and saturate at the TTL.            *)
(***************************************************************************)
EXTENDS Integers, Sequences, SequencesExt

CONSTANTS Agents,        \* threads that run the model's tools
          TTL,           \* _DB_CACHE_TTL
          HistoryLen,    \* _HISTORY_LEN
          MaxRows,       \* bound: collections
          MaxFailures,   \* bound: database calls that fail
          MaxStarts,     \* bound: starts of the server
          Nil

ASSUME BoundAssumption == /\ TTL \in Nat \ {0} /\ MaxRows \in Nat \ {0}
                          /\ HistoryLen \in Nat \ {0} /\ MaxFailures \in Nat /\ MaxStarts \in Nat \ {0}
ASSUME NilAssumption == Nil \notin 0..MaxRows

VARIABLES boot,       \* how far _lifespan is: "create", "history", "fetch", "sync", "up", "down"
          ticks,      \* newest rows of market_ticks
          gone,       \* rows -> how long ago newer ones were committed
          archive,    \* historical_prices holds rows
          price,      \* _PRICE_STATE
          buffer,     \* _PRICE_HISTORY
          cache,      \* _DB_PRICE_CACHE
          seen,       \* the last payload's prices
          collector,  \* "asleep", "fetching", "committed", "orphaned"
          agent,      \* what each tool thread is doing
          report,     \* the last backtest of each thread
          failures, starts

loop == <<boot, price, buffer, seen>>
threads == <<collector, agent, report>>
vars == <<loop, ticks, gone, archive, cache, threads, failures, starts>>

Seeded == 0
Synthetic == -1
Archive == -2        \* historical_prices, as the source of a backtest
Rows == Seeded..MaxRows
Ages == 0..TTL
Older(s) == IF s < TTL THEN s + 1 ELSE s

NoCache == [set |-> FALSE, frame |-> Nil, age |-> 0]
Idle == [pc |-> "idle", tool |-> "none", frame |-> Nil, age |-> 0]
NoReport == [source |-> Nil, demo |-> FALSE]
Unseen == [frame |-> Nil, live |-> Synthetic]

TypeOK ==
  /\ boot \in {"create", "history", "fetch", "sync", "up", "down"}
  /\ ticks \in Rows \cup {Nil} /\ gone \in [Rows -> Ages] /\ archive \in BOOLEAN
  /\ price \in Rows \cup {Synthetic}
  /\ buffer \in Seq(Rows \cup {Synthetic}) /\ Len(buffer) <= HistoryLen
  /\ cache \in [set : BOOLEAN, frame : Rows \cup {Nil}, age : Ages]
  /\ seen \in [frame : Rows \cup {Nil}, live : Rows \cup {Synthetic}]
  /\ collector \in {"asleep", "fetching", "committed", "orphaned"}
  /\ agent \in [Agents -> [pc : {"idle", "query", "store"}, tool : {"none", "quant", "backtest"},
                           frame : Rows \cup {Nil}, age : Ages]]
  /\ failures \in 0..MaxFailures /\ starts \in 1..MaxStarts

Init ==
  /\ boot = "create" /\ ticks = Nil /\ gone = [v \in Rows |-> 0] /\ archive = FALSE
  /\ price = Synthetic /\ buffer = <<>> /\ cache = NoCache /\ seen = Unseen
  /\ collector = "asleep" /\ agent = [a \in Agents |-> Idle]
  /\ report = [a \in Agents |-> NoReport]
  /\ failures = 0 /\ starts = 1

Fails == failures < MaxFailures /\ failures' = failures + 1

\* a database read: the newest rows, or None when it fails
Reading(frame) == \/ frame = ticks /\ UNCHANGED failures
                  \/ frame = Nil /\ Fails

-----------------------------------------------------------------------------
(* _lifespan *)

\* init_db and seed_mock_data: when the first fails the second is skipped
CreateAndSeed ==
  /\ boot = "create" /\ boot' = "history"
  /\ \/ ticks' = (IF ticks = Nil THEN Seeded ELSE ticks) /\ UNCHANGED failures
     \/ UNCHANGED ticks /\ Fails
  /\ UNCHANGED <<gone, archive, price, buffer, cache, seen, threads, starts>>

InitPriceHistory ==
  /\ boot = "history" /\ boot' = "fetch"
  /\ price' = Synthetic /\ buffer' = <<Synthetic>>
  /\ UNCHANGED <<ticks, gone, archive, cache, seen, threads, failures, starts>>

NewRows == ticks' = IF ticks = Nil THEN Seeded + 1 ELSE ticks + 1

\* a start that a failing download ends
FetchAtStartUncaught ==
  /\ boot = "fetch"
  /\ \/ boot' = "sync" /\ ticks # MaxRows /\ NewRows /\ UNCHANGED failures
     \/ boot' = "sync" /\ UNCHANGED <<ticks, failures>>
     \/ boot' = "down" /\ UNCHANGED ticks /\ Fails
  /\ UNCHANGED <<gone, archive, price, buffer, cache, seen, threads, starts>>

\* fetch_live_market_data commits rows, finds none to download (which is no
\* error), or raises: then nothing is synchronised
FetchAtStart ==
  /\ boot = "fetch"
  /\ \/ boot' = "sync" /\ ticks # MaxRows /\ NewRows /\ UNCHANGED failures
     \/ boot' = "sync" /\ UNCHANGED <<ticks, failures>>
     \/ boot' = "up" /\ UNCHANGED ticks /\ Fails
  /\ UNCHANGED <<gone, archive, price, buffer, cache, seen, threads, starts>>

\* _sync_price_state_from_db: get_latest_prices answers {} when it fails
SyncPriceState ==
  /\ boot = "sync" /\ boot' = "up"
  /\ \E latest \in Rows \cup {Nil} :
       /\ Reading(latest)
       /\ price' = IF latest = Nil THEN price ELSE latest
       /\ buffer' = IF latest = Nil THEN buffer ELSE [buffer EXCEPT ![Len(buffer)] = latest]
  /\ UNCHANGED <<ticks, gone, archive, cache, seen, threads, starts>>

Shutdown ==
  /\ boot = "up" /\ boot' = "down" /\ starts < MaxStarts
  /\ collector' = IF collector = "fetching" THEN "orphaned" ELSE "asleep"
  /\ UNCHANGED <<ticks, gone, archive, price, buffer, cache, seen, agent, report, failures, starts>>

\* the process ends when its threads have; another one starts from nothing
Restart ==
  /\ boot = "down" /\ collector = "asleep" /\ \A a \in Agents : agent[a].pc = "idle"
  /\ starts' = starts + 1 /\ starts < MaxStarts /\ boot' = "create"
  /\ price' = Synthetic /\ buffer' = <<>> /\ cache' = NoCache /\ seen' = Unseen
  /\ report' = [a \in Agents |-> NoReport]
  /\ UNCHANGED <<ticks, gone, archive, collector, agent, failures>>

-----------------------------------------------------------------------------
(* A payload on the event loop: _tick, then _build_payload *)

\* an entry that is never too old
FreshForEver == cache.set

Fresh == cache.set /\ cache.age < TTL

Payload ==
  /\ boot = "up"
  /\ \E frame \in Rows \cup {Nil} :
       /\ IF Fresh THEN frame = cache.frame /\ UNCHANGED <<cache, failures>>
          ELSE Reading(frame) /\ cache' = [set |-> TRUE, frame |-> frame, age |-> 0]
       /\ seen' = [frame |-> frame, live |-> price]
  /\ buffer' = LET longer == Append(buffer, price)
               IN IF Len(longer) > HistoryLen THEN Tail(longer) ELSE longer
  /\ UNCHANGED <<boot, price, ticks, gone, archive, threads, starts>>

-----------------------------------------------------------------------------
(* Tools on a thread: get_quant_intelligence and run_backtest_tool *)

\* what the tool makes of the frame it got; a backtest without one runs on the
\* synthetic buffer and says so
Finish(a, tool, frame) ==
  /\ agent' = [agent EXCEPT ![a] = Idle]
  /\ report' = IF tool = "backtest"
               THEN [report EXCEPT ![a] = IF frame = Nil THEN [source |-> Synthetic, demo |-> TRUE]
                                          ELSE [source |-> frame, demo |-> FALSE]]
               ELSE report

\* the cache is looked at, with the clock, before any query
AskFrame(a, tool) ==
  /\ boot = "up" /\ agent[a].pc = "idle"
  /\ IF tool = "backtest" /\ archive THEN Fails ELSE UNCHANGED failures
  /\ IF Fresh THEN Finish(a, tool, cache.frame)
     ELSE /\ agent' = [agent EXCEPT ![a] = [pc |-> "query", tool |-> tool, frame |-> Nil, age |-> 0]]
          /\ UNCHANGED report
  /\ UNCHANGED <<loop, ticks, gone, archive, cache, collector, starts>>

\* two years of historical_prices are preferred, when they can be read
BacktestArchive(a) ==
  /\ boot = "up" /\ agent[a].pc = "idle" /\ archive
  /\ report' = [report EXCEPT ![a] = [source |-> Archive, demo |-> FALSE]]
  /\ UNCHANGED <<loop, ticks, gone, archive, cache, collector, agent, failures, starts>>

Query(a) ==
  /\ agent[a].pc = "query"
  /\ \E frame \in Rows \cup {Nil} :
       Reading(frame) /\ agent' = [agent EXCEPT ![a].pc = "store", ![a].frame = frame]
  /\ UNCHANGED <<loop, ticks, gone, archive, cache, collector, report, starts>>

\* the time of the store
StampAtStore(a) == 0

\* the entry carries the time read before the query
Stamp(a) == agent[a].age

StoreFrame(a) ==
  /\ agent[a].pc = "store"
  /\ cache' = [set |-> TRUE, frame |-> agent[a].frame, age |-> Stamp(a)]
  /\ Finish(a, agent[a].tool, agent[a].frame)
  /\ UNCHANGED <<loop, ticks, gone, archive, collector, failures, starts>>

-----------------------------------------------------------------------------
(* Collectors and the clock *)

StartCycle ==
  /\ boot = "up" /\ collector = "asleep" /\ collector' = "fetching"
  /\ UNCHANGED <<loop, ticks, gone, archive, cache, agent, report, failures, starts>>

\* the thread commits, finds nothing, or raises; a cancelled loop does not come back
FetchThread ==
  /\ collector \in {"fetching", "orphaned"}
  /\ LET done == IF collector = "orphaned" THEN "asleep" ELSE "committed" IN
     \/ ticks # MaxRows /\ NewRows /\ collector' = done /\ UNCHANGED failures
     \/ UNCHANGED <<ticks, failures>> /\ collector' = done
     \/ UNCHANGED ticks /\ Fails /\ collector' = "asleep"
  /\ UNCHANGED <<loop, gone, archive, cache, agent, report, starts>>

InvalidateCache ==
  /\ collector = "committed" /\ collector' = "asleep"
  /\ cache' = NoCache
  /\ UNCHANGED <<loop, ticks, gone, archive, agent, report, failures, starts>>

\* the last client leaves while the thread runs
CancelCycle ==
  /\ collector = "fetching" /\ collector' = "orphaned"
  /\ UNCHANGED <<loop, ticks, gone, archive, cache, agent, report, failures, starts>>

BackfillArchive ==
  /\ boot = "up" /\ ~archive /\ archive' = TRUE
  /\ UNCHANGED <<loop, ticks, gone, cache, threads, failures, starts>>

Second ==
  /\ gone' = [v \in Rows |-> IF ticks # Nil /\ v < ticks THEN Older(gone[v]) ELSE gone[v]]
  /\ cache' = IF cache.set THEN [cache EXCEPT !.age = Older(@)] ELSE cache
  /\ agent' = [a \in Agents |-> IF agent[a].pc = "idle" THEN agent[a]
                                ELSE [agent[a] EXCEPT !.age = Older(@)]]
  /\ UNCHANGED <<loop, ticks, archive, collector, report, failures, starts>>

-----------------------------------------------------------------------------
Boot == CreateAndSeed \/ InitPriceHistory \/ FetchAtStart \/ SyncPriceState
ToolStep(a) == Query(a) \/ StoreFrame(a)

Next == \/ Boot \/ Shutdown \/ Restart \/ Payload \/ Second
        \/ \E a \in Agents : \/ \E tool \in {"quant", "backtest"} : AskFrame(a, tool)
                             \/ BacktestArchive(a) \/ ToolStep(a)
        \/ StartCycle \/ FetchThread \/ InvalidateCache \/ CancelCycle \/ BackfillArchive

Spec == Init /\ [][Next]_vars

\* The start runs through, threads finish, time passes and a connected client
\* gets a payload every second; nobody has to run a tool or a collection.
Fairness ==
  /\ WF_vars(Boot) /\ WF_vars(Restart)
  /\ \A a \in Agents : WF_vars(ToolStep(a))
  /\ WF_vars(FetchThread) /\ WF_vars(InvalidateCache)
  /\ SF_vars(Second) /\ SF_vars(Payload)

FairSpec == Spec /\ Fairness

-----------------------------------------------------------------------------
(* Properties *)

\* A frame served from the cache was the newest one less than TTL seconds ago,
\* whichever thread stored it and however long its query took.
FrameWithinTtl ==
  [][\A frame \in Rows :
       (Fresh /\ cache.frame = frame /\ ticks # frame
          /\ (seen' # seen \/ report' # report \/ buffer' # buffer))
         => gone[frame] < TTL]_vars

\* Every start ends with a server that answers, whatever the database and the
\* download do (each step of _lifespan has an exception handler of its own).
ServerStarts == []<>(boot = "up")

\* Once collections, failures and restarts stop, payloads are computed on the
\* newest rows for good, also after a tool's thread stored older ones over them.
FramesCatchUp == <>[](seen.frame = ticks)

\* "Append current live tick so the engine sees the freshest price"
\* (_build_payload): the price appended to a frame is not older than the frame.
EngineSeesFreshest == seen.frame # Nil => seen.live >= seen.frame

\* "mark as demo; results must not drive real decisions" (run_backtest_tool),
\* "True when data_source is synthetic GBM" (BacktestResult.is_demo): a backtest
\* over synthetic prices says so.
DemoIsMarked == \A a \in Agents : report[a].source \in {Synthetic, Seeded} => report[a].demo
=============================================================================
