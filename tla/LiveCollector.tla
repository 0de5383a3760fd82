--------------------------- MODULE LiveCollector ----------------------------
(***************************************************************************)
(* The live collector: a task of the event loop that exists while clients  *)
(* are connected to the intelligence stream, and the threads it sends to   *)
(* download market data and replace the recent rows of market_ticks.       *)
(* Cancelling the task does not stop its thread, which runs on and commits *)
(* beside the thread of the next collector.                                *)
(*                                                                         *)
(* market_ticks, of which one ticker's rows are followed, has no key: a    *)
(* day may stand in it more than once.  Its rows are counted in the order  *)
(* of their commits: what a statement saw of a day and still stands is the *)
(* oldest of them.  A fetch replaces the last trading days only, a window  *)
(* that moves with today.  Statements run under READ COMMITTED.  News,     *)
(* indices and the sleep are the collector's rest.                         *)
(***************************************************************************)
EXTENDS Integers, FiniteSets

CONSTANTS Clients,   \* clients of /api/v1/intelligence/stream
          Threads,   \* threads of the default executor
          NoThread,
          Window,    \* trading days a download covers (period "5d")
          LastDay,   \* bound: trading days modelled
          MaxCopies  \* bound: rows of one day that are counted

ASSUME ClientAssumption == IsFiniteSet(Clients)
ASSUME ThreadAssumption == NoThread \notin Threads
ASSUME WindowAssumption ==
  /\ LastDay \in Nat /\ Window \in 1 .. LastDay
  /\ MaxCopies \in Nat \ {0}

Days == 1 .. LastDay
Rows == [Days -> 0 .. MaxCopies]   \* so many rows of each day
AlertAfter == 5      \* _consecutive_failures that raises a Slack alert

VARIABLES open,      \* clients whose stream is being generated
          count,     \* _SSE_CONNECTION_COUNT
          collector, \* the task in _LIVE_COLLECTOR_TASK
          worker,    \* the thread it awaits
          failed,    \* _consecutive_failures, up to AlertAfter + 1
          reported,  \* an alert was sent for the current run of failures
          pc, fetched, seen, \* each thread: position, days it got, rows its
                             \*   DELETE saw that stand; from "copy" on, deleted
          table,     \* rows committed to market_ticks
          today,
          sourceUp, dbUp    \* the download services and the database work

task == <<collector, worker, failed, reported>>
thread == <<pc, fetched, seen>>
services == <<sourceUp, dbUp>>
vars == <<open, count, task, thread, table, today, services>>

TypeOK ==
  /\ open \subseteq Clients
  /\ count \in 0 .. Cardinality(Clients)
  /\ collector \in {"none", "due", "waiting", "resting"}
  /\ worker \in Threads \cup {NoThread}
  /\ failed \in 0 .. AlertAfter + 1
  /\ reported \in BOOLEAN
  /\ pc \in [Threads -> {"free", "download", "delete", "blocked", "copy", "ok", "raised"}]
  /\ fetched \in [Threads -> SUBSET Days]
  /\ seen \in [Threads -> Rows]
  /\ table \in Rows
  /\ today \in Days
  /\ sourceUp \in BOOLEAN /\ dbUp \in BOOLEAN

NoRows == [d \in Days |-> 0]

\* The start-up fetch has filled the window.
Init ==
  /\ open = {} /\ count = 0
  /\ collector = "none" /\ worker = NoThread /\ failed = 0 /\ reported = FALSE
  /\ pc = [t \in Threads |-> "free"]
  /\ fetched = [t \in Threads |-> {}]
  /\ seen = [t \in Threads |-> NoRows]
  /\ today = Window
  /\ table = [d \in Days |-> IF d <= Window THEN 1 ELSE 0]
  /\ sourceUp = TRUE /\ dbUp = TRUE

---------------------------------------------------------------------------
(* Connections.                                                            *)

\* intelligence_stream: count the client, create the collector if there is none.
Open(c) ==
  /\ c \notin open /\ open' = open \cup {c}
  /\ count' = count + 1
  /\ IF collector = "none"
     THEN collector' = "due" /\ failed' = 0 /\ reported' = FALSE
     ELSE UNCHANGED <<collector, failed, reported>>
  /\ UNCHANGED <<worker, thread, table, today, services>>

\* The collector cancelled by whoever leaves.
CloseCancelsAlways(c) ==
  /\ c \in open /\ open' = open \ {c}
  /\ count' = IF count > 0 THEN count - 1 ELSE 0
  /\ collector' = "none" /\ worker' = NoThread
  /\ UNCHANGED <<failed, reported, thread, table, today, services>>

\* The generator's finally, _on_sse_disconnect: the last client out cancels the
\* task; its thread, if it awaits one, is not told.
Close(c) ==
  /\ c \in open /\ open' = open \ {c}
  /\ count' = IF count > 0 THEN count - 1 ELSE 0
  /\ IF count' = 0 /\ collector # "none"
     THEN collector' = "none" /\ worker' = NoThread
     ELSE UNCHANGED <<collector, worker>>
  /\ UNCHANGED <<failed, reported, thread, table, today, services>>

---------------------------------------------------------------------------
(* fetch_live_market_data on a thread.                                     *)

Goto(t, label) == pc' = [pc EXCEPT ![t] = label]

\* asyncio.to_thread, when the executor has a thread to spare.
Submit(t) ==
  /\ collector = "due" /\ pc[t] = "free"
  /\ collector' = "waiting" /\ worker' = t
  /\ Goto(t, "download")
  /\ UNCHANGED <<open, count, failed, reported, fetched, seen, table, today, services>>

CurrentWindow == {d \in Days : today - Window < d /\ d <= today}

\* _fetch_latest_close_from_db: the day of the ticker's last row.
LatestStored ==
  {d \in Days : table[d] > 0 /\ \A e \in Days : table[e] > 0 => e <= d}

\* _fetch_ticker_ohlcv, retried: the window; without a source the last stored row,
\* or nothing if the attempts raise or the database is away too.
Download(t) ==
  /\ pc[t] = "download"
  /\ \/ sourceUp /\ fetched' = [fetched EXCEPT ![t] = CurrentWindow]
     \/ ~sourceUp /\ dbUp /\ fetched' = [fetched EXCEPT ![t] = LatestStored]
     \/ ~sourceUp /\ fetched' = [fetched EXCEPT ![t] = {}]
  /\ Goto(t, IF fetched'[t] = {} THEN "ok" ELSE "delete")
  /\ UNCHANGED <<open, count, task, seen, table, today, services>>

\* A window compared with > for >=.
StartDeleteStrict(t) ==
  /\ pc[t] = "delete" /\ dbUp
  /\ seen' = [seen EXCEPT ![t] =
       [d \in Days |-> IF \E e \in fetched[t] : d > e THEN table[d] ELSE 0]]
  /\ Goto(t, "blocked")
  /\ UNCHANGED <<open, count, task, fetched, table, today, services>>

\* The DELETE statement starts: of the committed rows it sees those since min_ts,
\* the first day fetched.
StartDelete(t) ==
  /\ pc[t] = "delete" /\ dbUp
  /\ seen' = [seen EXCEPT ![t] =
       [d \in Days |-> IF \E e \in fetched[t] : d >= e THEN table[d] ELSE 0]]
  /\ Goto(t, "blocked")
  /\ UNCHANGED <<open, count, task, fetched, table, today, services>>

\* It waits for rows that another transaction is deleting, and skips those gone
\* when that one has committed.
FinishDelete(t) ==
  /\ pc[t] = "blocked" /\ dbUp
  /\ \A u \in Threads \ {t} :
       pc[u] = "copy" => \A d \in Days : seen[t][d] = 0 \/ seen[u][d] = 0
  /\ Goto(t, "copy")
  /\ UNCHANGED <<open, count, task, fetched, seen, table, today, services>>

\* A transaction ends, having deleted these rows.
EndTransaction(t, deleted, label) ==
  /\ Goto(t, label)
  /\ fetched' = [fetched EXCEPT ![t] = {}]
  /\ seen' = [u \in Threads |-> [d \in Days |->
       IF u = t \/ seen[u][d] <= deleted[d] THEN 0 ELSE seen[u][d] - deleted[d]]]

\* One row more for each day fetched.
Copied(rows, days) ==
  [d \in Days |-> IF d \in days /\ rows[d] < MaxCopies THEN rows[d] + 1 ELSE rows[d]]

\* COPY of the rows fetched, and commit.
CopyCommit(t) ==
  /\ pc[t] = "copy" /\ dbUp
  /\ table' = Copied([d \in Days |-> table[d] - seen[t][d]], fetched[t])
  /\ EndTransaction(t, seen[t], "ok")
  /\ UNCHANGED <<open, count, task, today, services>>

\* The database fails in the middle: rolled back, logged, raised again.
Raise(t) ==
  /\ pc[t] \in {"delete", "blocked", "copy"} /\ ~dbUp
  /\ EndTransaction(t, NoRows, "raised")
  /\ UNCHANGED <<open, count, task, table, today, services>>

---------------------------------------------------------------------------
(* _live_collector_loop.                                                   *)

\* A failure that ends the loop.
DeliverKills(t) ==
  /\ pc[t] \in {"ok", "raised"} /\ Goto(t, "free")
  /\ IF worker = t
     THEN worker' = NoThread /\ collector' = IF pc[t] = "ok" THEN "resting" ELSE "none"
     ELSE UNCHANGED <<worker, collector>>
  /\ UNCHANGED <<open, count, failed, reported, fetched, seen, table, today, services>>

\* A counter that every new cycle resets.
DeliverForgets(t) ==
  /\ pc[t] \in {"ok", "raised"} /\ Goto(t, "free")
  /\ IF worker = t
     THEN /\ worker' = NoThread /\ collector' = "resting"
          /\ failed' = IF pc[t] = "ok" THEN 0 ELSE 1
     ELSE UNCHANGED <<worker, collector, failed>>
  /\ UNCHANGED <<open, count, reported, fetched, seen, table, today, services>>

\* The thread ends.  The collector that awaits it counts a failure and reports the
\* fifth in a row; a cancelled collector hears nothing.
Deliver(t) ==
  /\ pc[t] \in {"ok", "raised"} /\ Goto(t, "free")
  /\ IF worker = t
     THEN /\ worker' = NoThread /\ collector' = "resting"
          /\ IF pc[t] = "ok"
             THEN failed' = 0 /\ reported' = FALSE
             ELSE /\ failed' = IF failed > AlertAfter THEN failed ELSE failed + 1
                  /\ reported' = (reported \/ failed' = AlertAfter)
     ELSE UNCHANGED task
  /\ UNCHANGED <<open, count, fetched, seen, table, today, services>>

\* News, indices and the sleep are over; their failures are logged only.
Rest ==
  /\ collector = "resting" /\ collector' = "due"
  /\ UNCHANGED <<open, count, worker, failed, reported, thread, table, today, services>>

\* Yahoo, Alpaca and the database come and go.
Outage ==
  /\ \/ sourceUp' = ~sourceUp /\ UNCHANGED dbUp
     \/ dbUp' = ~dbUp /\ UNCHANGED sourceUp
  /\ UNCHANGED <<open, count, task, thread, table, today>>

NextDay ==
  /\ today < LastDay /\ today' = today + 1
  /\ UNCHANGED <<open, count, task, thread, table, services>>

---------------------------------------------------------------------------
ThreadStep(t) ==
  \/ Download(t) \/ StartDelete(t) \/ FinishDelete(t) \/ CopyCommit(t)
  \/ Raise(t) \/ Deliver(t)

Next ==
  \/ \E c \in Clients : Open(c) \/ Close(c)
  \/ \E t \in Threads : Submit(t) \/ ThreadStep(t)
  \/ Rest \/ Outage \/ NextDay

\* Threads run, the event loop runs its task; clients and services do as they
\* please.
Fairness ==
  /\ \A t \in Threads : WF_vars(ThreadStep(t))
  /\ WF_vars(\E t \in Threads : Submit(t))
  /\ WF_vars(Rest)

Spec == Init /\ [][Next]_vars
FairSpec == Spec /\ Fairness

---------------------------------------------------------------------------
(* Properties.                                                             *)

\* "Single shared background task -- started on first SSE connect, cancelled on
\* last disconnect": the counter counts the open streams, and there is a collector
\* exactly while one is open.
CollectorFollowsClients ==
  /\ count = Cardinality(open)
  /\ collector # "none" <=> open # {}
  /\ worker # NoThread <=> collector = "waiting"

\* While a client stays, cycles go on for ever, whatever fails and however many
\* threads of cancelled collectors are still in the executor.
CyclesGoOn == (<>[](open # {})) => []<>(collector = "resting")

\* Days doubled by an overtaking thread heal while a fetch still covers them: with
\* a client connected and the services up, each day of the current window ends
\* standing once, for good.  Nothing repairs a doubled day that has left the window
\* before a cycle succeeds: of all days in place of the window's this is false.
DuplicatesHeal ==
  <>[](open # {} /\ sourceUp /\ dbUp)
    => <>[](\A d \in CurrentWindow : table[d] = 1)

\* A database that stays down while clients stay is reported (unless the download
\* services fail too: a fetch that found no row counts as a success).
OutageReported ==
  <>[](open # {} /\ sourceUp /\ ~dbUp) => <>[]reported

\* "DELETE existing rows in that date window for the affected tickers", then
\* insert (fetch_live_market_data): no day stands in the table twice.
NoDoubledDays == \A d \in Days : table[d] <= 1
=============================================================================
