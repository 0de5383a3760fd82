--------------------------- MODULE PortfolioViews ---------------------------
(***************************************************************************)
(* The portfolio summary of the virtual broker's book, cached in           *)
(* _PORTFOLIO_SUMMARY_CACHE for _DB_CACHE_TTL seconds and built by the     *)
(* event loop and by worker threads alike.  Accounts and holdings are read *)
(* in two separate transactions, either of which may fail.                 *)
(*                                                                         *)
(* The book is the one of VirtualBroker, seen from outside: every commit   *)
(* (an order or a reset) makes a new version of it.  Ages are in seconds   *)
(* and saturate at the TTL, beyond which nothing tells them apart.         *)
(***************************************************************************)
EXTENDS Integers

CONSTANTS Loop,         \* the event loop's thread
          Workers,      \* threads of asyncio.to_thread
          TTL,          \* _DB_CACHE_TTL
          MaxVersion,   \* bound: commits made to the book, plus one
          MaxFailures   \* bound: database reads that fail

ASSUME ActorAssumption == Loop \notin Workers
ASSUME BoundAssumption == TTL \in Nat \ {0} /\ MaxVersion \in Nat \ {0} /\ MaxFailures \in Nat

Actors == Workers \cup {Loop}
Versions == 1 .. MaxVersion
Failed == 0                      \* what a failed read returns: {} or []
Reads == Versions \cup {Failed}
Ages == 0 .. TTL

VARIABLES version,       \* the committed book
          supersededFor, \* how long ago each version was replaced
          cache,         \* _PORTFOLIO_SUMMARY_CACHE
          pc,            \* where each actor is in _build_portfolio_summary
          readAcc,       \* accounts an actor has read
          readHold,      \* holdings an actor has read
          age,           \* how long ago an actor took its timestamp
          ordered,       \* version a worker's own order made, if it refreshes for it
          acked,         \* newest order whose refresh is complete
          need,          \* acked when the actor started
          shown,         \* the last summary each actor returned, and whether it
                         \* misses an order acked before the actor started
          resetting,     \* a reset is committed, its cache invalidation is not done
          failures

build == <<pc, readAcc, readHold, age, ordered, need>>
vars == <<version, supersededFor, cache, build, acked, shown, resetting, failures>>

NoCache == [set |-> FALSE, acc |-> Failed, hold |-> Failed, age |-> 0]
NothingShown == [acc |-> Failed, hold |-> Failed, late |-> FALSE]

TypeOK ==
  /\ version \in Versions
  /\ supersededFor \in [Versions -> Ages]
  /\ cache \in [set : BOOLEAN, acc : Reads, hold : Reads, age : Ages]
  /\ pc \in [Actors -> {"idle", "unpack", "accounts", "holdings", "store", "refresh"}]
  /\ readAcc \in [Actors -> Reads]
  /\ readHold \in [Actors -> Reads]
  /\ age \in [Actors -> Ages]
  /\ ordered \in [Actors -> Reads]
  /\ acked \in Reads
  /\ need \in [Actors -> Reads]
  /\ shown \in [Actors -> [acc : Reads, hold : Reads, late : BOOLEAN]]
  /\ resetting \in BOOLEAN
  /\ failures \in 0 .. MaxFailures

Init ==
  /\ version = 1
  /\ supersededFor = [v \in Versions |-> 0]
  /\ cache = NoCache
  /\ pc = [a \in Actors |-> "idle"]
  /\ readAcc = [a \in Actors |-> Failed]
  /\ readHold = [a \in Actors |-> Failed]
  /\ age = [a \in Actors |-> 0]
  /\ ordered = [a \in Actors |-> Failed]
  /\ acked = Failed
  /\ need = [a \in Actors |-> Failed]
  /\ shown = [a \in Actors |-> NothingShown]
  /\ resetting = FALSE
  /\ failures = 0

---------------------------------------------------------------------------
(* The book and the clock.                                                 *)

NewVersion ==
  /\ version < MaxVersion
  /\ version' = version + 1

\* execute_virtual_order_tool on a worker: the order commits, the summary is
\* refreshed next.
PlaceOrder(w) ==
  /\ pc[w] = "idle"
  /\ NewVersion
  /\ pc' = [pc EXCEPT ![w] = "refresh"]
  /\ ordered' = [ordered EXCEPT ![w] = version']
  /\ UNCHANGED <<supersededFor, cache, readAcc, readHold, age, acked, need, shown,
                 resetting, failures>>

\* portfolio_reset: reset_virtual_portfolio commits on a worker thread ...
ResetBook ==
  /\ ~resetting
  /\ NewVersion
  /\ resetting' = TRUE
  /\ UNCHANGED <<supersededFor, cache, build, acked, shown, failures>>

\* ... and the coroutine, back on the event loop, drops the cache.
DropCache ==
  /\ resetting /\ pc[Loop] = "idle"
  /\ cache' = NoCache
  /\ resetting' = FALSE
  /\ UNCHANGED <<version, supersededFor, build, acked, shown, failures>>

Older(s) == IF s < TTL THEN s + 1 ELSE s

\* A second passes.
Tick ==
  /\ supersededFor' = [v \in Versions |->
                         IF v < version THEN Older(supersededFor[v]) ELSE supersededFor[v]]
  /\ cache' = IF cache.set THEN [cache EXCEPT !.age = Older(@)] ELSE cache
  /\ age' = [a \in Actors |-> IF pc[a] \in {"accounts", "holdings", "store"}
                              THEN Older(age[a]) ELSE age[a]]
  /\ UNCHANGED <<version, pc, readAcc, readHold, ordered, acked, need, shown, resetting,
                 failures>>

---------------------------------------------------------------------------
(* _build_portfolio_summary.                                               *)

\* now = time.monotonic(), then the tests of force_refresh and of the cache for
\* None.  Only a worker places orders; any actor may refresh or just look.
Start(a, force) ==
  /\ pc[a] = "idle" \/ (force /\ pc[a] = "refresh")
  /\ pc' = [pc EXCEPT ![a] = IF ~force /\ cache.set THEN "unpack" ELSE "accounts"]
  /\ age' = [age EXCEPT ![a] = 0]
  /\ need' = [need EXCEPT ![a] = acked]
  /\ shown' = [shown EXCEPT ![a] = IF a = Loop THEN @ ELSE NothingShown]
  /\ UNCHANGED <<version, supersededFor, cache, readAcc, readHold, ordered, acked,
                 resetting, failures>>

Return(a, rows) ==
  /\ shown' = [shown EXCEPT ![a] = [acc |-> rows.acc, hold |-> rows.hold,
                                    late |-> rows.acc # Failed /\ rows.acc < need[a]]]
  /\ pc' = [pc EXCEPT ![a] = "idle"]
  /\ readAcc' = [readAcc EXCEPT ![a] = Failed]
  /\ readHold' = [readHold EXCEPT ![a] = Failed]
  /\ age' = [age EXCEPT ![a] = 0]
  /\ ordered' = [ordered EXCEPT ![a] = Failed]
  /\ need' = [need EXCEPT ![a] = Failed]

\* The age test left out: an entry is served for ever.
ServeCachedForEver(a) ==
  /\ pc[a] = "unpack"
  /\ Return(a, cache)
  /\ UNCHANGED <<version, supersededFor, cache, acked, resetting, failures>>

\* The entry is unpacked after it was tested: dropped in between, the unpacking
\* raises; younger than the TTL, it is served.  (The clock was read a few
\* instructions before; its reading is taken to be that of this step.)
ServeCached(a) ==
  /\ pc[a] = "unpack"
  /\ \/ ~cache.set /\ Return(a, NoCache)
     \/ /\ cache.set /\ cache.age < TTL
        /\ Return(a, cache)
  /\ UNCHANGED <<version, supersededFor, cache, acked, resetting, failures>>

Expire(a) ==
  /\ pc[a] = "unpack" /\ cache.set /\ cache.age >= TTL
  /\ pc' = [pc EXCEPT ![a] = "accounts"]
  /\ UNCHANGED <<version, supersededFor, cache, readAcc, readHold, age, ordered, acked,
                 need, shown, resetting, failures>>

\* A database read: the committed book, or nothing if the database fails.
Reading(r) ==
  \/ r = version /\ UNCHANGED failures
  \/ r = Failed /\ failures < MaxFailures /\ failures' = failures + 1

\* get_virtual_accounts, in a transaction of its own.
ReadAccounts(a) ==
  /\ pc[a] = "accounts"
  /\ \E r \in Reads : Reading(r) /\ readAcc' = [readAcc EXCEPT ![a] = r]
  /\ pc' = [pc EXCEPT ![a] = "holdings"]
  /\ UNCHANGED <<version, supersededFor, cache, readHold, age, ordered, acked, need,
                 shown, resetting>>

\* get_portfolio_holdings, in another one.
ReadHoldings(a) ==
  /\ pc[a] = "holdings"
  /\ \E r \in Reads : Reading(r) /\ readHold' = [readHold EXCEPT ![a] = r]
  /\ pc' = [pc EXCEPT ![a] = "store"]
  /\ UNCHANGED <<version, supersededFor, cache, readAcc, age, ordered, acked, need,
                 shown, resetting>>

\* The timestamp taken after the reads.
StampLate(a) == 0

\* The timestamp stored with the rows is the one taken before they were read.
Stamp(a) == age[a]

Newer(m, n) == IF m > n THEN m ELSE n

\* Holdings that could not be read are patched up from the cache.
StorePatched(a) ==
  LET hold == IF readHold[a] = Failed /\ cache.set THEN cache.hold ELSE readHold[a]
  IN  /\ pc[a] = "store"
      /\ cache' = [set |-> TRUE, acc |-> readAcc[a], hold |-> hold, age |-> Stamp(a)]
      /\ acked' = Newer(acked, ordered[a])
      /\ Return(a, [acc |-> readAcc[a], hold |-> hold])
      /\ UNCHANGED <<version, supersededFor, resetting, failures>>

\* The rows just read replace whatever the cache holds by now, failed reads too.
Store(a) ==
  /\ pc[a] = "store"
  /\ cache' = [set |-> TRUE, acc |-> readAcc[a], hold |-> readHold[a], age |-> Stamp(a)]
  /\ acked' = Newer(acked, ordered[a])
  /\ Return(a, [acc |-> readAcc[a], hold |-> readHold[a]])
  /\ UNCHANGED <<version, supersededFor, resetting, failures>>

---------------------------------------------------------------------------
BuildStep(a) ==
  \/ ServeCached(a) \/ Expire(a) \/ ReadAccounts(a) \/ ReadHoldings(a) \/ Store(a)

Next ==
  \/ \E w \in Workers : PlaceOrder(w)
  \/ ResetBook \/ DropCache \/ Tick
  \/ \E a \in Actors, force \in BOOLEAN : Start(a, force)
  \/ \E a \in Actors : BuildStep(a)

\* Started builds go on, time passes, and a connected stream builds a payload
\* every second on the event loop; nobody has to place an order.
Fairness ==
  /\ \A a \in Actors : WF_vars(BuildStep(a)) /\ WF_vars(pc[a] = "refresh" /\ Start(a, TRUE))
  /\ SF_vars(Start(Loop, FALSE))
  /\ SF_vars(Tick)
  /\ WF_vars(DropCache)

Spec == Init /\ [][Next]_vars
FairSpec == Spec /\ Fairness

---------------------------------------------------------------------------
(* Properties.                                                             *)

\* Rows served from the cache were the committed ones less than TTL seconds ago,
\* whichever thread stored them last and however long its reads took.
ServedWithinTtl ==
  [][\A a \in Actors :
       (pc[a] = "unpack" /\ pc'[a] = "idle") =>
         \A v \in {shown'[a].acc, shown'[a].hold} \ {Failed} :
           v < version => supersededFor[v] < TTL]_vars

\* Accounts are read before holdings, so a summary never shows cash newer than
\* the positions it stands beside.
NeverReadBackwards ==
  \A a \in Actors : shown[a].hold # Failed => shown[a].acc <= shown[a].hold

\* Once orders, resets and database failures stop, the stream shows the book as
\* it is, for good.
StreamCatchesUp ==
  <>[](shown[Loop].acc = version /\ shown[Loop].hold = version)

\* "pass force_refresh=True right after placing an order so the next read
\* reflects it immediately" (docstring of _build_portfolio_summary).
NextReadReflectsOrder ==
  \A a \in Actors : ~shown[a].late
=============================================================================
