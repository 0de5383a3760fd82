-------------------------- MODULE MarketServerProofs --------------------------
(***************************************************************************)
(* For any number of tool threads, collections, failures and starts, and   *)
(* any TTL: a frame served from _DB_PRICE_CACHE was the newest one less    *)
(* than TTL seconds ago.                                                   *)
(***************************************************************************)
EXTENDS MarketServer, SequenceTheorems, TLAPS

\* The part of the types the cache depends on.
FrameTypes ==
  /\ ticks \in Rows \cup {Nil} /\ gone \in [Rows -> Ages]
  /\ cache \in [set : BOOLEAN, frame : Rows \cup {Nil}, age : Ages]
  /\ agent \in [Agents -> [pc : {"idle", "query", "store"}, tool : {"none", "quant", "backtest"},
                           frame : Rows \cup {Nil}, age : Ages]]

\* Rows that have no successor are not superseded yet.
NewestInv == \A v \in Rows : ticks = Nil \/ v >= ticks => gone[v] = 0

\* A frame somebody holds was read from the table, and was its newest one at some
\* time within the last s seconds.
Recent(v, s) == v # Nil => ticks # Nil /\ v <= ticks /\ gone[v] <= s

CacheInv == Recent(cache.frame, cache.age) /\ (cache.frame # Nil => cache.set)

ThreadsInv ==
  \A a \in Agents : /\ Recent(agent[a].frame, agent[a].age)
                    /\ agent[a].pc = "idle" => agent[a].frame = Nil

IInv == FrameTypes /\ NewestInv /\ CacheInv /\ ThreadsInv

-----------------------------------------------------------------------------
\* Ages saturate at the TTL and keep their order.
LEMMA OlderFacts ==
  ASSUME NEW s \in Ages
  PROVE  /\ Older(s) \in Ages /\ s <= Older(s)
         /\ \A r \in Ages : r <= s => Older(r) <= Older(s)
BY BoundAssumption DEF Older, Ages

\* No age, the rows of the seed and the absence of rows are what they should be.
LEMMA Basics == 0 \in Ages /\ Seeded \in Rows /\ Nil \notin Rows /\ Rows \subseteq Int
BY BoundAssumption, NilAssumption DEF Ages, Seeded, Rows

LEMMA InitIInv == Init => IInv
<1> SUFFICES ASSUME Init PROVE IInv
  OBVIOUS
<1>1. FrameTypes
  BY Basics DEF Init, FrameTypes, NoCache, Idle
<1>2. NewestInv
  BY DEF Init, NewestInv
<1>3. CacheInv /\ ThreadsInv
  BY DEF Init, CacheInv, ThreadsInv, Recent, NoCache, Idle
<1>4. QED
  BY <1>1, <1>2, <1>3 DEF IInv

\* The rows of a collection supersede those before them, for no time yet.
LEMMA NewRowsKeep ==
  ASSUME IInv, UNCHANGED gone,
         ticks' = (IF ticks = Nil THEN Seeded ELSE ticks) \/ (ticks # MaxRows /\ NewRows)
  PROVE  /\ ticks' \in Rows /\ NewestInv'
         /\ \A v \in Rows \cup {Nil}, s \in Ages : Recent(v, s) => Recent(v, s)'
<1>1. ticks \in Rows \cup {Nil} /\ ticks' \in Rows /\ (ticks # Nil => ticks <= ticks')
  BY BoundAssumption, Basics DEF IInv, FrameTypes, NewRows, Rows, Seeded
<1>2. NewestInv'
  BY <1>1, Basics DEF IInv, NewestInv, Rows
<1>3. ASSUME NEW v \in Rows \cup {Nil}, NEW s \in Ages, Recent(v, s) PROVE Recent(v, s)'
  BY <1>1, <1>3, Basics DEF Recent, Rows
<1>4. QED
  BY <1>1, <1>2, <1>3

\* Steps that commit at most rows.
LEMMA CommitStep ==
  ASSUME IInv, UNCHANGED <<gone, cache, agent>>,
         \/ UNCHANGED ticks
         \/ ticks' = (IF ticks = Nil THEN Seeded ELSE ticks)
         \/ ticks # MaxRows /\ NewRows
  PROVE  IInv'
<1>1. CASE UNCHANGED ticks
  BY <1>1 DEF IInv, FrameTypes, NewestInv, CacheInv, ThreadsInv, Recent
<1>2. CASE ~UNCHANGED ticks
  <2>1. /\ ticks' \in Rows /\ NewestInv'
        /\ \A v \in Rows \cup {Nil}, s \in Ages : Recent(v, s) => Recent(v, s)'
    BY <1>2, NewRowsKeep
  <2>2. FrameTypes'
    BY <2>1 DEF IInv, FrameTypes
  <2>3. CacheInv'
    BY <2>1 DEF IInv, FrameTypes, CacheInv, Recent
  <2>4. ThreadsInv'
    <3> SUFFICES ASSUME NEW a \in Agents
                 PROVE  /\ Recent(agent[a].frame, agent[a].age)'
                        /\ agent'[a].pc = "idle" => agent'[a].frame = Nil
      BY DEF ThreadsInv
    <3>1. agent[a].frame \in Rows \cup {Nil} /\ agent[a].age \in Ages
      BY DEF IInv, FrameTypes
    <3>2. Recent(agent[a].frame, agent[a].age)
      BY DEF IInv, ThreadsInv
    <3>3. QED
      BY <2>1, <3>1, <3>2 DEF IInv, ThreadsInv, Recent
  <2>5. QED
    BY <2>1, <2>2, <2>3, <2>4 DEF IInv
<1>3. QED
  BY <1>1, <1>2

\* Steps of the loop or of a thread leave the table alone and give the cache, and a
\* thread, frames that are recent.
LEMMA ReadStep ==
  ASSUME IInv, UNCHANGED <<ticks, gone>>,
         cache' \in [set : BOOLEAN, frame : Rows \cup {Nil}, age : Ages],
         Recent(cache'.frame, cache'.age), cache'.frame # Nil => cache'.set,
         agent' \in [Agents -> [pc : {"idle", "query", "store"},
                                tool : {"none", "quant", "backtest"},
                                frame : Rows \cup {Nil}, age : Ages]],
         \A a \in Agents : /\ Recent(agent'[a].frame, agent'[a].age)
                           /\ agent'[a].pc = "idle" => agent'[a].frame = Nil
  PROVE  IInv'
<1>1. FrameTypes' /\ NewestInv'
  BY DEF IInv, FrameTypes, NewestInv
<1>2. CacheInv'
  BY DEF CacheInv, Recent
<1>3. ThreadsInv'
  BY DEF ThreadsInv, Recent
<1>4. QED
  BY <1>1, <1>2, <1>3 DEF IInv

\* What a read of the database returns is recent at any age.
LEMMA ReadingIsRecent ==
  ASSUME IInv, NEW frame \in Rows \cup {Nil}, Reading(frame), NEW s \in Ages
  PROVE  Recent(frame, s)
BY Basics DEF IInv, FrameTypes, NewestInv, Reading, Recent, Rows, Ages

\* What IInv says of one thread.
LEMMA ThreadFacts ==
  ASSUME IInv, NEW a \in Agents
  PROVE  /\ agent[a] \in [pc : {"idle", "query", "store"}, tool : {"none", "quant", "backtest"},
                          frame : Rows \cup {Nil}, age : Ages]
         /\ Recent(agent[a].frame, agent[a].age)
         /\ agent[a].pc = "idle" => agent[a].frame = Nil
BY DEF IInv, FrameTypes, ThreadsInv

\* One thread changes to a record whose frame is recent.
LEMMA OneThread ==
  ASSUME IInv, NEW a \in Agents,
         NEW to \in [pc : {"idle", "query", "store"}, tool : {"none", "quant", "backtest"},
                     frame : Rows \cup {Nil}, age : Ages],
         agent' = [agent EXCEPT ![a] = to],
         Recent(to.frame, to.age), to.pc = "idle" => to.frame = Nil
  PROVE  /\ agent' \in [Agents -> [pc : {"idle", "query", "store"},
                                   tool : {"none", "quant", "backtest"},
                                   frame : Rows \cup {Nil}, age : Ages]]
         /\ \A b \in Agents : /\ Recent(agent'[b].frame, agent'[b].age)
                              /\ agent'[b].pc = "idle" => agent'[b].frame = Nil
<1>1. agent \in [Agents -> [pc : {"idle", "query", "store"},
                            tool : {"none", "quant", "backtest"},
                            frame : Rows \cup {Nil}, age : Ages]]
  BY DEF IInv, FrameTypes
<1>2. ASSUME NEW b \in Agents
      PROVE  /\ Recent(agent'[b].frame, agent'[b].age)
             /\ agent'[b].pc = "idle" => agent'[b].frame = Nil
  <2>1. agent'[b] = IF b = a THEN to ELSE agent[b]
    BY <1>1
  <2>2. QED
    BY <2>1, ThreadFacts
<1>3. QED
  BY <1>1, <1>2

\* A thread that has done its work holds nothing.
LEMMA IdleFacts ==
  /\ Idle \in [pc : {"idle", "query", "store"}, tool : {"none", "quant", "backtest"},
               frame : Rows \cup {Nil}, age : Ages]
  /\ Recent(Idle.frame, Idle.age) /\ (Idle.pc = "idle" => Idle.frame = Nil)
BY Basics DEF Idle, Recent

LEMMA PayloadStep == IInv /\ Payload => IInv'
<1> SUFFICES ASSUME IInv, Payload PROVE IInv'
  OBVIOUS
<1>1. UNCHANGED <<ticks, gone, agent>>
  BY DEF Payload, threads
<1>2. PICK frame \in Rows \cup {Nil} :
        IF Fresh THEN frame = cache.frame /\ UNCHANGED <<cache, failures>>
        ELSE Reading(frame) /\ cache' = [set |-> TRUE, frame |-> frame, age |-> 0]
  BY DEF Payload
<1>3. CASE Fresh
  BY <1>1, <1>2, <1>3, CommitStep
<1>4. CASE ~Fresh
  <2>1. Recent(frame, 0)
    BY <1>2, <1>4, Basics, ReadingIsRecent
  <2>2. cache' = [set |-> TRUE, frame |-> frame, age |-> 0]
    BY <1>2, <1>4 DEF Fresh
  <2>3. /\ cache' \in [set : BOOLEAN, frame : Rows \cup {Nil}, age : Ages]
        /\ cache'.frame = frame /\ cache'.age = 0 /\ cache'.set
    BY <2>2, Basics
  <2>4. QED
    BY <1>1, <2>1, <2>3, ReadStep, ThreadFacts DEF IInv, FrameTypes
<1>5. QED
  BY <1>3, <1>4

LEMMA ToolSteps ==
  ASSUME IInv, NEW a \in Agents,
         NEW tool \in {"quant", "backtest"}, AskFrame(a, tool) \/ Query(a) \/ StoreFrame(a)
  PROVE  IInv'
<1>1. UNCHANGED <<ticks, gone>>
  BY DEF AskFrame, Query, StoreFrame
<1>2. cache \in [set : BOOLEAN, frame : Rows \cup {Nil}, age : Ages] /\ CacheInv
  BY DEF IInv, FrameTypes
<1>3. CASE AskFrame(a, tool)
  <2> DEFINE asked == [pc |-> "query", tool |-> tool, frame |-> Nil, age |-> 0]
  <2>1. /\ asked \in [pc : {"idle", "query", "store"}, tool : {"none", "quant", "backtest"},
                      frame : Rows \cup {Nil}, age : Ages]
        /\ Recent(asked.frame, asked.age) /\ asked.pc # "idle"
    BY Basics DEF Recent
  <2>2. UNCHANGED cache /\ \E to \in {Idle, asked} : agent' = [agent EXCEPT ![a] = to]
    BY <1>3 DEF AskFrame, Finish
  <2> HIDE DEF asked
  <2>3. PICK to \in {Idle, asked} : agent' = [agent EXCEPT ![a] = to]
    BY <2>2
  <2>4. QED
    BY <1>1, <1>2, <2>1, <2>2, <2>3, IdleFacts, OneThread, ReadStep DEF CacheInv
<1>4. CASE Query(a)
  <2>1. PICK frame \in Rows \cup {Nil} :
          Reading(frame) /\ agent' = [agent EXCEPT ![a].pc = "store", ![a].frame = frame]
    BY <1>4 DEF Query
  <2> DEFINE read == [agent[a] EXCEPT !.pc = "store", !.frame = frame]
  <2>2. /\ read \in [pc : {"idle", "query", "store"}, tool : {"none", "quant", "backtest"},
                     frame : Rows \cup {Nil}, age : Ages]
        /\ read.frame = frame /\ read.age \in Ages /\ read.pc # "idle"
    BY ThreadFacts
  <2>3. agent' = [agent EXCEPT ![a] = read]
    BY <2>1 DEF IInv, FrameTypes
  <2> HIDE DEF read
  <2>4. Recent(read.frame, read.age)
    BY <2>1, <2>2, ReadingIsRecent
  <2>5. UNCHANGED cache
    BY <1>4 DEF Query
  <2>6. QED
    BY <1>1, <1>2, <2>2, <2>3, <2>4, <2>5, OneThread, ReadStep DEF CacheInv
<1>5. CASE StoreFrame(a)
  <2>1. agent' = [agent EXCEPT ![a] = Idle]
    BY <1>5 DEF StoreFrame, Finish
  <2>2. cache' = [set |-> TRUE, frame |-> agent[a].frame, age |-> agent[a].age]
    BY <1>5 DEF StoreFrame, Stamp
  <2>3. /\ cache' \in [set : BOOLEAN, frame : Rows \cup {Nil}, age : Ages]
        /\ Recent(cache'.frame, cache'.age) /\ cache'.set
    BY <2>2, ThreadFacts
  <2>4. QED
    BY <1>1, <2>1, <2>3, IdleFacts, OneThread, ReadStep
<1>6. QED
  BY <1>3, <1>4, <1>5

LEMMA SecondStep == IInv /\ Second => IInv'
<1> SUFFICES ASSUME IInv, Second PROVE IInv'
  OBVIOUS
<1>1. UNCHANGED ticks /\ ticks \in Rows \cup {Nil} /\ gone \in [Rows -> Ages]
  BY DEF Second, IInv, FrameTypes
<1>2. gone' = [v \in Rows |-> IF ticks # Nil /\ v < ticks THEN Older(gone[v]) ELSE gone[v]]
  BY DEF Second
<1>3. gone' \in [Rows -> Ages] /\ NewestInv'
  BY <1>1, <1>2, OlderFacts, Basics DEF IInv, NewestInv, Rows
<1>4. ASSUME NEW v \in Rows, NEW s \in Ages, Recent(v, s)
      PROVE  ticks' # Nil /\ v <= ticks' /\ gone'[v] <= Older(s)
  <2>1. Older(s) \in Ages /\ s <= Older(s) /\ \A r \in Ages : r <= s => Older(r) <= Older(s)
    BY OlderFacts
  <2>2. gone[v] \in Ages /\ ticks # Nil /\ v <= ticks /\ gone[v] <= s
    BY <1>1, <1>4, Basics DEF Recent
  <2>3. gone'[v] = Older(gone[v]) \/ gone'[v] = gone[v]
    BY <1>2
  <2>4. gone'[v] <= Older(s)
    BY <2>1, <2>2, <2>3, BoundAssumption DEF Ages
  <2>5. QED
    BY <1>1, <2>2, <2>4
<1>5. cache \in [set : BOOLEAN, frame : Rows \cup {Nil}, age : Ages] /\ CacheInv
  BY DEF IInv, FrameTypes
<1>6. cache' = IF cache.set THEN [cache EXCEPT !.age = Older(@)] ELSE cache
  BY DEF Second
<1>7. cache' \in [set : BOOLEAN, frame : Rows \cup {Nil}, age : Ages]
  BY <1>5, <1>6, OlderFacts
<1>8. CacheInv'
  <2>1. CASE cache.frame = Nil
    BY <1>5, <1>6, <2>1 DEF CacheInv, Recent
  <2>2. CASE cache.frame # Nil
    <3>1. cache'.frame = cache.frame /\ cache'.age = Older(cache.age) /\ cache'.set
      BY <1>5, <1>6, <2>2 DEF CacheInv
    <3>2. /\ ticks' # Nil /\ cache.frame <= ticks'
          /\ gone'[cache.frame] <= Older(cache.age)
      BY <1>4, <1>5, <2>2 DEF CacheInv
    <3>3. QED
      BY <3>1, <3>2 DEF CacheInv, Recent
  <2>3. QED
    BY <2>1, <2>2
<1>9. agent' = [a \in Agents |-> IF agent[a].pc = "idle" THEN agent[a]
                                 ELSE [agent[a] EXCEPT !.age = Older(@)]]
  BY DEF Second
<1>10. agent' \in [Agents -> [pc : {"idle", "query", "store"},
                              tool : {"none", "quant", "backtest"},
                              frame : Rows \cup {Nil}, age : Ages]]
  BY <1>9, ThreadFacts, OlderFacts
<1>11. ThreadsInv'
  <2> SUFFICES ASSUME NEW a \in Agents
               PROVE  /\ Recent(agent[a].frame, agent[a].age)'
                      /\ agent'[a].pc = "idle" => agent'[a].frame = Nil
    BY DEF ThreadsInv
  <2>1. /\ agent[a].frame \in Rows \cup {Nil} /\ agent[a].age \in Ages
        /\ Recent(agent[a].frame, agent[a].age)
        /\ agent[a].pc = "idle" => agent[a].frame = Nil
    BY ThreadFacts
  <2>2. CASE agent[a].frame = Nil
    <3>1. agent'[a].frame = Nil
      BY <1>9, <2>2, ThreadFacts
    <3>2. QED
      BY <3>1 DEF Recent
  <2>3. CASE agent[a].frame # Nil
    <3>1. /\ agent'[a].frame = agent[a].frame /\ agent'[a].age = Older(agent[a].age)
          /\ agent'[a].pc = agent[a].pc
      BY <1>9, <2>1, <2>3, ThreadFacts
    <3>2. /\ ticks' # Nil /\ agent[a].frame <= ticks'
          /\ gone'[agent[a].frame] <= Older(agent[a].age)
      BY <1>4, <2>1, <2>3
    <3>3. QED
      BY <2>1, <3>1, <3>2 DEF Recent
  <2>4. QED
    BY <2>2, <2>3
<1>12. QED
  BY <1>1, <1>3, <1>7, <1>8, <1>10, <1>11 DEF IInv, FrameTypes

LEMMA NextIInv == IInv /\ [Next]_vars => IInv'
<1> SUFFICES ASSUME IInv, [Next]_vars PROVE IInv'
  OBVIOUS
<1>1. CASE Boot
  <2>1. CASE CreateAndSeed
    BY <2>1, CommitStep DEF CreateAndSeed, threads
  <2>2. CASE InitPriceHistory
    BY <2>2, CommitStep DEF InitPriceHistory, threads
  <2>3. CASE FetchAtStart
    BY <2>3, CommitStep DEF FetchAtStart, threads
  <2>4. CASE SyncPriceState
    BY <2>4, CommitStep DEF SyncPriceState, threads
  <2>5. QED
    BY <1>1, <2>1, <2>2, <2>3, <2>4 DEF Boot
<1>2. CASE Shutdown \/ StartCycle \/ FetchThread \/ CancelCycle \/ BackfillArchive
  BY <1>2, CommitStep
  DEF Shutdown, StartCycle, FetchThread, CancelCycle, BackfillArchive, loop, threads
<1>3. CASE Restart \/ InvalidateCache
  <2>1. UNCHANGED <<ticks, gone, agent>> /\ cache' = NoCache
    BY <1>3 DEF Restart, InvalidateCache
  <2>2. /\ cache' \in [set : BOOLEAN, frame : Rows \cup {Nil}, age : Ages]
        /\ cache'.frame = Nil
    BY <2>1, Basics DEF NoCache
  <2>3. QED
    BY <2>1, <2>2, ReadStep, ThreadFacts DEF IInv, FrameTypes, Recent
<1>4. CASE Payload
  BY <1>4, PayloadStep
<1>5. CASE Second
  BY <1>5, SecondStep
<1>6. ASSUME NEW a \in Agents,
             (\E tool \in {"quant", "backtest"} : AskFrame(a, tool)) \/ ToolStep(a)
      PROVE  IInv'
  BY <1>6, ToolSteps DEF ToolStep
<1>7. ASSUME NEW a \in Agents, BacktestArchive(a) PROVE IInv'
  BY <1>7, CommitStep DEF BacktestArchive, loop
<1>8. CASE UNCHANGED vars
  BY <1>8, CommitStep DEF vars, threads
<1>9. QED
  BY <1>1, <1>2, <1>3, <1>4, <1>5, <1>6, <1>7, <1>8 DEF Next

-----------------------------------------------------------------------------
\* Every frame in the cache or in a thread's hands was the newest one no longer ago
\* than the age that goes with it says (_fetch_price_df_from_db).
THEOREM FramesInduct == Spec => []IInv
BY InitIInv, NextIInv, PTL DEF Spec

\* A frame served from the cache was the newest one less than TTL seconds ago.
THEOREM ServesRecentFrames == Spec => FrameWithinTtl
<1>1. ASSUME IInv, NEW frame \in Rows, Fresh, cache.frame = frame
      PROVE  gone[frame] < TTL
  BY <1>1, BoundAssumption, Basics
  DEF IInv, FrameTypes, CacheInv, Recent, Fresh, Ages
<1>2. IInv /\ [Next]_vars =>
        [\A frame \in Rows :
           (Fresh /\ cache.frame = frame /\ ticks # frame
              /\ (seen' # seen \/ report' # report \/ buffer' # buffer))
             => gone[frame] < TTL]_vars
  BY <1>1
<1>3. QED
  BY <1>2, FramesInduct, PTL DEF FrameWithinTtl, Spec

-----------------------------------------------------------------------------
(* The other variables *)

\* What the start, the price state and the counters may be; the history is empty
\* only before it is initialised.
LoopTypes ==
  /\ boot \in {"create", "history", "fetch", "sync", "up", "down"} /\ archive \in BOOLEAN
  /\ price \in Rows \cup {Synthetic}
  /\ buffer \in Seq(Rows \cup {Synthetic}) /\ Len(buffer) <= HistoryLen
  /\ seen \in [frame : Rows \cup {Nil}, live : Rows \cup {Synthetic}]
  /\ collector \in {"asleep", "fetching", "committed", "orphaned"}
  /\ failures \in 0..MaxFailures /\ starts \in 1..MaxStarts

\* The history and the prices of a process that has just started.
LEMMA NothingSeen ==
  /\ <<>> \in Seq(Rows \cup {Synthetic}) /\ Len(<<>>) = 0
  /\ Unseen \in [frame : Rows \cup {Nil}, live : Rows \cup {Synthetic}]
<1>1. <<>> \in Seq(Rows \cup {Synthetic})
  BY EmptySeq
<1>2. Unseen \in [frame : Rows \cup {Nil}, live : Rows \cup {Synthetic}] /\ Len(<<>>) = 0
  BY Basics DEF Unseen
<1>3. QED
  BY <1>1, <1>2

LEMMA LoopTypesAtStart == Init => LoopTypes
<1> SUFFICES ASSUME Init PROVE LoopTypes
  OBVIOUS
<1>1. failures \in 0..MaxFailures /\ starts \in 1..MaxStarts
  BY BoundAssumption DEF Init
<1>2. buffer \in Seq(Rows \cup {Synthetic}) /\ Len(buffer) <= HistoryLen
  <2>1. buffer = <<>>
    BY DEF Init
  <2>2. QED
    BY <2>1, NothingSeen, BoundAssumption
<1>3. QED
  BY <1>1, <1>2, NothingSeen DEF Init, LoopTypes

\* A call that fails is counted up to the bound.
LEMMA FailureIsCounted ==
  ASSUME failures \in 0..MaxFailures, Fails \/ UNCHANGED failures
  PROVE  failures' \in 0..MaxFailures
BY BoundAssumption DEF Fails

\* _tick appends the live price and drops the oldest of a full history.
LEMMA TickKeepsHistory ==
  ASSUME LoopTypes, Payload
  PROVE  buffer' \in Seq(Rows \cup {Synthetic}) /\ Len(buffer') <= HistoryLen
<1> DEFINE longer == Append(buffer, price)
<1>1. longer \in Seq(Rows \cup {Synthetic}) /\ Len(longer) = Len(buffer) + 1
  BY AppendProperties DEF LoopTypes
<1>2. Len(buffer) \in Nat /\ HistoryLen \in Nat
  BY LenProperties, BoundAssumption DEF LoopTypes
<1>3. buffer' = IF Len(longer) > HistoryLen THEN Tail(longer) ELSE longer
  BY DEF Payload
<1>4. longer # <<>>
  BY <1>1, <1>2, EmptySeq
<1>5. Tail(longer) \in Seq(Rows \cup {Synthetic}) /\ Len(Tail(longer)) = Len(longer) - 1
  BY <1>1, <1>4, HeadTailProperties
<1> HIDE DEF longer
<1>6. QED
  BY <1>1, <1>2, <1>3, <1>5 DEF LoopTypes

\* _sync_price_state_from_db replaces the last price of the history.
LEMMA SyncKeepsHistory ==
  ASSUME LoopTypes, NEW v \in Rows
  PROVE  /\ [buffer EXCEPT ![Len(buffer)] = v] \in Seq(Rows \cup {Synthetic})
         /\ Len([buffer EXCEPT ![Len(buffer)] = v]) = Len(buffer)
<1> DEFINE n == Len(buffer)
<1>1. n \in Nat /\ buffer \in [1 .. n -> Rows \cup {Synthetic}]
  BY LenProperties DEF LoopTypes
<1>2. CASE n \in 1 .. n
  BY <1>2, ExceptSeq DEF LoopTypes
<1>3. CASE n \notin 1 .. n
  <2>1. [buffer EXCEPT ![n] = v] = buffer
    BY <1>1, <1>3
  <2>2. QED
    BY <2>1 DEF LoopTypes
<1>4. QED
  BY <1>2, <1>3

LEMMA LoopTypesStep ==
  ASSUME IInv, LoopTypes, [Next]_vars
  PROVE  LoopTypes'
<1> USE DEF loop, threads
<1>1. CASE CreateAndSeed
  BY <1>1, FailureIsCounted DEF CreateAndSeed, LoopTypes
<1>2. CASE InitPriceHistory
  <2>1. <<Synthetic>> \in Seq(Rows \cup {Synthetic}) /\ Len(<<Synthetic>>) = 1
    OBVIOUS
  <2>2. QED
    BY <1>2, <2>1, BoundAssumption DEF InitPriceHistory, LoopTypes
<1>3. CASE FetchAtStart
  BY <1>3, FailureIsCounted DEF FetchAtStart, LoopTypes
<1>4. CASE SyncPriceState
  <2>1. PICK latest \in Rows \cup {Nil} :
          /\ Reading(latest)
          /\ price' = IF latest = Nil THEN price ELSE latest
          /\ buffer' = IF latest = Nil THEN buffer ELSE [buffer EXCEPT ![Len(buffer)] = latest]
    BY <1>4 DEF SyncPriceState
  <2>2. failures' \in 0..MaxFailures
    BY <2>1, FailureIsCounted DEF Reading, LoopTypes
  <2>3. /\ price' \in Rows \cup {Synthetic}
        /\ buffer' \in Seq(Rows \cup {Synthetic}) /\ Len(buffer') <= HistoryLen
    <3>1. CASE latest = Nil
      BY <2>1, <3>1 DEF LoopTypes
    <3>2. CASE latest # Nil
      <4>1. /\ [buffer EXCEPT ![Len(buffer)] = latest] \in Seq(Rows \cup {Synthetic})
            /\ Len([buffer EXCEPT ![Len(buffer)] = latest]) = Len(buffer)
        BY <3>2, SyncKeepsHistory
      <4>2. QED
        BY <2>1, <3>2, <4>1 DEF LoopTypes
    <3>3. QED
      BY <3>1, <3>2
  <2>4. QED
    BY <1>4, <2>2, <2>3 DEF SyncPriceState, LoopTypes
<1>5. CASE Payload
  <2>1. PICK frame \in Rows \cup {Nil} :
          /\ (Fresh /\ UNCHANGED failures) \/ Reading(frame)
          /\ seen' = [frame |-> frame, live |-> price]
    BY <1>5 DEF Payload
  <2>2. failures' \in 0..MaxFailures
    BY <2>1, FailureIsCounted DEF Reading, LoopTypes
  <2>3. QED
    BY <1>5, <2>1, <2>2, TickKeepsHistory DEF Payload, LoopTypes
<1>6. CASE Shutdown \/ Restart
  <2>1. CASE Shutdown
    BY <1>6, <2>1 DEF Shutdown, LoopTypes
  <2>2. CASE Restart
    <3>1. failures' \in 0..MaxFailures /\ starts' \in 1..MaxStarts
      BY <2>2, BoundAssumption DEF Restart, LoopTypes
    <3>2. buffer' \in Seq(Rows \cup {Synthetic}) /\ Len(buffer') <= HistoryLen
      <4>1. buffer' = <<>>
        BY <2>2 DEF Restart
      <4>2. QED
        BY <4>1, NothingSeen, BoundAssumption
    <3>3. QED
      BY <2>2, <3>1, <3>2, NothingSeen DEF Restart, LoopTypes
  <2>3. QED
    BY <1>6, <2>1, <2>2
<1>7. ASSUME NEW a \in Agents, NEW tool \in {"quant", "backtest"}, AskFrame(a, tool)
      PROVE  LoopTypes'
  <2>1. Fails \/ UNCHANGED failures
    BY <1>7 DEF AskFrame
  <2>2. failures' \in 0..MaxFailures
    BY <2>1, FailureIsCounted DEF LoopTypes
  <2>3. UNCHANGED <<loop, archive, collector, starts>>
    BY <1>7 DEF AskFrame
  <2>4. QED
    BY <2>2, <2>3 DEF LoopTypes
<1>8. ASSUME NEW a \in Agents, BacktestArchive(a) \/ StoreFrame(a) PROVE LoopTypes'
  BY <1>8 DEF BacktestArchive, StoreFrame, LoopTypes
<1>9. ASSUME NEW a \in Agents, Query(a) PROVE LoopTypes'
  BY <1>9, FailureIsCounted DEF Query, Reading, LoopTypes
<1>10. CASE FetchThread
  BY <1>10, FailureIsCounted DEF FetchThread, LoopTypes
<1>11. CASE StartCycle \/ InvalidateCache \/ CancelCycle \/ BackfillArchive \/ Second \/ UNCHANGED vars
  BY <1>11 DEF StartCycle, InvalidateCache, CancelCycle, BackfillArchive, Second, vars, LoopTypes
<1>12. QED
  BY <1>1, <1>2, <1>3, <1>4, <1>5, <1>6, <1>7, <1>8, <1>9, <1>10, <1>11 DEF Next, Boot, ToolStep

\* The variables of the server keep their types: the price history never outgrows
\* _HISTORY_LEN, whatever the starts, ticks and synchronisations.
THEOREM ServerTypes == Spec => []TypeOK
<1>1. IInv /\ LoopTypes => TypeOK
  BY DEF IInv, FrameTypes, LoopTypes, TypeOK
<1>2. IInv /\ LoopTypes /\ [Next]_vars => LoopTypes'
  BY LoopTypesStep
<1>3. QED
  BY LoopTypesAtStart, FramesInduct, <1>1, <1>2, PTL DEF Spec
=============================================================================
