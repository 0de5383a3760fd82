---------------------------- MODULE ClientProofs ----------------------------
(***************************************************************************)
(* What the clients of both servers rely on.  The intelligence stream:     *)
(* however many clients come and go, and whatever the threads and the      *)
(* services do, the server counts the open streams and its collector       *)
(* exists exactly while one is open; however many components of a page     *)
(* share the EventSource, the page is connected or waiting for a retry     *)
(* exactly while a component is mounted.  The macro agent: for any number  *)
(* of ingestion runs, dropped connections, calls and sessions and any      *)
(* length of the contexts, both stores answer with the snapshot ingested   *)
(* last, a dropped connection costs at most one save, and what a call is   *)
(* told of earlier turns is its own session's, and of the latest.          *)
(***************************************************************************)
EXTENDS LiveCollector, StreamClient, AgentSessions, FiniteSetTheorems, SequenceTheorems, TLAPS

-----------------------------------------------------------------------------
(* The server of the stream (LiveCollector) *)

\* What the induction carries beside the property: the open streams are clients,
\* and the collector is in one of its states.
Connected ==
  /\ open \subseteq Clients
  /\ collector \in {"none", "due", "waiting", "resting"}
  /\ CollectorFollowsClients

\* Any set of open streams is finite and has a cardinality.
LEMMA OpenIsFinite ==
  ASSUME Connected
  PROVE  IsFiniteSet(open) /\ Cardinality(open) \in Nat
<1>1. IsFiniteSet(open)
  BY ClientAssumption, FS_Subset DEF Connected
<1>2. QED
  BY <1>1, FS_CardinalityType

\* The process starts with no client and no collector.
LEMMA InitConnected == Init => Connected
  BY FS_EmptySet DEF Init, Connected, CollectorFollowsClients

\* intelligence_stream counts the client and creates the collector it misses.
LEMMA OpenStep ==
  ASSUME Connected, NEW c \in Clients, Open(c)
  PROVE  Connected'
<1>1. Cardinality(open') = Cardinality(open) + 1
  BY OpenIsFinite, FS_AddElement DEF Open
<1>2. count' = Cardinality(open')
  BY <1>1 DEF Open, Connected, CollectorFollowsClients
<1>3. collector' # "none" /\ open' # {} /\ open' \subseteq Clients
  BY DEF Open, Connected
<1>4. worker' # NoThread <=> collector' = "waiting"
  BY DEF Open, Connected, CollectorFollowsClients
<1>5. QED
  BY <1>2, <1>3, <1>4 DEF Open, Connected, CollectorFollowsClients

\* _on_sse_disconnect cancels the collector when it counts the last stream out.
LEMMA CloseStep ==
  ASSUME Connected, NEW c \in Clients, Close(c)
  PROVE  Connected'
<1>1. Cardinality(open') = Cardinality(open) - 1 /\ IsFiniteSet(open')
  BY OpenIsFinite, FS_RemoveElement DEF Close
<1>2. Cardinality(open) > 0
  BY OpenIsFinite, FS_EmptySet DEF Close
<1>3. count' = Cardinality(open')
  BY <1>1, <1>2, OpenIsFinite DEF Close, Connected, CollectorFollowsClients
<1>4. count' = 0 <=> open' = {}
  BY <1>1, <1>3, FS_EmptySet
<1>5. CASE count' = 0
  BY <1>3, <1>4, <1>5 DEF Close, Connected, CollectorFollowsClients
<1>6. CASE count' # 0
  <2>1. open # {} /\ UNCHANGED <<collector, worker>>
    BY <1>6 DEF Close
  <2>2. QED
    BY <1>3, <1>4, <1>6, <2>1 DEF Close, Connected, CollectorFollowsClients
<1>7. QED
  BY <1>5, <1>6

\* A thread step moves the collector at most from waiting to resting.
LEMMA ThreadStepKeeps ==
  ASSUME Connected, NEW t \in Threads, ThreadStep(t)
  PROVE  Connected'
<1>1. CASE Deliver(t)
  <2>1. CASE worker = t
    BY <1>1, <2>1, ThreadAssumption DEF Deliver, Connected, CollectorFollowsClients
  <2>2. CASE worker # t
    BY <1>1, <2>2 DEF Deliver, task, Connected, CollectorFollowsClients
  <2>3. QED
    BY <2>1, <2>2
<1>2. CASE Download(t) \/ StartDelete(t) \/ FinishDelete(t) \/ CopyCommit(t) \/ Raise(t)
  BY <1>2 DEF Download, StartDelete, FinishDelete, CopyCommit, Raise, task,
              Connected, CollectorFollowsClients
<1>3. QED
  BY <1>1, <1>2 DEF ThreadStep

\* Every step of the module keeps the collector with its clients.
LEMMA StepConnected ==
  ASSUME Connected, [Next]_vars
  PROVE  Connected'
<1>1. ASSUME NEW c \in Clients, Open(c) \/ Close(c) PROVE Connected'
  BY <1>1, OpenStep, CloseStep
<1>2. ASSUME NEW t \in Threads, Submit(t) PROVE Connected'
  BY <1>2, ThreadAssumption DEF Submit, Connected, CollectorFollowsClients
<1>3. ASSUME NEW t \in Threads, ThreadStep(t) PROVE Connected'
  BY <1>3, ThreadStepKeeps
<1>4. CASE Rest
  BY <1>4 DEF Rest, Connected, CollectorFollowsClients
<1>5. CASE Outage \/ NextDay \/ UNCHANGED vars
  BY <1>5 DEF Outage, NextDay, vars, task, Connected, CollectorFollowsClients
<1>6. QED
  BY <1>1, <1>2, <1>3, <1>4, <1>5 DEF Next

\* "Single shared background task -- started on first SSE connect, cancelled on last
\* disconnect": for any number of clients and executor threads.
THEOREM CollectorLifecycle == Spec => []CollectorFollowsClients
<1>1. Connected /\ [Next]_vars => Connected'
  BY StepConnected
<1>2. Connected => CollectorFollowsClients
  BY DEF Connected
<1>3. QED
  BY InitConnected, <1>1, <1>2, PTL DEF Spec

\* A DELETE saw no more rows of a day than still stand or it has deleted, so that what
\* is left of the day when it commits is a number of rows.
SeenStands == \A t \in Threads : \A d \in Days : seen[t][d] <= table[d]

\* The variables of a thread and of the table.
RowTypes ==
  /\ pc \in [Threads -> {"free", "download", "delete", "blocked", "copy", "ok", "raised"}]
  /\ fetched \in [Threads -> SUBSET Days]
  /\ seen \in [Threads -> Rows] /\ table \in Rows /\ today \in Days

\* The variables of the event loop.
LoopTypes ==
  /\ worker \in Threads \cup {NoThread}
  /\ failed \in 0 .. AlertAfter + 1 /\ reported \in BOOLEAN
  /\ sourceUp \in BOOLEAN /\ dbUp \in BOOLEAN

LEMMA LoopStep ==
  ASSUME LoopTypes, [Next]_vars
  PROVE  LoopTypes'
<1>1. ASSUME NEW c \in Clients, Open(c) \/ Close(c) PROVE LoopTypes'
  <2>1. worker' \in Threads \cup {NoThread} /\ UNCHANGED <<sourceUp, dbUp>>
    BY <1>1 DEF Open, Close, LoopTypes, services
  <2>2. failed' \in 0 .. AlertAfter + 1
    <3>1. failed' = 0 \/ failed' = failed
      BY <1>1 DEF Open, Close
    <3>2. QED
      BY <3>1 DEF LoopTypes, AlertAfter
  <2>3. reported' \in BOOLEAN
    <3>1. reported' = FALSE \/ reported' = reported
      BY <1>1 DEF Open, Close
    <3>2. QED
      BY <3>1 DEF LoopTypes
  <2>4. QED
    BY <2>1, <2>2, <2>3 DEF LoopTypes
<1>2. ASSUME NEW t \in Threads, Submit(t) PROVE LoopTypes'
  BY <1>2 DEF Submit, LoopTypes, services
<1>3. ASSUME NEW t \in Threads, Deliver(t) PROVE LoopTypes'
  <2>1. worker' \in Threads \cup {NoThread} /\ UNCHANGED <<sourceUp, dbUp>>
    BY <1>3 DEF Deliver, LoopTypes, services, task
  <2>2. failed' \in 0 .. AlertAfter + 1
    BY <1>3 DEF Deliver, LoopTypes, task, AlertAfter
  <2>3. reported' \in BOOLEAN
    BY <1>3, Zenon DEF Deliver, LoopTypes, task
  <2>4. QED
    BY <2>1, <2>2, <2>3 DEF LoopTypes
<1>4. ASSUME NEW t \in Threads,
             Download(t) \/ StartDelete(t) \/ FinishDelete(t) \/ CopyCommit(t) \/ Raise(t)
      PROVE  LoopTypes'
  BY <1>4 DEF Download, StartDelete, FinishDelete, CopyCommit, Raise, task, services, LoopTypes
<1>5. CASE Rest \/ NextDay \/ UNCHANGED vars
  BY <1>5 DEF Rest, NextDay, vars, task, services, LoopTypes
<1>6. CASE Outage
  BY <1>6 DEF Outage, task, LoopTypes
<1>7. QED
  BY <1>1, <1>2, <1>3, <1>4, <1>5, <1>6 DEF Next, ThreadStep

\* A COPY adds rows up to the bound.
LEMMA CopiedAreRows ==
  ASSUME NEW rows \in Rows, NEW days
  PROVE  Copied(rows, days) \in Rows /\ \A d \in Days : rows[d] <= Copied(rows, days)[d]
BY WindowAssumption DEF Copied, Rows

LEMMA CommitStep ==
  ASSUME RowTypes, SeenStands, NEW t \in Threads, CopyCommit(t)
  PROVE  RowTypes' /\ SeenStands'
<1> DEFINE left == [d \in Days |-> table[d] - seen[t][d]]
<1>1. \A u \in Threads : \A d \in Days : seen[u][d] \in Nat /\ table[d] \in 0 .. MaxCopies
                                        /\ seen[u][d] <= table[d] /\ seen[u][d] <= MaxCopies
  BY WindowAssumption DEF RowTypes, SeenStands, Rows
<1>2. left \in Rows
  BY <1>1, WindowAssumption DEF Rows
<1>3. table' = Copied(left, fetched[t])
  BY DEF CopyCommit
<1>4. table' \in Rows /\ \A d \in Days : left[d] <= table'[d] /\ table'[d] \in Nat
  <2> HIDE DEF left
  <2>1. table' \in Rows /\ \A d \in Days : left[d] <= table'[d]
    BY <1>2, <1>3, CopiedAreRows
  <2>2. QED
    BY <2>1, WindowAssumption DEF Rows
<1>5. seen' = [u \in Threads |-> [d \in Days |->
        IF u = t \/ seen[u][d] <= seen[t][d] THEN 0 ELSE seen[u][d] - seen[t][d]]]
  BY DEF CopyCommit, EndTransaction
<1>6. ASSUME NEW u \in Threads, NEW d \in Days
      PROVE  seen'[u][d] \in 0 .. MaxCopies /\ seen'[u][d] <= table'[d]
  <2>1. seen'[u][d] = IF u = t \/ seen[u][d] <= seen[t][d] THEN 0 ELSE seen[u][d] - seen[t][d]
    BY <1>5
  <2>2. left[d] = table[d] - seen[t][d] /\ left[d] <= table'[d] /\ table'[d] \in Nat
    BY <1>4
  <2>3. /\ seen[u][d] \in Nat /\ seen[t][d] \in Nat /\ table[d] \in Nat /\ MaxCopies \in Nat
        /\ seen[u][d] <= table[d] /\ seen[t][d] <= table[d] /\ seen[u][d] <= MaxCopies
    BY <1>1, WindowAssumption
  <2> HIDE DEF left
  <2>4. QED
    BY <2>1, <2>2, <2>3
<1>7. seen' \in [Threads -> Rows]
  BY <1>5, <1>6 DEF Rows
<1>8. pc' \in [Threads -> {"free", "download", "delete", "blocked", "copy", "ok", "raised"}]
      /\ fetched' \in [Threads -> SUBSET Days] /\ today' \in Days
  BY DEF CopyCommit, EndTransaction, Goto, RowTypes
<1>9. QED
  BY <1>4, <1>6, <1>7, <1>8 DEF RowTypes, SeenStands

\* A transaction that fails has deleted nothing.
LEMMA RaiseStep ==
  ASSUME RowTypes, SeenStands, NEW t \in Threads, Raise(t)
  PROVE  RowTypes' /\ SeenStands'
<1>1. seen' = [u \in Threads |-> [d \in Days |->
        IF u = t \/ seen[u][d] <= 0 THEN 0 ELSE seen[u][d] - 0]]
  BY DEF Raise, EndTransaction, NoRows
<1>2. ASSUME NEW u \in Threads, NEW d \in Days
      PROVE  seen'[u][d] \in 0 .. MaxCopies /\ seen'[u][d] <= table[d]
  <2>1. /\ seen[u][d] \in 0 .. MaxCopies /\ table[d] \in 0 .. MaxCopies
        /\ seen[u][d] <= table[d] /\ MaxCopies \in Nat
    BY WindowAssumption DEF RowTypes, SeenStands, Rows
  <2>2. QED
    BY <1>1, <2>1
<1>3. seen' \in [Threads -> Rows]
  BY <1>1, <1>2 DEF Rows
<1>4. /\ pc' \in [Threads -> {"free", "download", "delete", "blocked", "copy", "ok", "raised"}]
      /\ fetched' \in [Threads -> SUBSET Days] /\ today' \in Days /\ table' = table
  BY DEF Raise, EndTransaction, Goto, RowTypes
<1>5. QED
  BY <1>2, <1>3, <1>4 DEF RowTypes, SeenStands

\* The other steps of a thread leave the table alone; a DELETE that starts sees at most
\* what stands there.
LEMMA FetchStep ==
  ASSUME RowTypes, SeenStands, NEW t \in Threads,
         Download(t) \/ StartDelete(t) \/ FinishDelete(t) \/ Deliver(t) \/ Submit(t)
  PROVE  RowTypes' /\ SeenStands'
<1>1. CASE Download(t)
  <2>1. CurrentWindow \subseteq Days /\ LatestStored \subseteq Days
    BY DEF CurrentWindow, LatestStored
  <2>2. QED
    BY <1>1, <2>1 DEF Download, Goto, RowTypes, SeenStands
<1>2. CASE StartDelete(t)
  <2> DEFINE found == [d \in Days |-> IF \E e \in fetched[t] : d >= e THEN table[d] ELSE 0]
  <2>1. seen' = [seen EXCEPT ![t] = found] /\ table' = table
    BY <1>2 DEF StartDelete
  <2>2. \A d \in Days : table[d] \in Nat /\ table[d] <= MaxCopies
    BY WindowAssumption DEF RowTypes, Rows
  <2>3. found \in Rows /\ \A d \in Days : found[d] <= table[d]
    BY <2>2, WindowAssumption DEF Rows
  <2> HIDE DEF found
  <2>4. seen' \in [Threads -> Rows] /\ SeenStands'
    BY <2>1, <2>3 DEF RowTypes, SeenStands
  <2>5. QED
    BY <1>2, <2>4 DEF StartDelete, Goto, RowTypes
<1>3. CASE FinishDelete(t)
  BY <1>3 DEF FinishDelete, Goto, RowTypes, SeenStands
<1>4. CASE Deliver(t) \/ Submit(t)
  BY <1>4 DEF Deliver, Submit, Goto, RowTypes, SeenStands
<1>5. QED
  BY <1>1, <1>2, <1>3, <1>4

LEMMA RowStep ==
  ASSUME RowTypes, SeenStands, [Next]_vars
  PROVE  RowTypes' /\ SeenStands'
<1>1. ASSUME NEW t \in Threads, Submit(t) \/ ThreadStep(t) PROVE RowTypes' /\ SeenStands'
  BY <1>1, CommitStep, RaiseStep, FetchStep DEF ThreadStep
<1>2. CASE UNCHANGED <<thread, table, today>>
  BY <1>2 DEF thread, RowTypes, SeenStands
<1>3. CASE NextDay
  BY <1>3, WindowAssumption DEF NextDay, thread, RowTypes, SeenStands, Days
<1>4. QED
  BY <1>1, <1>2, <1>3 DEF Next, Open, Close, Rest, Outage, vars

\* Counting the rows of a day in the order of their commits is sound for any threads,
\* days and window: what a DELETE of fetch_live_market_data still sees is there to be
\* deleted, whatever other threads committed since it started.
THEOREM CollectorTypes == Spec => [](TypeOK /\ SeenStands)
<1> DEFINE I == Connected /\ LoopTypes /\ RowTypes /\ SeenStands
<1>1. Init => I
  <2> SUFFICES ASSUME Init PROVE I
    OBVIOUS
  <2>1. LoopTypes /\ pc \in [Threads -> {"free", "download", "delete", "blocked", "copy", "ok", "raised"}]
        /\ fetched \in [Threads -> SUBSET Days]
    <3>1. worker = NoThread /\ failed = 0 /\ reported = FALSE /\ sourceUp = TRUE /\ dbUp = TRUE
      BY DEF Init
    <3>2. LoopTypes
      <4>1. failed \in 0 .. AlertAfter + 1
        BY <3>1 DEF AlertAfter
      <4>2. QED
        BY <3>1, <4>1, Zenon DEF LoopTypes
    <3>3. pc = [t \in Threads |-> "free"] /\ fetched = [t \in Threads |-> {}]
      BY DEF Init
    <3>4. QED
      BY <3>2, <3>3
  <2>2. NoRows \in Rows /\ table \in Rows /\ today \in Days
    <3>1. 0 \in 0 .. MaxCopies /\ 1 \in 0 .. MaxCopies /\ Window \in Days
      BY WindowAssumption DEF Days
    <3>2. NoRows \in Rows
      BY <3>1 DEF NoRows, Rows
    <3>3. table \in Rows
      <4>1. table = [d \in Days |-> IF d <= Window THEN 1 ELSE 0]
        BY DEF Init
      <4>2. QED
        BY <3>1, <4>1 DEF Rows
    <3>4. today \in Days
      BY <3>1 DEF Init
    <3>5. QED
      BY <3>2, <3>3, <3>4
  <2>3. seen = [t \in Threads |-> NoRows] /\ \A d \in Days : NoRows[d] <= table[d]
    <3>1. seen = [t \in Threads |-> NoRows]
      BY DEF Init
    <3>2. \A d \in Days : NoRows[d] = 0 /\ table[d] \in Nat
      BY <2>2, WindowAssumption DEF NoRows, Rows
    <3>3. QED
      BY <3>1, <3>2
  <2>4. RowTypes
    BY <2>1, <2>2, <2>3 DEF RowTypes
  <2>5. SeenStands
    BY <2>3 DEF SeenStands
  <2>6. Connected
    BY InitConnected
  <2>7. QED
    BY <2>1, <2>4, <2>5, <2>6
<1>2. I /\ [Next]_vars => I'
  BY StepConnected, LoopStep, RowStep
<1>3. I => TypeOK /\ SeenStands
  <2> SUFFICES ASSUME I PROVE TypeOK
    OBVIOUS
  <2>1. count \in 0 .. Cardinality(Clients)
    <3>1. Cardinality(open) \in Nat /\ Cardinality(Clients) \in Nat
          /\ Cardinality(open) <= Cardinality(Clients)
      BY ClientAssumption, FS_Subset, FS_CardinalityType, OpenIsFinite DEF Connected
    <3>2. QED
      BY <3>1 DEF Connected, CollectorFollowsClients
  <2>2. QED
    BY <2>1 DEF TypeOK, Connected, LoopTypes, RowTypes
<1>4. QED
  BY <1>1, <1>2, <1>3, PTL DEF Spec

-----------------------------------------------------------------------------
(* The page *)

\* Notifying any listeners keeps the statuses well-typed.
LEMMA NotifyType ==
  ASSUME PageTypeOK, NEW ls, NEW status \in Statuses, Notify(ls, status)
  PROVE  lastStatus' \in Statuses /\ shown' \in [Hooks -> Statuses]
BY DEF Notify, PageTypeOK

\* _connect leaves an EventSource open, and its statuses are well-typed.
LEMMA ConnectFacts ==
  ASSUME PageTypeOK, NEW ls, Connect(ls)
  PROVE  es' = TRUE /\ lastStatus' \in Statuses /\ shown' \in [Hooks -> Statuses]
<1>1. CASE es
  BY <1>1 DEF Connect, PageTypeOK
<1>2. CASE ~es
  <2>1. es' = TRUE /\ Notify(ls, "CONNECTING")
    BY <1>2 DEF Connect
  <2>2. "CONNECTING" \in Statuses
    BY DEF Statuses
  <2>3. QED
    BY <2>1, <2>2, NotifyType
<1>3. QED
  BY <1>1, <1>2 DEF PageTypeOK

\* _scheduleRetry leaves a retry due, and its results are well-typed.
LEMMA ScheduleRetryFacts ==
  ASSUME PageTypeOK, ScheduleRetry
  PROVE  /\ retryTimer' = TRUE /\ retryCount' \in 0 .. MaxRetryCount
         /\ lastStatus' \in Statuses /\ shown' \in [Hooks -> Statuses]
<1>1. CASE retryTimer
  BY <1>1 DEF ScheduleRetry, PageTypeOK
<1>2. CASE ~retryTimer
  <2>1. retryTimer' = TRUE /\ Notify(Listeners, "ERROR")
    BY <1>2 DEF ScheduleRetry
  <2>2. retryCount' \in 0 .. MaxRetryCount
    BY <1>2 DEF ScheduleRetry, PageTypeOK, MaxRetryCount
  <2>3. "ERROR" \in Statuses
    BY DEF Statuses
  <2>4. QED
    BY <2>1, <2>2, <2>3, NotifyType
<1>3. QED
  BY <1>1, <1>2 DEF PageTypeOK

-----------------------------------------------------------------------------
\* Every variable keeps its type: the retry counter, which the back-off shifts
\* by, stays at its cap however long an outage lasts (_scheduleRetry).
THEOREM PageTypeCorrect == PageSpec => []PageTypeOK
<1>1. PageInit => PageTypeOK
  <2> SUFFICES ASSUME PageInit PROVE PageTypeOK
    OBVIOUS
  <2>1. retryCount \in 0 .. MaxRetryCount /\ outages \in 0 .. MaxOutages
    BY OutageAssumption DEF PageInit, MaxRetryCount
  <2>2. QED
    BY <2>1 DEF PageInit, PageTypeOK, Statuses
<1>2. PageTypeOK /\ [PageNext]_pageVars => PageTypeOK'
  <2> SUFFICES ASSUME PageTypeOK, [PageNext]_pageVars PROVE PageTypeOK'
    OBVIOUS
  <2>1. ASSUME NEW h \in Hooks, Render(h) PROVE PageTypeOK'
    BY <2>1 DEF Render, PageTypeOK
  <2>2. ASSUME NEW h \in Hooks, Mount(h) PROVE PageTypeOK'
    BY <2>2, ConnectFacts DEF Mount, PageTypeOK
  <2>3. ASSUME NEW h \in Hooks, Unmount(h) PROVE PageTypeOK'
    BY <2>3 DEF Unmount, Disconnect, PageTypeOK, Statuses
  <2>4. ASSUME Frame PROVE PageTypeOK'
    <3>1. lastStatus' \in Statuses /\ shown' \in [Hooks -> Statuses]
      BY <2>4, NotifyType DEF Frame, Statuses
    <3>2. QED
      BY <2>4, <3>1 DEF Frame, PageTypeOK, MaxRetryCount
  <2>5. ASSUME OnError PROVE PageTypeOK'
    BY <2>5, ScheduleRetryFacts DEF OnError, PageTypeOK
  <2>6. ASSUME TimerFires PROVE PageTypeOK'
    BY <2>6, ConnectFacts DEF TimerFires, PageTypeOK
  <2>7. ASSUME TabHidden PROVE PageTypeOK'
    BY <2>7 DEF TabHidden, PageTypeOK
  <2>8. ASSUME TabVisible PROVE PageTypeOK'
    <3>1. CASE Listeners # {} /\ ~es /\ ~retryTimer
      <4>1. retryCount' \in 0 .. MaxRetryCount
        BY <2>8, <3>1 DEF TabVisible, MaxRetryCount
      <4>2. QED
        BY <2>8, <3>1, <4>1, ConnectFacts DEF TabVisible, PageTypeOK
    <3>2. CASE ~(Listeners # {} /\ ~es /\ ~retryTimer)
      BY <2>8, <3>2 DEF TabVisible, PageTypeOK
    <3>3. QED
      BY <3>1, <3>2
  <2>9. ASSUME ServerFails PROVE PageTypeOK'
    <3>1. outages' \in 0 .. MaxOutages
      BY <2>9, OutageAssumption DEF ServerFails, PageTypeOK
    <3>2. QED
      BY <2>9, <3>1 DEF ServerFails, PageTypeOK
  <2>10. ASSUME ServerRecovers PROVE PageTypeOK'
    BY <2>10 DEF ServerRecovers, PageTypeOK
  <2>11. ASSUME UNCHANGED pageVars PROVE PageTypeOK'
    BY <2>11 DEF pageVars, PageTypeOK
  <2>12. QED
    BY <2>1, <2>2, <2>3, <2>4, <2>5, <2>6, <2>7, <2>8, <2>9, <2>10, <2>11 DEF PageNext
<1>3. QED
  BY <1>1, <1>2, PTL DEF PageSpec

-----------------------------------------------------------------------------
\* Steps that leave the components, the EventSource and the timer alone.
LEMMA NothingMoves ==
  ASSUME ConnectedOrWaiting, UNCHANGED <<phase, es, retryTimer>>
  PROVE  ConnectedOrWaiting'
BY DEF ConnectedOrWaiting, Listeners

\* An effect adds its listener and finds or opens the EventSource.
LEMMA MountStep ==
  ASSUME PageTypeOK, NEW h \in Hooks, Mount(h)
  PROVE  ConnectedOrWaiting'
<1>1. es' = TRUE
  BY ConnectFacts DEF Mount
<1>2. h \in Listeners'
  BY DEF Mount, Listeners, PageTypeOK
<1>3. QED
  BY <1>1, <1>2 DEF ConnectedOrWaiting

\* The last clean-up closes the EventSource and clears the timer; the others
\* leave a listener behind.
LEMMA UnmountStep ==
  ASSUME PageTypeOK, ConnectedOrWaiting, NEW h \in Hooks, Unmount(h)
  PROVE  ConnectedOrWaiting'
<1>1. Listeners' = Listeners \ {h} /\ h \in Listeners
  BY DEF Unmount, Listeners, PageTypeOK
<1>2. CASE Listeners = {h}
  <2>1. Listeners' = {} /\ es' = FALSE /\ retryTimer' = FALSE
    BY <1>1, <1>2 DEF Unmount, Disconnect
  <2>2. QED
    BY <2>1 DEF ConnectedOrWaiting
<1>3. CASE Listeners # {h}
  <2>1. Listeners' # {} /\ es' = es /\ retryTimer' = retryTimer
    BY <1>1, <1>3 DEF Unmount
  <2>2. QED
    BY <1>1, <2>1 DEF ConnectedOrWaiting
<1>4. QED
  BY <1>2, <1>3

\* An error trades the EventSource for a retry, a retry for an EventSource: the
\* page is never without both while somebody listens.
LEMMA ExchangeStep ==
  ASSUME PageTypeOK, ConnectedOrWaiting, OnError \/ TimerFires
  PROVE  ConnectedOrWaiting'
<1>1. Listeners # {} /\ Listeners' = Listeners
  BY DEF OnError, TimerFires, ConnectedOrWaiting, Listeners
<1>2. es' \/ retryTimer'
  BY ScheduleRetryFacts, ConnectFacts DEF OnError, TimerFires
<1>3. QED
  BY <1>1, <1>2 DEF ConnectedOrWaiting

\* A tab that is shown again connects only if somebody listens.
LEMMA TabVisibleStep ==
  ASSUME PageTypeOK, ConnectedOrWaiting, TabVisible
  PROVE  ConnectedOrWaiting'
<1>1. Listeners' = Listeners
  BY DEF TabVisible, Listeners
<1>2. CASE Listeners # {} /\ ~es /\ ~retryTimer
  BY <1>1, <1>2, ConnectFacts DEF TabVisible, ConnectedOrWaiting
<1>3. CASE ~(Listeners # {} /\ ~es /\ ~retryTimer)
  <2>1. UNCHANGED <<phase, es, retryTimer>>
    BY <1>3 DEF TabVisible
  <2>2. QED
    BY <2>1, NothingMoves
<1>4. QED
  BY <1>2, <1>3

\* While a component is mounted the page is connected or a retry is due, and
\* once none is, neither is left behind (_connect, _disconnect, _scheduleRetry
\* and the effect of useAlephStream).
THEOREM PageIsConnectedOrWaiting == PageSpec => []ConnectedOrWaiting
<1>1. PageInit => ConnectedOrWaiting
  BY DEF PageInit, ConnectedOrWaiting, Listeners
<1>2. PageTypeOK /\ ConnectedOrWaiting /\ [PageNext]_pageVars => ConnectedOrWaiting'
  <2> SUFFICES ASSUME PageTypeOK, ConnectedOrWaiting, [PageNext]_pageVars PROVE ConnectedOrWaiting'
    OBVIOUS
  <2>1. ASSUME NEW h \in Hooks, Render(h) PROVE ConnectedOrWaiting'
    <3>1. Listeners' = Listeners
      BY <2>1 DEF Render, Listeners, PageTypeOK
    <3>2. QED
      BY <2>1, <3>1 DEF Render, ConnectedOrWaiting
  <2>2. ASSUME NEW h \in Hooks, Mount(h) PROVE ConnectedOrWaiting'
    BY <2>2, MountStep
  <2>3. ASSUME NEW h \in Hooks, Unmount(h) PROVE ConnectedOrWaiting'
    BY <2>3, UnmountStep
  <2>4. CASE OnError \/ TimerFires
    BY <2>4, ExchangeStep
  <2>5. CASE TabVisible
    BY <2>5, TabVisibleStep
  <2>6. CASE Frame \/ TabHidden \/ ServerFails \/ ServerRecovers \/ UNCHANGED pageVars
    BY <2>6, NothingMoves DEF Frame, TabHidden, ServerFails, ServerRecovers, pageVars
  <2>7. QED
    BY <2>1, <2>2, <2>3, <2>4, <2>5, <2>6 DEF PageNext
<1>3. QED
  BY <1>1, <1>2, PageTypeCorrect, PTL DEF PageSpec

-----------------------------------------------------------------------------
(* Ingestion (MacroIngestion) *)

\* A list of snapshots, whatever their features.
AreSnapshots(list) == \E F : list \in Seq([features : F, at : Nat])

\* Snapshots are dated by the clock as they are appended, so their dates ascend.
SnapshotsAscend ==
  /\ now \in Nat
  /\ \A n \in 1 .. Len(snapshots) : snapshots[n].at <= now
  /\ \A m, n \in 1 .. Len(snapshots) : m <= n => snapshots[m].at <= snapshots[n].at

\* A connection that was dropped has cost no save yet; the save it costs closes it.
DropsAreCounted ==
  /\ lost \in {0, 1} /\ conn \in {"none", "open", "dropped", "closed"}
  /\ lost = 1 => conn # "dropped"

IngestionInv == AreSnapshots(snapshots) /\ SnapshotsAscend /\ DropsAreCounted

\* A run that saves appends a snapshot of now.
LEMMA AscendingGrows ==
  ASSUME AreSnapshots(snapshots), SnapshotsAscend, NEW f,
         snapshots' = Append(snapshots, [features |-> f, at |-> now]), now' = now
  PROVE  AreSnapshots(snapshots') /\ SnapshotsAscend'
<1>1. PICK F : snapshots \in Seq([features : F, at : Nat])
  BY DEF AreSnapshots
<1> DEFINE S == [features : F \cup {f}, at : Nat]
<1>2. snapshots \in Seq(S)
  <2>1. [features : F, at : Nat] \subseteq S
    OBVIOUS
  <2> HIDE DEF S
  <2>2. QED
    BY <1>1, <2>1, SeqMonotonic
<1>3. [features |-> f, at |-> now] \in S
  BY DEF SnapshotsAscend
<1>4. AreSnapshots(snapshots')
  <2>1. snapshots' \in Seq(S)
    BY <1>2, <1>3, AppendProperties
  <2>2. QED
    BY <2>1 DEF AreSnapshots
<1>5. /\ Len(snapshots) \in Nat /\ Len(snapshots') = Len(snapshots) + 1
      /\ \A n \in 1 .. Len(snapshots) : snapshots'[n] = snapshots[n]
      /\ snapshots'[Len(snapshots) + 1].at = now
  <2> HIDE DEF S
  <2>1. QED
    BY <1>2, <1>3, AppendProperties, LenProperties
<1>6. \A n \in 1 .. Len(snapshots') : snapshots'[n].at <= now
  BY <1>5 DEF SnapshotsAscend
<1>7. \A m, n \in 1 .. Len(snapshots') : m <= n => snapshots'[m].at <= snapshots'[n].at
  BY <1>5, <1>6 DEF SnapshotsAscend
<1>8. QED
  BY <1>4, <1>6, <1>7 DEF SnapshotsAscend

\* get_latest_snapshot of either store: the last one saved.
LEMMA LatestIsLast ==
  ASSUME AreSnapshots(snapshots), SnapshotsAscend, snapshots # <<>>
  PROVE  Len(snapshots) \in Nat \ {0} /\ Latest = snapshots[Len(snapshots)]
<1>1. PICK F : snapshots \in Seq([features : F, at : Nat])
  BY DEF AreSnapshots
<1>2. Len(snapshots) \in Nat \ {0} /\ DOMAIN snapshots = 1 .. Len(snapshots)
  BY <1>1, EmptySeq, LenProperties
<1>3. CASE store = "memory"
  BY <1>2, <1>3 DEF Latest, Last
<1>4. CASE store # "memory"
  <2> DEFINE newest == {n \in DOMAIN snapshots :
                          \A m \in DOMAIN snapshots : snapshots[m].at <= snapshots[n].at}
  <2>1. Len(snapshots) \in newest /\ newest \subseteq 1 .. Len(snapshots)
    BY <1>2 DEF SnapshotsAscend
  <2>2. Latest = snapshots[CHOOSE n \in newest : \A m \in newest : m <= n]
    BY <1>4 DEF Latest
  <2> HIDE DEF newest
  <2>3. \A n \in newest : (\A m \in newest : m <= n) <=> n = Len(snapshots)
    <3>1. \A n \in newest : n \in Nat /\ n <= Len(snapshots)
      BY <1>2, <2>1
    <3>2. ASSUME NEW n \in newest, \A m \in newest : m <= n PROVE n = Len(snapshots)
      <4>1. Len(snapshots) <= n
        BY <2>1, <3>2
      <4>2. QED
        BY <1>2, <3>1, <4>1
    <3>3. QED
      BY <3>1, <3>2
  <2>4. (CHOOSE n \in newest : \A m \in newest : m <= n) = Len(snapshots)
    BY <2>1, <2>3
  <2>5. QED
    BY <1>2, <2>2, <2>4
<1>5. QED
  BY <1>3, <1>4

\* Stores start empty, nothing has been lost.
LEMMA InitIngested == InitIngestion => IngestionInv
<1>1. <<>> \in Seq([features : {}, at : Nat]) /\ Len(<<>>) = 0
  BY EmptySeq
<1>2. QED
  BY <1>1 DEF InitIngestion, IngestionInv, AreSnapshots, SnapshotsAscend, DropsAreCounted

\* A run that ends saves what is dated now, over a connection that is open; or it
\* finds the connection dropped, and leaves it closed.
LEMMA FinishKeepsOrder ==
  ASSUME IngestionInv, NEW j \in Jobs, FinishRun(j)
  PROVE  IngestionInv'
<1> DEFINE features == FetchRaw(Provider, Indicators, feed)
<1>1. \/ UNCHANGED <<snapshots, conn, lost>>
      \/ /\ SaveFails /\ lost' = lost + 1 /\ conn' = "closed"
         /\ UNCHANGED snapshots
      \/ /\ lost' = 0 /\ conn' \in {conn, "open"}
         /\ snapshots' = Append(snapshots, [features |-> features, at |-> now])
  BY SMTT(30) DEF FinishRun, IngestedAt, SaveFails
<1>2. now' = now
  BY DEF FinishRun
<1> HIDE DEF features
<1>3. AreSnapshots(snapshots') /\ SnapshotsAscend'
  <2>1. CASE UNCHANGED snapshots
    BY <1>2, <2>1 DEF IngestionInv, SnapshotsAscend
  <2>2. CASE snapshots' = Append(snapshots, [features |-> features, at |-> now])
    BY <1>2, <2>2, AscendingGrows DEF IngestionInv
  <2>3. QED
    BY <1>1, <2>1, <2>2
<1>4. DropsAreCounted'
  BY <1>1 DEF IngestionInv, DropsAreCounted, SaveFails, Connection
<1>5. QED
  BY <1>3, <1>4 DEF IngestionInv

\* Every step of the ingestion, or of the agent beside it, keeps the order of the
\* dates and the count of what was lost.
LEMMA StepIngested ==
  ASSUME IngestionInv, [AgentNext]_agentVars
  PROVE  IngestionInv'
<1>1. ASSUME NEW j \in Jobs, FinishRun(j) PROVE IngestionInv'
  BY <1>1, FinishKeepsOrder
<1>2. ASSUME NEW j \in Jobs, StartRun(j) PROVE IngestionInv'
  BY <1>2 DEF StartRun, IngestionInv, SnapshotsAscend, DropsAreCounted
<1>3. ASSUME NEW i \in Indicators, FeedMoves(i) PROVE IngestionInv'
  <2>1. now' = now + 1 /\ UNCHANGED <<snapshots, lost, conn>>
    BY <1>3 DEF FeedMoves, ingestion
  <2>2. \A n \in 1 .. Len(snapshots) : snapshots[n].at \in Nat
    <3>1. PICK F : snapshots \in Seq([features : F, at : Nat])
      BY DEF IngestionInv, AreSnapshots
    <3>2. \A n \in 1 .. Len(snapshots) : snapshots[n] \in [features : F, at : Nat]
      BY <3>1, ElementOfSeq
    <3>3. QED
      BY <3>2
  <2>3. QED
    BY <2>1, <2>2 DEF IngestionInv, SnapshotsAscend, DropsAreCounted
<1>4. CASE ReadLatest
  BY <1>4 DEF ReadLatest, IngestionInv, SnapshotsAscend, DropsAreCounted
<1>5. CASE DropConnection
  BY <1>5 DEF DropConnection, IngestionInv, SnapshotsAscend, DropsAreCounted
<1>6. CASE UNCHANGED <<feed, now, ingestion>>
  BY <1>6 DEF ingestion, IngestionInv, SnapshotsAscend, DropsAreCounted
<1>7. [AgentNext]_agentVars => IngestionNext \/ UNCHANGED <<feed, now, ingestion>>
  BY DEF AgentNext, agentVars, Invoke, Return, ClearSession
<1>8. QED
  BY <1>1, <1>2, <1>3, <1>4, <1>5, <1>6, <1>7 DEF IngestionNext

\* Whichever of the two stores is configured, and however runs overlap, the
\* snapshot a reader is given as the latest was ingested after every other.
THEOREM LatestStays == AgentSpec => []LatestIsNewest
<1>1. IngestionInv => LatestIsNewest
  <2> SUFFICES ASSUME IngestionInv PROVE LatestIsNewest
    OBVIOUS
  <2>1. PICK F : snapshots \in Seq([features : F, at : Nat])
    BY DEF IngestionInv, AreSnapshots
  <2>2. CASE snapshots = <<>>
    BY <2>2 DEF LatestIsNewest
  <2>3. CASE snapshots # <<>>
    BY <2>1, <2>3, LatestIsLast, LenProperties DEF IngestionInv, SnapshotsAscend, LatestIsNewest
  <2>4. QED
    BY <2>2, <2>3
<1>2. AgentInit => IngestionInv
  BY InitIngested DEF AgentInit
<1>3. QED
  BY <1>1, <1>2, StepIngested, PTL DEF AgentSpec

\* However often the server drops a connection, each time costs at most one save.
THEOREM DropsCostOneSave == AgentSpec => []DropCostsOneSave
<1>1. IngestionInv => DropCostsOneSave
  BY DEF IngestionInv, DropsAreCounted, DropCostsOneSave
<1>2. AgentInit => IngestionInv
  BY InitIngested DEF AgentInit
<1>3. QED
  BY <1>1, <1>2, StepIngested, PTL DEF AgentSpec

-----------------------------------------------------------------------------
(* Sessions *)

Turn == [by : Calls, success : BOOLEAN]
CallFields == {"pc", "request", "key", "hint", "answer"}

\* A list of turns of calls that were made, all of them of session s.
TurnsOf(list, s, calls) ==
  /\ list \in Seq(Turn)
  /\ \A n \in 1 .. Len(list) :
       calls[list[n].by].pc # "new" /\ calls[list[n].by].hint.session = s

\* The objects of the store: the turns of a context are of its session, and its
\* parameters were left by the last of them.
ContextsInv ==
  /\ contexts \in [Sessions \cup {Nil} -> 0 .. 2]
  /\ DOMAIN turns = Keys /\ DOMAIN active = Keys
  /\ \A k \in Keys :
       /\ DOMAIN active[k] = {"country", "target"}
       /\ TurnsOf(turns[k], k[1], call)
       /\ turns[k] # <<>> =>
            active[k].country = call[turns[k][Len(turns[k])].by].request.country

\* A call keeps the context it resolved, which is one of its session, and a hint
\* made of that session's turns.
CallsInv ==
  /\ DOMAIN call = Calls
  /\ \A c \in Calls :
       /\ DOMAIN call[c] = CallFields
       /\ call[c].pc # "new" =>
            /\ call[c].key \in Keys /\ call[c].key[1] = call[c].hint.session
            /\ TurnsOf(call[c].hint.turns, call[c].hint.session, call)

SessionsInv == ContextsInv /\ CallsInv

\* What a deque keeps is the end of the list.
LEMMA LastTurnsOfList ==
  ASSUME NEW list \in Seq(Turn), NEW n \in Nat \ {0}
  PROVE  /\ LastTurns(list, n) \in Seq(Turn)
         /\ \A i \in 1 .. Len(LastTurns(list, n)) :
              \E j \in 1 .. Len(list) : LastTurns(list, n)[i] = list[j]
         /\ list # <<>> => /\ LastTurns(list, n) # <<>>
                           /\ LastTurns(list, n)[Len(LastTurns(list, n))] = list[Len(list)]
<1>1. Len(list) \in Nat
  BY LenProperties
<1>2. CASE Len(list) <= n
  BY <1>2 DEF LastTurns
<1>3. CASE Len(list) > n
  <2> DEFINE from == Len(list) - n + 1
  <2> DEFINE kept == SubSeq(list, from, Len(list))
  <2>1. from \in 1 .. Len(list) /\ LastTurns(list, n) = kept
    BY <1>1, <1>3 DEF LastTurns
  <2>2. \A i \in from .. Len(list) : list[i] \in Turn
    BY <1>1, <2>1, ElementOfSeq
  <2> HIDE DEF from
  <2>3. /\ kept \in Seq(Turn) /\ Len(kept) = Len(list) - from + 1
        /\ \A i \in 1 .. Len(list) - from + 1 : kept[i] = list[from + i - 1]
    BY <1>1, <2>1, <2>2, SubSeqProperties
  <2> HIDE DEF kept
  <2>4. \A i \in 1 .. Len(kept) : from + i - 1 \in 1 .. Len(list) /\ kept[i] = list[from + i - 1]
    <3>1. from \in Int /\ from >= 1 /\ Len(list) \in Nat /\ Len(kept) = Len(list) - from + 1
      BY <1>1, <2>1, <2>3
    <3>2. ASSUME NEW i \in 1 .. Len(kept) PROVE i \in 1 .. Len(list) - from + 1
      BY <3>1
    <3>3. ASSUME NEW i \in 1 .. Len(kept) PROVE from + i - 1 \in 1 .. Len(list)
      BY <3>1
    <3>4. QED
      BY <2>3, <3>2, <3>3
  <2>5. kept # <<>> /\ kept[Len(kept)] = list[Len(list)]
    <3>1. Len(kept) \in Nat \ {0} /\ from + Len(kept) - 1 = Len(list)
      BY <1>1, <2>1, <2>3
    <3>2. kept[Len(kept)] = list[from + Len(kept) - 1]
      BY <2>4, <3>1
    <3>3. QED
      BY <3>1, <3>2, EmptySeq
  <2>6. QED
    BY <2>1, <2>3, <2>4, <2>5
<1>4. QED
  BY <1>1, <1>2, <1>3

\* A call that was made keeps its hint, so the turns it made stay its session's.
LEMMA TurnsStay ==
  ASSUME NEW list, NEW s, NEW calls, NEW later, TurnsOf(list, s, calls),
         \A c \in Calls : calls[c].pc # "new" =>
           later[c].pc # "new" /\ later[c].hint = calls[c].hint
  PROVE  TurnsOf(list, s, later)
<1>1. \A n \in 1 .. Len(list) : list[n].by \in Calls
  <2>1. list \in Seq(Turn)
    BY DEF TurnsOf
  <2>2. \A n \in 1 .. Len(list) : list[n] \in Turn
    BY <2>1, ElementOfSeq
  <2>3. QED
    BY <2>2 DEF Turn
<1>2. QED
  BY <1>1 DEF TurnsOf

\* The end of a list of one session's turns is such a list.
LEMMA LastTurnsOfSession ==
  ASSUME NEW list, NEW s, NEW calls, TurnsOf(list, s, calls), NEW n \in Nat \ {0}
  PROVE  TurnsOf(LastTurns(list, n), s, calls)
<1>1. list \in Seq(Turn)
  BY DEF TurnsOf
<1>2. QED
  BY <1>1, LastTurnsOfList DEF TurnsOf

\* The service answers success or an error, and the turn records which.
LEMMA AnswerSaysWhich ==
  ASSUME NEW request, NEW current
  PROVE  Answer(request, current).success \in BOOLEAN
<1>1. \A r, x : Failure(r, x).success = FALSE
  BY DEF Failure
<1>2. \A response : response.success \in BOOLEAN => Called(response).success \in BOOLEAN
  BY <1>1 DEF Called
<1>3. SignalEngineTool(request.ids, current).success \in BOOLEAN
  BY <1>1 DEF SignalEngineTool
<1>4. SnapshotTool(current).success \in BOOLEAN
  BY <1>1 DEF SnapshotTool
<1>5. CompareSnapshots(request, current).success \in BOOLEAN
  BY <1>1 DEF CompareSnapshots
<1>6. QED
  BY <1>2, <1>3, <1>4, <1>5 DEF Answer, ReviewSignals, SummarizeSnapshot

\* Before the first call there is no turn.
LEMMA InitSessions == AgentInit => SessionsInv
<1> SUFFICES ASSUME AgentInit PROVE SessionsInv
  OBVIOUS
<1>1. \A s : TurnsOf(<<>>, s, call)
  BY EmptySeq DEF TurnsOf
<1>2. ContextsInv
  BY <1>1 DEF AgentInit, ContextsInv, NoParameters
<1>3. CallsInv
  BY DEF AgentInit, CallsInv, NotCalled, CallFields
<1>4. QED
  BY <1>2, <1>3 DEF SessionsInv

\* LangChainAgentRuntime.invoke up to its await: the hint is made of the context
\* that was resolved, which is of the request's session.
LEMMA InvokeKeepsSessions ==
  ASSUME SessionsInv, NEW c \in Calls, NEW s \in Sessions \cup {Nil}, NEW request,
         Invoke(c, s, request)
  PROVE  SessionsInv'
<1> DEFINE key == ResolveContext(s)
<1>1. key \in Keys /\ key[1] = s /\ key[2] \in 0 .. 2
  BY DEF ResolveContext, Keys, SessionsInv, ContextsInv
<1>2. contexts' \in [Sessions \cup {Nil} -> 0 .. 2]
  BY <1>1 DEF Invoke, SessionsInv, ContextsInv
<1>3. /\ call[c].pc = "new" /\ DOMAIN call' = Calls
      /\ call'[c] = [pc |-> "waiting", request |-> request, key |-> key, answer |-> Nil,
                     hint |-> [session |-> s, active |-> active[key],
                               turns |-> LastTurns(turns[key], 3)]]
      /\ \A d \in Calls \ {c} : call'[d] = call[d]
      /\ UNCHANGED <<turns, active>>
  BY DEF Invoke, SessionsInv, CallsInv
<1> HIDE DEF key
<1>4. \A d \in Calls : call[d].pc # "new" =>
        call'[d].pc # "new" /\ call'[d].hint = call[d].hint
  BY <1>3
<1>5. \A list, t : TurnsOf(list, t, call) => TurnsOf(list, t, call')
  BY <1>4, TurnsStay
<1>6. ASSUME NEW k \in Keys, turns[k] # <<>>
      PROVE  LET d == turns[k][Len(turns[k])].by IN call'[d].request = call[d].request
  <2>1. TurnsOf(turns[k], k[1], call)
    BY DEF SessionsInv, ContextsInv
  <2>2. Len(turns[k]) \in 1 .. Len(turns[k])
    BY <1>6, <2>1, EmptySeq DEF TurnsOf
  <2>3. turns[k][Len(turns[k])].by \in Calls /\ call[turns[k][Len(turns[k])].by].pc # "new"
    <3>1. turns[k][Len(turns[k])] \in Turn
      BY <2>1, <2>2, ElementOfSeq DEF TurnsOf
    <3>2. QED
      BY <2>1, <2>2, <3>1 DEF TurnsOf, Turn
  <2>4. QED
    BY <1>3, <2>3
<1>7. ContextsInv'
  BY <1>2, <1>3, <1>5, <1>6 DEF SessionsInv, ContextsInv
<1>8. TurnsOf(LastTurns(turns[key], 3), s, call)
  BY <1>1, LastTurnsOfSession DEF SessionsInv, ContextsInv
<1>9. CallsInv'
  <2>1. ASSUME NEW d \in Calls PROVE (DOMAIN call[d] = CallFields)'
    BY <1>3 DEF SessionsInv, CallsInv, CallFields
  <2>2. ASSUME NEW d \in Calls, call'[d].pc # "new"
        PROVE  /\ call'[d].key \in Keys /\ call'[d].key[1] = call'[d].hint.session
               /\ TurnsOf(call'[d].hint.turns, call'[d].hint.session, call')
    <3>1. CASE d = c
      BY <1>1, <1>3, <1>5, <1>8, <3>1
    <3>2. CASE d # c
      BY <1>3, <1>5, <2>2, <3>2 DEF SessionsInv, CallsInv
    <3>3. QED
      BY <3>1, <3>2
  <2>3. QED
    BY <1>3, <2>1, <2>2 DEF CallsInv
<1>10. QED
  BY <1>7, <1>9 DEF SessionsInv

\* invoke after its await: the turn is recorded in the context the call resolved,
\* with the parameters of the same call.
LEMMA ReturnKeepsSessions ==
  ASSUME SessionsInv, NEW c \in Calls, Return(c)
  PROVE  SessionsInv'
<1> DEFINE answer == Answer(call[c].request, SnapshotFeatures(Provider, feed))
<1> DEFINE key == call[c].key
<1> DEFINE turn == [by |-> c, success |-> answer.success]
<1> DEFINE kept == AddTurn(turns[key], turn)
<1>1. /\ DOMAIN call' = Calls
      /\ call'[c].pc # "new" /\ DOMAIN call'[c] = CallFields
      /\ call'[c].request = call[c].request /\ call'[c].hint = call[c].hint
      /\ call'[c].key = call[c].key
      /\ \A d \in Calls \ {c} : call'[d] = call[d]
      /\ call[c].pc # "new" /\ UNCHANGED contexts
  <2>1. DOMAIN call = Calls /\ DOMAIN call[c] = CallFields
    BY DEF SessionsInv, CallsInv
  <2>2. PICK to \in {"answered", "raised"} :
          call' = [call EXCEPT ![c].pc = to, ![c].answer = answer]
    <3>1. CASE Valid(answer)
      BY <3>1 DEF Return
    <3>2. CASE ~Valid(answer)
      BY <3>2 DEF Return
    <3>3. QED
      BY <3>1, <3>2
  <2> HIDE DEF answer
  <2>3. QED
    BY <2>1, <2>2 DEF Return, CallFields
<1>2. \/ UNCHANGED <<turns, active>>
      \/ /\ turns' = [turns EXCEPT ![key] = kept]
         /\ active' = [active EXCEPT ![key] = Merge(call[c].request, @)]
  BY DEF Return
<1>3. turn \in Turn
  BY AnswerSaysWhich DEF Turn
<1> HIDE DEF answer, turn
<1>4. key \in Keys /\ key[1] = call[c].hint.session
  BY <1>1 DEF SessionsInv, CallsInv
<1>5. \A d \in Calls : call[d].pc # "new" =>
        call'[d].pc # "new" /\ call'[d].hint = call[d].hint
  BY <1>1
<1>6. \A list, t : TurnsOf(list, t, call) => TurnsOf(list, t, call')
  BY <1>5, TurnsStay
<1>7. /\ TurnsOf(kept, key[1], call')
      /\ kept # <<>> /\ kept[Len(kept)].by = c
  <2> DEFINE longer == Append(turns[key], turn)
  <2>1. TurnsOf(turns[key], key[1], call')
    BY <1>4, <1>6 DEF SessionsInv, ContextsInv
  <2>2. /\ longer \in Seq(Turn) /\ longer # <<>> /\ Len(longer) = Len(turns[key]) + 1
        /\ \A n \in 1 .. Len(turns[key]) : longer[n] = turns[key][n]
        /\ longer[Len(longer)] = turn /\ Len(turns[key]) \in Nat
    BY <1>3, <2>1, AppendProperties, LenProperties DEF TurnsOf
  <2> HIDE DEF longer
  <2>3. \A n \in 1 .. Len(longer) : n \in 1 .. Len(turns[key]) \/ longer[n] = turn
    BY <2>2
  <2>4. turn.by = c
    BY DEF turn
  <2>5. TurnsOf(longer, key[1], call')
    <3>1. ASSUME NEW n \in 1 .. Len(longer)
          PROVE  call'[longer[n].by].pc # "new" /\ call'[longer[n].by].hint.session = key[1]
      <4>1. CASE n \in 1 .. Len(turns[key])
        BY <2>1, <2>2, <4>1 DEF TurnsOf
      <4>2. CASE longer[n] = turn
        BY <1>1, <1>4, <2>4, <4>2
      <4>3. QED
        BY <2>3, <4>1, <4>2
    <3>2. QED
      BY <2>2, <3>1 DEF TurnsOf
  <2>6. kept = LastTurns(longer, MaxTurns)
    BY DEF AddTurn, longer
  <2> HIDE DEF kept
  <2>7. TurnsOf(kept, key[1], call')
    BY <2>5, <2>6, LastTurnsOfSession, TurnsAssumption
  <2>8. kept # <<>> /\ kept[Len(kept)] = longer[Len(longer)]
    BY <2>2, <2>6, LastTurnsOfList, TurnsAssumption
  <2>9. QED
    BY <2>2, <2>4, <2>7, <2>8
<1> HIDE DEF kept
<1>8. ASSUME NEW k \in Keys
      PROVE  /\ DOMAIN active'[k] = {"country", "target"}
             /\ TurnsOf(turns'[k], k[1], call')
             /\ turns'[k] # <<>> =>
                  active'[k].country = call'[turns'[k][Len(turns'[k])].by].request.country
  <2>1. CASE k = key /\ ~UNCHANGED <<turns, active>>
    <3>1. turns'[k] = kept /\ active'[k] = Merge(call[c].request, active[k])
      BY <1>2, <1>4, <2>1 DEF SessionsInv, ContextsInv
    <3>2. QED
      BY <1>1, <1>7, <2>1, <3>1 DEF Merge
  <2>2. CASE k # key \/ UNCHANGED <<turns, active>>
    <3>1. turns'[k] = turns[k] /\ active'[k] = active[k]
      BY <1>2, <2>2 DEF SessionsInv, ContextsInv
    <3>2. TurnsOf(turns[k], k[1], call)
      BY DEF SessionsInv, ContextsInv
    <3>3. ASSUME turns[k] # <<>> PROVE turns[k][Len(turns[k])].by \in Calls
      <4>1. turns[k][Len(turns[k])] \in Turn
        BY <3>2, <3>3, EmptySeq, ElementOfSeq DEF TurnsOf
      <4>2. QED
        BY <4>1 DEF Turn
    <3>4. QED
      BY <1>1, <1>6, <3>1, <3>2, <3>3 DEF SessionsInv, ContextsInv
  <2>3. QED
    BY <2>1, <2>2
<1>9. ContextsInv'
  BY <1>1, <1>2, <1>8 DEF SessionsInv, ContextsInv
<1>10. CallsInv'
  BY <1>1, <1>6 DEF SessionsInv, CallsInv
<1>11. QED
  BY <1>9, <1>10 DEF SessionsInv

\* Every step of the agent, or of the ingestion beside it, keeps sessions apart.
LEMMA StepKeepsSessions ==
  ASSUME SessionsInv, [AgentNext]_agentVars
  PROVE  SessionsInv'
<1>1. ASSUME NEW c \in Calls, NEW s \in Sessions \cup {Nil}, NEW request \in Requests,
             Invoke(c, s, request)
      PROVE  SessionsInv'
  BY <1>1, InvokeKeepsSessions
<1>2. ASSUME NEW c \in Calls, Return(c) PROVE SessionsInv'
  BY <1>2, ReturnKeepsSessions
<1>3. ASSUME NEW s \in Sessions, ClearSession(s) PROVE SessionsInv'
  <2>1. contexts' \in [Sessions \cup {Nil} -> 0 .. 2]
    BY <1>3 DEF ClearSession, SessionsInv, ContextsInv
  <2>2. UNCHANGED <<turns, active, call>>
    BY <1>3 DEF ClearSession
  <2>3. QED
    BY <2>1, <2>2 DEF SessionsInv, ContextsInv, CallsInv
<1>4. CASE UNCHANGED sessions
  BY <1>4 DEF sessions, SessionsInv, ContextsInv, CallsInv
<1>5. QED
  BY <1>1, <1>2, <1>3, <1>4 DEF AgentNext, agentVars

\* "no context leaks between different IDs": for any number of calls and sessions,
\* and whenever a session is cleared, a hint is put together from turns of the
\* call's own session.
THEOREM SessionsStayApart == AgentSpec => []SessionsAreIsolated
<1>1. SessionsInv => SessionsAreIsolated
  <2> SUFFICES ASSUME SessionsInv, NEW c \in Calls, call[c].pc # "new",
                      NEW n \in DOMAIN call[c].hint.turns
               PROVE  call[call[c].hint.turns[n].by].hint.session = call[c].hint.session
    BY DEF SessionsAreIsolated
  <2>1. TurnsOf(call[c].hint.turns, call[c].hint.session, call)
    BY DEF SessionsInv, CallsInv
  <2>2. n \in 1 .. Len(call[c].hint.turns)
    BY <2>1, LenProperties DEF TurnsOf
  <2>3. QED
    BY <2>1, <2>2 DEF TurnsOf
<1>2. AgentInit => SessionsInv
  BY InitSessions
<1>3. QED
  BY <1>1, <1>2, StepKeepsSessions, PTL DEF AgentSpec

\* However calls overlap at their waits, the country a context would pass on is that
\* of the last turn it tells.
THEOREM HintsAreOfTheLatest == AgentSpec => []HintIsOfTheLatest
<1>1. SessionsInv => HintIsOfTheLatest
  BY DEF SessionsInv, ContextsInv, HintIsOfTheLatest, Last
<1>2. AgentInit => SessionsInv
  BY InitSessions
<1>3. QED
  BY <1>1, <1>2, StepKeepsSessions, PTL DEF AgentSpec
=============================================================================
