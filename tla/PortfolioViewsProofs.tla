------------------------ MODULE PortfolioViewsProofs ------------------------
(***************************************************************************)
(* For any number of worker threads, commits and failing reads, and any    *)
(* TTL: a summary never shows cash newer than the positions beside it, and *)
(* what the cache serves was committed less than a TTL ago.                *)
(***************************************************************************)
EXTENDS PortfolioViews, TLAPS

\* Rows that were read at some time within the last s seconds.
Young(v, s) == v # Failed /\ v < version => supersededFor[v] <= s

\* No version is later than the committed one, nor superseded before its time.
HistoryInv == \A v \in Versions : v >= version => supersededFor[v] = 0

\* An actor's rows: none before they are read; accounts not later than holdings;
\* both current at some time since the actor took its timestamp.
ReadsInv ==
  \A a \in Actors :
    /\ pc[a] \notin {"holdings", "store"} => readAcc[a] = Failed
    /\ pc[a] # "store" => readHold[a] = Failed
    /\ readAcc[a] <= version /\ readHold[a] <= version
    /\ readHold[a] # Failed => readAcc[a] <= readHold[a]
    /\ Young(readAcc[a], age[a]) /\ Young(readHold[a], age[a])

\* The same of the rows in the cache, by the timestamp stored with them.
CacheInv ==
  /\ cache.acc <= version /\ cache.hold <= version
  /\ cache.hold # Failed => cache.acc <= cache.hold
  /\ Young(cache.acc, cache.age) /\ Young(cache.hold, cache.age)

EmptyCacheInv == ~cache.set => cache.acc = Failed /\ cache.hold = Failed

IInv ==
  TypeOK /\ HistoryInv /\ ReadsInv /\ CacheInv /\ EmptyCacheInv /\ NeverReadBackwards

-----------------------------------------------------------------------------
\* Ages saturate at the TTL and keep their order.
LEMMA OlderFacts ==
  ASSUME NEW s \in Ages
  PROVE  /\ Older(s) \in Ages /\ s <= Older(s)
         /\ \A r \in Ages : r <= s => Older(r) <= Older(s)
BY BoundAssumption DEF Older, Ages

\* Reset, order and clock start from a book nobody has superseded.
LEMMA InitIInv == Init => IInv
<1> SUFFICES ASSUME Init PROVE IInv
  OBVIOUS
<1>1. 1 \in Versions /\ 0 \in Ages /\ 0 \in 0 .. MaxFailures
  BY BoundAssumption DEF Versions, Ages
<1>2. Failed \in Reads /\ Failed = 0
  BY DEF Reads, Failed
<1>3. TypeOK
  <2>1. cache \in [set : BOOLEAN, acc : Reads, hold : Reads, age : Ages]
    BY <1>1, <1>2 DEF Init, NoCache
  <2>2. shown \in [Actors -> [acc : Reads, hold : Reads, late : BOOLEAN]]
    BY <1>2 DEF Init, NothingShown
  <2>3. version \in Versions /\ supersededFor \in [Versions -> Ages]
    BY <1>1 DEF Init
  <2>4. /\ readAcc \in [Actors -> Reads] /\ readHold \in [Actors -> Reads]
        /\ ordered \in [Actors -> Reads] /\ need \in [Actors -> Reads]
        /\ age \in [Actors -> Ages] /\ acked \in Reads
    BY <1>1, <1>2 DEF Init
  <2>5. /\ pc \in [Actors -> {"idle", "unpack", "accounts", "holdings", "store", "refresh"}]
        /\ resetting \in BOOLEAN /\ failures \in 0 .. MaxFailures
    BY <1>1 DEF Init
  <2>6. QED
    BY <2>1, <2>2, <2>3, <2>4, <2>5 DEF TypeOK
<1>4. HistoryInv
  BY DEF Init, HistoryInv
<1>5. ReadsInv
  BY <1>2 DEF Init, ReadsInv, Young
<1>6. CacheInv
  BY <1>2 DEF Init, CacheInv, NoCache, Young
<1>7. NeverReadBackwards
  BY DEF Init, NeverReadBackwards, NothingShown
<1>8. EmptyCacheInv
  BY DEF Init, EmptyCacheInv, NoCache
<1>9. QED
  BY <1>3, <1>4, <1>5, <1>6, <1>7, <1>8 DEF IInv

\* A commit: what was current is superseded from now on, for no time yet.
LEMMA CommitKeeps ==
  ASSUME IInv, NewVersion, UNCHANGED supersededFor
  PROVE  /\ version' \in Versions /\ version' = version + 1 /\ HistoryInv'
         /\ \A v \in Reads, s \in Ages : v <= version /\ Young(v, s) => Young(v, s)'
<1>1. version' = version + 1 /\ version' \in Versions /\ version \in Versions
  BY BoundAssumption DEF NewVersion, IInv, TypeOK, Versions
<1>2. HistoryInv'
  BY <1>1 DEF IInv, HistoryInv, Versions
<1>3. ASSUME NEW v \in Reads, NEW s \in Ages, v <= version, Young(v, s)
      PROVE  Young(v, s)'
  <2>1. CASE v < version
    BY <1>1, <1>3, <2>1 DEF Young
  <2>2. CASE v = version
    <3>1. supersededFor[v] = 0
      BY <1>1, <2>2 DEF IInv, HistoryInv, Versions
    <3>2. QED
      BY <3>1, <2>2 DEF Young, Ages
  <2>3. QED
    BY <1>1, <1>3, <2>1, <2>2 DEF Reads, Versions, Failed
<1>4. QED
  BY <1>1, <1>2, <1>3

\* The variables a commit may leave alone, with which the rest is as it was.
LEMMA CommitStep ==
  ASSUME IInv, NewVersion, TypeOK',
         UNCHANGED <<supersededFor, cache, readAcc, readHold, age, shown>>,
         \A a \in Actors : pc'[a] = pc[a] \/ (pc[a] = "idle" /\ pc'[a] = "refresh")
  PROVE  IInv'
<1>1. HistoryInv' /\ version' = version + 1 /\ version \in Int
  BY CommitKeeps DEF IInv, TypeOK, Versions
<1>2. ReadsInv'
  <2> SUFFICES ASSUME NEW a \in Actors
               PROVE  /\ pc'[a] \notin {"holdings", "store"} => readAcc'[a] = Failed
                      /\ pc'[a] # "store" => readHold'[a] = Failed
                      /\ readAcc'[a] <= version' /\ readHold'[a] <= version'
                      /\ readHold'[a] # Failed => readAcc'[a] <= readHold'[a]
                      /\ Young(readAcc[a], age[a])' /\ Young(readHold[a], age[a])'
    BY DEF ReadsInv
  <2>1. readAcc[a] \in Reads /\ readHold[a] \in Reads /\ age[a] \in Ages
    BY DEF IInv, TypeOK
  <2>2. readAcc[a] <= version /\ readHold[a] <= version
    BY DEF IInv, ReadsInv
  <2>3. Young(readAcc[a], age[a])' /\ Young(readHold[a], age[a])'
    BY <2>1, <2>2, CommitKeeps DEF IInv, ReadsInv
  <2>4. QED
    BY <1>1, <2>1, <2>2, <2>3 DEF IInv, ReadsInv, Reads, Versions, Failed
<1>3. CacheInv'
  <2>1. cache.acc \in Reads /\ cache.hold \in Reads /\ cache.age \in Ages
    BY DEF IInv, TypeOK
  <2>2. Young(cache.acc, cache.age)' /\ Young(cache.hold, cache.age)'
    BY <2>1, CommitKeeps DEF IInv, CacheInv
  <2>3. QED
    BY <1>1, <2>1, <2>2 DEF IInv, CacheInv, Reads, Versions, Failed
<1>4. NeverReadBackwards'
  BY DEF IInv, NeverReadBackwards
<1>5. EmptyCacheInv'
  BY DEF IInv, EmptyCacheInv
<1>6. QED
  BY <1>1, <1>2, <1>3, <1>4, <1>5 DEF IInv

-----------------------------------------------------------------------------
(* Types, one action at a time.                                            *)

LEMMA PlaceOrderType == ASSUME TypeOK, NEW w \in Workers, PlaceOrder(w) PROVE TypeOK'
<1>1. version' \in Versions /\ version' \in Reads /\ w \in Actors
  BY BoundAssumption DEF PlaceOrder, NewVersion, TypeOK, Versions, Reads, Actors
<1>2. ordered' \in [Actors -> Reads]
  BY <1>1 DEF PlaceOrder, TypeOK
<1>3. pc' \in [Actors -> {"idle", "unpack", "accounts", "holdings", "store", "refresh"}]
  BY <1>1 DEF PlaceOrder, TypeOK
<1>4. QED
  BY <1>1, <1>2, <1>3 DEF PlaceOrder, TypeOK

LEMMA ResetBookType == ASSUME TypeOK, ResetBook PROVE TypeOK'
<1>1. version' \in Versions
  BY BoundAssumption DEF ResetBook, NewVersion, TypeOK, Versions
<1>2. QED
  BY <1>1 DEF ResetBook, TypeOK, build

LEMMA NoCacheType == NoCache \in [set : BOOLEAN, acc : Reads, hold : Reads, age : Ages]
BY BoundAssumption DEF NoCache, Reads, Ages, Failed

LEMMA DropCacheType == ASSUME TypeOK, DropCache PROVE TypeOK'
BY NoCacheType DEF DropCache, TypeOK, build

LEMMA TickType == ASSUME TypeOK, Tick PROVE TypeOK'
<1>1. supersededFor' \in [Versions -> Ages]
  BY OlderFacts DEF Tick, TypeOK
<1>2. cache' \in [set : BOOLEAN, acc : Reads, hold : Reads, age : Ages]
  <2>1. CASE cache.set
    <3>1. Older(cache.age) \in Ages
      BY OlderFacts DEF TypeOK
    <3>2. cache' = [cache EXCEPT !.age = Older(cache.age)]
      BY <2>1 DEF Tick
    <3>3. QED
      BY <3>1, <3>2 DEF TypeOK
  <2>2. CASE ~cache.set
    BY <2>2 DEF Tick, TypeOK
  <2>3. QED
    BY <2>1, <2>2
<1>3. age' \in [Actors -> Ages]
  BY OlderFacts DEF Tick, TypeOK
<1>4. QED
  BY <1>1, <1>2, <1>3 DEF Tick, TypeOK

LEMMA StartType ==
  ASSUME TypeOK, NEW a \in Actors, NEW force \in BOOLEAN, Start(a, force)
  PROVE  TypeOK'
<1>1. 0 \in Ages /\ NothingShown \in [acc : Reads, hold : Reads, late : BOOLEAN]
  BY BoundAssumption DEF Ages, NothingShown, Reads
<1>2. shown' \in [Actors -> [acc : Reads, hold : Reads, late : BOOLEAN]]
  BY <1>1 DEF Start, TypeOK
<1>3. age' \in [Actors -> Ages] /\ need' \in [Actors -> Reads]
  BY <1>1 DEF Start, TypeOK
<1>4. pc' \in [Actors -> {"idle", "unpack", "accounts", "holdings", "store", "refresh"}]
  BY DEF Start, TypeOK
<1>5. QED
  BY <1>2, <1>3, <1>4 DEF Start, TypeOK

\* What Return sets, for rows of the right type.
LEMMA ReturnType ==
  ASSUME TypeOK, NEW a \in Actors, NEW rows, rows.acc \in Reads, rows.hold \in Reads,
         Return(a, rows)
  PROVE  /\ shown' \in [Actors -> [acc : Reads, hold : Reads, late : BOOLEAN]]
         /\ pc' \in [Actors -> {"idle", "unpack", "accounts", "holdings", "store", "refresh"}]
         /\ readAcc' \in [Actors -> Reads] /\ readHold' \in [Actors -> Reads]
         /\ age' \in [Actors -> Ages]
         /\ ordered' \in [Actors -> Reads] /\ need' \in [Actors -> Reads]
<1> DEFINE late == rows.acc # Failed /\ rows.acc < need[a]
<1> DEFINE row == [acc |-> rows.acc, hold |-> rows.hold, late |-> late]
<1>1. late \in BOOLEAN
  OBVIOUS
<1>2. row \in [acc : Reads, hold : Reads, late : BOOLEAN]
  <2> HIDE DEF late
  <2> QED
    BY <1>1
<1>3. shown' = [shown EXCEPT ![a] = row]
  BY DEF Return
<1>4. shown' \in [Actors -> [acc : Reads, hold : Reads, late : BOOLEAN]]
  <2> HIDE DEF row
  <2> QED
    BY <1>2, <1>3 DEF TypeOK
<1>5. 0 \in Ages /\ Failed \in Reads
  BY BoundAssumption DEF Ages, Reads
<1>6. QED
  BY <1>4, <1>5 DEF Return, TypeOK

LEMMA ServeCachedType ==
  ASSUME TypeOK, NEW a \in Actors, ServeCached(a)
  PROVE  TypeOK'
<1>1. PICK rows \in {cache, NoCache} : Return(a, rows)
  BY DEF ServeCached
<1>2. rows.acc \in Reads /\ rows.hold \in Reads
  BY NoCacheType DEF TypeOK
<1>3. QED
  BY <1>1, <1>2, ReturnType DEF ServeCached, TypeOK

LEMMA ExpireType == ASSUME TypeOK, NEW a \in Actors, Expire(a) PROVE TypeOK'
BY DEF Expire, TypeOK

LEMMA ReadingType ==
  ASSUME TypeOK, NEW r \in Reads, Reading(r)
  PROVE  failures' \in 0 .. MaxFailures
BY BoundAssumption DEF Reading, TypeOK

LEMMA ReadAccountsType == ASSUME TypeOK, NEW a \in Actors, ReadAccounts(a) PROVE TypeOK'
<1>1. PICK r \in Reads : Reading(r) /\ readAcc' = [readAcc EXCEPT ![a] = r]
  BY DEF ReadAccounts
<1>2. failures' \in 0 .. MaxFailures
  BY <1>1, ReadingType
<1>3. QED
  BY <1>1, <1>2 DEF ReadAccounts, TypeOK

LEMMA ReadHoldingsType == ASSUME TypeOK, NEW a \in Actors, ReadHoldings(a) PROVE TypeOK'
<1>1. PICK r \in Reads : Reading(r) /\ readHold' = [readHold EXCEPT ![a] = r]
  BY DEF ReadHoldings
<1>2. failures' \in 0 .. MaxFailures
  BY <1>1, ReadingType
<1>3. QED
  BY <1>1, <1>2 DEF ReadHoldings, TypeOK

LEMMA StoreType == ASSUME TypeOK, NEW a \in Actors, Store(a) PROVE TypeOK'
<1>1. readAcc[a] \in Reads /\ readHold[a] \in Reads /\ age[a] \in Ages
  BY DEF TypeOK
<1>2. cache' \in [set : BOOLEAN, acc : Reads, hold : Reads, age : Ages]
  BY <1>1 DEF Store, Stamp
<1>3. acked' \in Reads
  BY DEF Store, Newer, TypeOK
<1>4. Return(a, [acc |-> readAcc[a], hold |-> readHold[a]])
  BY DEF Store
<1>5. QED
  BY <1>1, <1>2, <1>3, <1>4, ReturnType DEF Store, TypeOK

LEMMA NextType == TypeOK /\ [Next]_vars => TypeOK'
<1> SUFFICES ASSUME TypeOK, [Next]_vars PROVE TypeOK'
  OBVIOUS
<1>1. ASSUME NEW a \in Actors, BuildStep(a) PROVE TypeOK'
  BY <1>1, ServeCachedType, ExpireType, ReadAccountsType, ReadHoldingsType, StoreType
     DEF BuildStep
<1>2. CASE UNCHANGED vars
  BY <1>2 DEF vars, build, TypeOK
<1>3. QED
  BY <1>1, <1>2, PlaceOrderType, ResetBookType, DropCacheType, TickType, StartType DEF Next

-----------------------------------------------------------------------------
(* The inductive invariant, one action at a time.                          *)

\* A second ages the rows and what superseded them alike.
LEMMA TickKeepsYoung ==
  ASSUME IInv, Tick
  PROVE  \A v \in Reads, s \in Ages :
           Young(v, s) /\ v # Failed /\ v < version => supersededFor'[v] <= Older(s)
<1> SUFFICES ASSUME NEW v \in Reads, NEW s \in Ages, Young(v, s), v # Failed, v < version
             PROVE  supersededFor'[v] <= Older(s)
  OBVIOUS
<1>1. v \in Versions /\ supersededFor[v] \in Ages /\ supersededFor[v] <= s
  BY DEF Young, Reads, IInv, TypeOK
<1>2. supersededFor'[v] = Older(supersededFor[v])
  BY <1>1 DEF Tick
<1>3. QED
  BY <1>1, <1>2, OlderFacts

LEMMA TickStep == ASSUME IInv, Tick PROVE IInv'
<1>1. TypeOK'
  BY TickType DEF IInv
<1>2. HistoryInv'
  <2> SUFFICES ASSUME NEW v \in Versions, v >= version PROVE supersededFor'[v] = 0
    BY DEF HistoryInv, Tick
  <2>1. supersededFor[v] = 0 /\ ~(v < version)
    BY DEF IInv, HistoryInv, TypeOK, Versions
  <2>2. QED
    BY <2>1 DEF Tick
<1>3. ReadsInv'
  <2> SUFFICES ASSUME NEW a \in Actors
               PROVE  Young(readAcc[a], age[a])' /\ Young(readHold[a], age[a])'
    BY DEF IInv, ReadsInv, Tick
  <2>1. readAcc[a] \in Reads /\ readHold[a] \in Reads /\ age[a] \in Ages
    BY DEF IInv, TypeOK
  <2>2. readAcc[a] <= version /\ readHold[a] <= version
    BY DEF IInv, ReadsInv
  <2>3. CASE pc[a] \in {"accounts", "holdings", "store"}
    <3>1. age'[a] = Older(age[a]) /\ readAcc'[a] = readAcc[a] /\ readHold'[a] = readHold[a]
      BY <2>3 DEF Tick
    <3>2. Young(readAcc[a], age[a]) /\ Young(readHold[a], age[a])
      BY DEF IInv, ReadsInv
    <3>3. QED
      BY <2>1, <3>1, <3>2, TickKeepsYoung DEF Young, Tick
  <2>4. CASE pc[a] \notin {"accounts", "holdings", "store"}
    BY <2>4 DEF IInv, ReadsInv, Tick, Young
  <2>5. QED
    BY <2>3, <2>4
<1>4. CacheInv'
  <2>1. cache.acc \in Reads /\ cache.hold \in Reads /\ cache.age \in Ages
    BY DEF IInv, TypeOK
  <2>2. CASE cache.set
    <3>1. cache' = [cache EXCEPT !.age = Older(cache.age)]
      BY <2>2 DEF Tick
    <3>2. cache'.acc = cache.acc /\ cache'.hold = cache.hold /\ cache'.age = Older(cache.age)
      BY <1>1, <3>1 DEF IInv, TypeOK
    <3>3. Young(cache.acc, cache.age) /\ Young(cache.hold, cache.age)
      BY DEF IInv, CacheInv
    <3>4. version' = version
      BY DEF Tick
    <3>5. QED
      BY <2>1, <3>2, <3>3, <3>4, TickKeepsYoung DEF IInv, CacheInv, Young
  <2>3. CASE ~cache.set
    <3>1. cache' = cache /\ cache.acc = Failed /\ cache.hold = Failed
      BY <2>3 DEF Tick, IInv, EmptyCacheInv
    <3>2. QED
      BY <3>1 DEF IInv, CacheInv, Young, Tick
  <2>4. QED
    BY <2>2, <2>3
<1>5. NeverReadBackwards'
  BY DEF IInv, NeverReadBackwards, Tick
<1>6. EmptyCacheInv'
  BY DEF IInv, EmptyCacheInv, Tick, TypeOK
<1>7. QED
  BY <1>1, <1>2, <1>3, <1>4, <1>5, <1>6 DEF IInv

LEMMA PlaceOrderStep == ASSUME IInv, NEW w \in Workers, PlaceOrder(w) PROVE IInv'
<1>1. TypeOK'
  BY PlaceOrderType DEF IInv
<1>2. \A a \in Actors : pc'[a] = pc[a] \/ (pc[a] = "idle" /\ pc'[a] = "refresh")
  <2> SUFFICES ASSUME NEW a \in Actors, a = w
               PROVE  pc[a] = "idle" /\ pc'[a] = "refresh"
    BY DEF PlaceOrder, IInv, TypeOK
  <2>1. QED
    BY DEF PlaceOrder, IInv, TypeOK
<1>3. NewVersion /\ UNCHANGED <<supersededFor, cache, readAcc, readHold, age, shown>>
  BY DEF PlaceOrder
<1>4. QED
  BY <1>1, <1>2, <1>3, CommitStep

LEMMA ResetBookStep == ASSUME IInv, ResetBook PROVE IInv'
<1>1. TypeOK'
  BY ResetBookType DEF IInv
<1>2. /\ NewVersion /\ pc' = pc
      /\ UNCHANGED <<supersededFor, cache, readAcc, readHold, age, shown>>
  BY DEF ResetBook, build
<1>3. \A a \in Actors : pc'[a] = pc[a] \/ (pc[a] = "idle" /\ pc'[a] = "refresh")
  BY <1>2
<1>4. QED
  BY <1>1, <1>2, <1>3, CommitStep

LEMMA DropCacheStep == ASSUME IInv, DropCache PROVE IInv'
<1>1. TypeOK'
  BY DropCacheType DEF IInv
<1>2. 0 <= version
  BY DEF IInv, TypeOK, Versions
<1>3. CacheInv' /\ EmptyCacheInv'
  BY <1>2 DEF DropCache, CacheInv, EmptyCacheInv, NoCache, Young, Failed
<1>4. HistoryInv' /\ ReadsInv' /\ NeverReadBackwards'
  BY DEF DropCache, build, IInv, HistoryInv, ReadsInv, NeverReadBackwards, Young
<1>5. QED
  BY <1>1, <1>3, <1>4 DEF IInv

\* Nothing has been read when the timestamp is taken.
LEMMA StartStep ==
  ASSUME IInv, NEW a \in Actors, NEW force \in BOOLEAN, Start(a, force)
  PROVE  IInv'
<1>1. TypeOK'
  BY StartType DEF IInv
<1>2. HistoryInv' /\ CacheInv' /\ EmptyCacheInv'
  BY DEF Start, IInv, HistoryInv, CacheInv, EmptyCacheInv, Young
<1>3. pc[a] \notin {"holdings", "store"} /\ pc'[a] \notin {"holdings", "store"}
  BY DEF Start, IInv, TypeOK
<1>4. readAcc[a] = Failed /\ readHold[a] = Failed
  BY <1>3 DEF IInv, ReadsInv
<1>5. \A b \in Actors \ {a} : pc'[b] = pc[b] /\ age'[b] = age[b]
  BY DEF Start, IInv, TypeOK
<1>6. ReadsInv'
  BY <1>3, <1>4, <1>5 DEF Start, IInv, ReadsInv, Young
<1>7. NeverReadBackwards'
  BY DEF Start, IInv, NeverReadBackwards, NothingShown, TypeOK
<1>8. QED
  BY <1>1, <1>2, <1>6, <1>7 DEF IInv

\* An actor that returns rows in the right order forgets what it read.
LEMMA ReturnStep ==
  ASSUME IInv, NEW a \in Actors, NEW rows, Return(a, rows),
         rows.hold # Failed => rows.acc <= rows.hold,
         UNCHANGED <<version, supersededFor>>
  PROVE  ReadsInv' /\ NeverReadBackwards' /\ HistoryInv'
<1>1. 0 <= version
  BY DEF IInv, TypeOK, Versions
<1>2. ReadsInv'
  BY <1>1 DEF Return, IInv, ReadsInv, TypeOK, Young, Failed
<1>3. NeverReadBackwards'
  BY DEF Return, IInv, NeverReadBackwards, TypeOK
<1>4. HistoryInv'
  BY DEF IInv, HistoryInv
<1>5. QED
  BY <1>2, <1>3, <1>4

LEMMA ServeCachedStep == ASSUME IInv, NEW a \in Actors, ServeCached(a) PROVE IInv'
<1>1. TypeOK'
  BY ServeCachedType DEF IInv
<1>2. PICK rows \in {cache, NoCache} : Return(a, rows)
  BY DEF ServeCached
<1>3. rows.hold # Failed => rows.acc <= rows.hold
  BY <1>2 DEF IInv, CacheInv, NoCache
<1>4. ReadsInv' /\ NeverReadBackwards' /\ HistoryInv'
  BY <1>2, <1>3, ReturnStep DEF ServeCached
<1>5. CacheInv' /\ EmptyCacheInv'
  BY DEF ServeCached, IInv, CacheInv, EmptyCacheInv, Young
<1>6. QED
  BY <1>1, <1>4, <1>5 DEF IInv

LEMMA ExpireStep == ASSUME IInv, NEW a \in Actors, Expire(a) PROVE IInv'
<1>1. TypeOK'
  BY ExpireType DEF IInv
<1>2. ReadsInv'
  BY DEF Expire, IInv, ReadsInv, TypeOK, Young
<1>3. HistoryInv' /\ CacheInv' /\ EmptyCacheInv' /\ NeverReadBackwards'
  BY DEF Expire, IInv, HistoryInv, CacheInv, EmptyCacheInv, NeverReadBackwards, Young
<1>4. QED
  BY <1>1, <1>2, <1>3 DEF IInv

\* What a read returns is not superseded at that moment.
LEMMA ReadingIsYoung ==
  ASSUME IInv, NEW r \in Reads, Reading(r), NEW s
  PROVE  r \in {version, Failed} /\ r <= version /\ Young(r, s)
BY DEF Reading, Young, IInv, TypeOK, Versions, Failed

LEMMA ReadAccountsStep == ASSUME IInv, NEW a \in Actors, ReadAccounts(a) PROVE IInv'
<1>1. TypeOK'
  BY ReadAccountsType DEF IInv
<1>2. PICK r \in Reads : Reading(r) /\ readAcc' = [readAcc EXCEPT ![a] = r]
  BY DEF ReadAccounts
<1>3. r <= version /\ Young(r, age[a])
  BY <1>2, ReadingIsYoung
<1>4. readHold[a] = Failed
  BY DEF ReadAccounts, IInv, ReadsInv
<1>5. ReadsInv'
  BY <1>2, <1>3, <1>4 DEF ReadAccounts, IInv, ReadsInv, TypeOK, Young
<1>6. HistoryInv' /\ CacheInv' /\ EmptyCacheInv' /\ NeverReadBackwards'
  BY DEF ReadAccounts, IInv, HistoryInv, CacheInv, EmptyCacheInv, NeverReadBackwards, Young
<1>7. QED
  BY <1>1, <1>5, <1>6 DEF IInv

LEMMA ReadHoldingsStep == ASSUME IInv, NEW a \in Actors, ReadHoldings(a) PROVE IInv'
<1>1. TypeOK'
  BY ReadHoldingsType DEF IInv
<1>2. PICK r \in Reads : Reading(r) /\ readHold' = [readHold EXCEPT ![a] = r]
  BY DEF ReadHoldings
<1>3. r \in {version, Failed} /\ r <= version /\ Young(r, age[a])
  BY <1>2, ReadingIsYoung
<1>4. readAcc[a] <= version
  BY DEF IInv, ReadsInv
<1>5. ReadsInv'
  BY <1>2, <1>3, <1>4 DEF ReadHoldings, IInv, ReadsInv, TypeOK, Young
<1>6. HistoryInv' /\ CacheInv' /\ EmptyCacheInv' /\ NeverReadBackwards'
  BY DEF ReadHoldings, IInv, HistoryInv, CacheInv, EmptyCacheInv, NeverReadBackwards, Young
<1>7. QED
  BY <1>1, <1>5, <1>6 DEF IInv

\* The rows take their timestamp with them into the cache.
LEMMA StoreStep == ASSUME IInv, NEW a \in Actors, Store(a) PROVE IInv'
<1>1. TypeOK'
  BY StoreType DEF IInv
<1>2. cache' = [set |-> TRUE, acc |-> readAcc[a], hold |-> readHold[a], age |-> age[a]]
  BY DEF Store, Stamp
<1>3. CacheInv' /\ EmptyCacheInv'
  BY <1>2 DEF Store, IInv, ReadsInv, CacheInv, EmptyCacheInv, Young
<1>4. readHold[a] # Failed => readAcc[a] <= readHold[a]
  BY DEF IInv, ReadsInv
<1>5. ReadsInv' /\ NeverReadBackwards' /\ HistoryInv'
  BY <1>4, ReturnStep DEF Store
<1>6. QED
  BY <1>1, <1>3, <1>5 DEF IInv

LEMMA NextIInv == IInv /\ [Next]_vars => IInv'
<1> SUFFICES ASSUME IInv, [Next]_vars PROVE IInv'
  OBVIOUS
<1>1. ASSUME NEW a \in Actors, BuildStep(a) PROVE IInv'
  BY <1>1, ServeCachedStep, ExpireStep, ReadAccountsStep, ReadHoldingsStep, StoreStep
     DEF BuildStep
<1>2. CASE UNCHANGED vars
  <2>1. TypeOK'
    BY <1>2, NextType DEF IInv
  <2>2. QED
    BY <1>2, <2>1 DEF vars, build, IInv, HistoryInv, ReadsInv, CacheInv, EmptyCacheInv,
                      NeverReadBackwards, Young
<1>3. QED
  BY <1>1, <1>2, PlaceOrderStep, ResetBookStep, DropCacheStep, TickStep, StartStep DEF Next

-----------------------------------------------------------------------------
(* Theorems.                                                               *)

\* The inductive invariant holds of every behaviour, and with it the types.
THEOREM SummariesInduct == Spec => []IInv
BY InitIInv, NextIInv, PTL DEF Spec

\* A summary never shows cash newer than the positions beside it: the accounts
\* are read before the holdings (_build_portfolio_summary), cached or not.
THEOREM SummariesReadForwards == Spec => []NeverReadBackwards
BY SummariesInduct, PTL DEF IInv

\* What an actor serves from the cache is what the cache holds.
LEMMA ServedStep ==
  ASSUME IInv, [Next]_vars, NEW a \in Actors, pc[a] = "unpack", pc'[a] = "idle"
  PROVE  ServeCached(a)
<1>1. ASSUME NEW b \in Actors, BuildStep(b), b # a PROVE FALSE
  <2>1. pc'[a] = pc[a]
    BY <1>1 DEF BuildStep, ServeCached, Expire, ReadAccounts, ReadHoldings, Store, Return,
                IInv, TypeOK
  <2>2. QED
    BY <2>1
<1>2. ASSUME BuildStep(a) PROVE ServeCached(a)
  BY <1>2 DEF BuildStep, Expire, ReadAccounts, ReadHoldings, Store, IInv, TypeOK
<1>3. ASSUME NEW b \in Actors, NEW force \in BOOLEAN, Start(b, force) PROVE FALSE
  BY <1>3 DEF Start, IInv, TypeOK
<1>4. ASSUME NEW w \in Workers, PlaceOrder(w) PROVE FALSE
  BY <1>4 DEF PlaceOrder, IInv, TypeOK, Actors
<1>5. ASSUME ResetBook \/ DropCache \/ Tick \/ UNCHANGED vars PROVE FALSE
  BY <1>5 DEF ResetBook, DropCache, Tick, vars, build
<1>6. QED
  BY <1>1, <1>2, <1>3, <1>4, <1>5 DEF Next

\* Rows served from the cache were committed less than a TTL ago, whichever
\* thread stored them last: their timestamp is older than the rows are.
THEOREM CacheServesYoungRows == Spec => ServedWithinTtl
<1>1. ASSUME IInv, [Next]_vars, NEW a \in Actors, pc[a] = "unpack", pc'[a] = "idle",
             NEW v \in {shown'[a].acc, shown'[a].hold} \ {Failed}, v < version
      PROVE  supersededFor[v] < TTL
  <2>1. ServeCached(a)
    BY <1>1, ServedStep
  <2>2. PICK rows \in {cache, NoCache} :
          Return(a, rows) /\ ((rows = cache /\ cache.set /\ cache.age < TTL) \/ rows = NoCache)
    BY <2>1 DEF ServeCached
  <2>3. shown'[a].acc = rows.acc /\ shown'[a].hold = rows.hold
    <3> DEFINE late == rows.acc # Failed /\ rows.acc < need[a]
    <3>1. shown' = [shown EXCEPT ![a] = [acc |-> rows.acc, hold |-> rows.hold, late |-> late]]
      BY <2>2 DEF Return
    <3> HIDE DEF late
    <3>2. QED
      BY <1>1, <3>1 DEF IInv, TypeOK
  <2>4. rows = cache /\ cache.age < TTL
    BY <1>1, <2>2, <2>3 DEF NoCache
  <2>5. Young(v, cache.age)
    BY <1>1, <2>3, <2>4 DEF IInv, CacheInv
  <2>6. v \in Versions
    BY <1>1, <2>3, <2>4 DEF IInv, TypeOK, Reads
  <2>7. supersededFor[v] <= cache.age /\ supersededFor[v] \in Ages /\ cache.age \in Ages
    BY <1>1, <2>5, <2>6 DEF Young, IInv, TypeOK
  <2>8. QED
    BY <2>4, <2>7, BoundAssumption DEF Ages
<1>2. IInv /\ [Next]_vars =>
        [\A a \in Actors :
           (pc[a] = "unpack" /\ pc'[a] = "idle") =>
             \A v \in {shown'[a].acc, shown'[a].hold} \ {Failed} :
               v < version => supersededFor[v] < TTL]_vars
  BY <1>1
<1>3. QED
  BY <1>2, SummariesInduct, PTL DEF Spec, ServedWithinTtl
=============================================================================
