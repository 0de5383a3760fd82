------------------------------ MODULE RegimeProofs ------------------------------
(***************************************************************************)
(* The regimes of both servers.  The alerts of src/main.py: however many   *)
(* transitions are broadcast and however they overtake each other, for     *)
(* every size of the ring, it lists the latest in their order, and they    *)
(* join up.  The macro stores of apps/api: for any feeds, readings and     *)
(* days, the transition stored with a regime and the change report that is *)
(* computed later agree.                                                   *)
(***************************************************************************)
EXTENDS RegimeAlerts, MacroRegimes, FoldLemmas, SequenceTheorems, TLAPS

-----------------------------------------------------------------------------
(* The ring of alerts (RegimeAlerts) *)

\* The part of the types the ring depends on.
BroadcastTypes ==
  /\ pc \in [Tasks -> {"none", "ready", "email", "list", "push", "done"}]
  /\ change \in [Tasks -> Transitions \cup {Nothing}]
  /\ macro \in MacroRegimes
  /\ lastNotified \in Regimes \cup {NoRegime}
  /\ lastNotified = NoRegime => Created = {}

Smaller(j, k) == IF j < k THEN j ELSE k

\* The ring after s broadcasts have started.
RingOf(s) == [i \in 1 .. Smaller(s, RingMax) |-> change[s - i + 1]]

\* c broadcasts were created and the first s of them have started.
Counted(c, s) ==
  /\ Created = 1 .. c /\ Started = 1 .. s /\ s <= c
  /\ ring = RingOf(s)
  /\ \A n \in 1 .. c :
       /\ change[n] \in Transitions
       /\ change[n].old # change[n].new
       /\ change[n].new = IF n = c THEN lastNotified ELSE change[n + 1].old

IInv == BroadcastTypes /\ \E c, s \in 0 .. MaxTransitions : Counted(c, s)

-----------------------------------------------------------------------------
\* An interval from 1 is known by its end.
LEMMA IntervalEnd ==
  ASSUME NEW j \in Nat, NEW k \in Nat, 1 .. j = 1 .. k
  PROVE  j = k
<1>1. j <= k
  <2>1. CASE j = 0
    BY <2>1
  <2>2. CASE j > 0
    <3>1. j \in 1 .. j
      BY <2>2
    <3>2. QED
      BY <3>1
  <2>3. QED
    BY <2>1, <2>2
<1>2. k <= j
  <2>1. CASE k = 0
    BY <2>1
  <2>2. CASE k > 0
    <3>1. k \in 1 .. k
      BY <2>2
    <3>2. QED
      BY <3>1
  <2>3. QED
    BY <2>1, <2>2
<1>3. QED
  BY <1>1, <1>2

\* The inductive invariant says what RingHoldsLatest says.
LEMMA CountedIsLatest == IInv => RingHoldsLatest
<1> SUFFICES ASSUME IInv PROVE RingHoldsLatest
  OBVIOUS
<1>1. PICK c \in 0 .. MaxTransitions, s \in 0 .. MaxTransitions : Counted(c, s)
  BY DEF IInv
<1> DEFINE started == CHOOSE k \in 0 .. MaxTransitions : Started = 1 .. k
<1> DEFINE latest == CHOOSE k \in 0 .. MaxTransitions : Created = 1 .. k
<1>2. started \in 0 .. MaxTransitions /\ Started = 1 .. started
  BY <1>1 DEF Counted
<1>3. latest \in 0 .. MaxTransitions /\ Created = 1 .. latest
  BY <1>1 DEF Counted
<1>4. started = s /\ latest = c
  <2> HIDE DEF started, latest
  <2> QED
    BY <1>1, <1>2, <1>3, IntervalEnd, RingAssumption DEF Counted
<1>5. ring = [i \in 1 .. (IF s < RingMax THEN s ELSE RingMax) |-> change[s - i + 1]]
  BY <1>1 DEF Counted, RingOf, Smaller
<1>6. \A n \in Created :
        /\ change[n].old # change[n].new
        /\ change[n].new = IF n = c THEN lastNotified ELSE change[n + 1].old
  BY <1>1 DEF Counted
<1> HIDE DEF started, latest
<1>7. /\ ring = [i \in 1 .. (IF started < RingMax THEN started ELSE RingMax) |->
                   change[started - i + 1]]
      /\ \A n \in Created :
           /\ change[n].old # change[n].new
           /\ change[n].new = IF n = latest THEN lastNotified ELSE change[n + 1].old
  BY <1>4, <1>5, <1>6
<1>8. QED
  BY <1>7 DEF RingHoldsLatest, started, latest

-----------------------------------------------------------------------------
\* A process that has just started has announced nothing.
LEMMA FreshIInv ==
  ASSUME macro \in MacroRegimes, lastNotified = NoRegime, ring = <<>>,
         pc = Fresh.pc, change = Fresh.change
  PROVE  IInv
<1>1. pc = [n \in Tasks |-> "none"] /\ change = [n \in Tasks |-> Nothing]
  BY DEF Fresh
<1>2. Created = {} /\ Started = {}
  BY <1>1 DEF Created, Started
<1>3. BroadcastTypes
  BY <1>1, <1>2 DEF BroadcastTypes
<1>4. RingOf(0) = <<>>
  BY RingAssumption DEF RingOf, Smaller
<1>5. 0 \in 0 .. MaxTransitions /\ 1 .. 0 = {}
  BY RingAssumption
<1>6. Counted(0, 0)
  BY <1>2, <1>4, <1>5 DEF Counted
<1>7. QED
  BY <1>3, <1>5, <1>6 DEF IInv

\* Steps after a broadcast's first await change nothing the ring depends on.
LEMMA LaterStep ==
  ASSUME IInv, UNCHANGED <<macro, lastNotified, ring, change>>,
         pc' \in [Tasks -> {"none", "ready", "email", "list", "push", "done"}],
         \A n \in Tasks : (pc'[n] \in {"none", "ready"} \/ pc[n] \in {"none", "ready"})
                            => pc'[n] = pc[n]
  PROVE  IInv'
<1>1. Created' = Created /\ Started' = Started
  BY DEF Created, Started
<1>2. BroadcastTypes'
  BY <1>1 DEF IInv, BroadcastTypes
<1>3. PICK c \in 0 .. MaxTransitions, s \in 0 .. MaxTransitions : Counted(c, s)
  BY DEF IInv
<1>4. Counted(c, s)'
  BY <1>1, <1>3 DEF Counted, RingOf
<1>5. QED
  BY <1>2, <1>4 DEF IInv

\* Starting broadcasts start in the order in which they were created.
LEMMA NextToStart ==
  ASSUME IInv, NEW n \in Tasks, StartBroadcast(n),
         NEW c \in 0 .. MaxTransitions, NEW s \in 0 .. MaxTransitions, Counted(c, s)
  PROVE  n = s + 1 /\ n <= c
<1>1. c \in Nat /\ s \in Nat /\ n \in Nat
  BY RingAssumption DEF Tasks
<1>2. n \in Created /\ n \notin Started
  BY DEF StartBroadcast, Created, Started
<1>3. n <= c /\ s < n
  BY <1>1, <1>2 DEF Counted, Tasks
<1>4. s + 1 \in Created /\ s + 1 \notin Started
  BY <1>1, <1>3 DEF Counted
<1>5. pc[s + 1] = "ready"
  BY <1>4 DEF Started
<1>6. ~(s + 1 < n)
  BY <1>1, <1>5 DEF StartBroadcast
<1>7. QED
  BY <1>1, <1>3, <1>6

\* A transition is put before the ring's entries, the oldest of which goes.
LEMMA RecordedRing ==
  ASSUME NEW s \in Nat, ring = RingOf(s), UNCHANGED change,
         \A n \in 1 .. s + 1 : change[n] \in Transitions,
         ring' = Recorded(change[s + 1])
  PROVE  ring' = RingOf(s + 1)'
<1> DEFINE m == Smaller(s, RingMax)
<1> DEFINE inserted == <<change[s + 1]>> \o ring
<1>1. m \in Nat /\ m <= s /\ m <= RingMax /\ RingMax \in Nat \ {0}
  BY RingAssumption DEF Smaller
<1>2. ring = [i \in 1 .. m |-> change[s - i + 1]]
  BY DEF RingOf
<1> HIDE DEF m
<1>3. \A i \in 1 .. m : s - i + 1 \in 1 .. s + 1
  BY <1>1
<1>4. ring \in Seq(Transitions) /\ Len(ring) = m
  BY <1>1, <1>2, <1>3
<1>5. change[s + 1] \in Transitions
  OBVIOUS
<1>6. /\ inserted \in Seq(Transitions) /\ Len(inserted) = m + 1
      /\ inserted[1] = change[s + 1]
      /\ \A i \in 2 .. m + 1 : inserted[i] = ring[i - 1]
  BY <1>1, <1>4, <1>5
<1>7. \A i \in 1 .. m + 1 : inserted[i] = change[(s + 1) - i + 1]
  <2> SUFFICES ASSUME NEW i \in 1 .. m + 1 PROVE inserted[i] = change[(s + 1) - i + 1]
    OBVIOUS
  <2>1. CASE i = 1
    BY <1>6, <2>1
  <2>2. CASE i # 1
    <3>1. i \in 2 .. m + 1 /\ i - 1 \in 1 .. m /\ s - (i - 1) + 1 = (s + 1) - i + 1
      BY <1>1, <2>2
    <3>2. QED
      BY <1>2, <1>6, <3>1
  <2>3. QED
    BY <2>1, <2>2
<1> HIDE DEF inserted
<1>8. CASE s < RingMax
  <2>1. m + 1 <= RingMax /\ Smaller(s + 1, RingMax) = m + 1
    BY <1>1, <1>8 DEF m, Smaller
  <2>2. ring' = inserted
    BY <1>1, <1>6, <2>1 DEF Recorded, inserted
  <2>3. inserted = [i \in 1 .. m + 1 |-> change[(s + 1) - i + 1]]
    BY <1>1, <1>6, <1>7
  <2>4. QED
    BY <2>1, <2>2, <2>3 DEF RingOf
<1>9. CASE ~(s < RingMax)
  <2>1. m = RingMax /\ Smaller(s + 1, RingMax) = RingMax
    BY <1>1, <1>9 DEF m, Smaller
  <2>2. ring' = SubSeq(inserted, 1, RingMax)
    BY <1>1, <1>6, <2>1 DEF Recorded, Front, inserted
  <2>3. SubSeq(inserted, 1, RingMax) = [i \in 1 .. RingMax |-> inserted[i]]
    BY <1>1, <1>6, <2>1
  <2>4. ring' = [i \in 1 .. RingMax |-> change[(s + 1) - i + 1]]
    BY <1>1, <1>7, <2>1, <2>2, <2>3
  <2>5. QED
    BY <2>1, <2>4 DEF RingOf
<1>10. QED
  BY <1>8, <1>9

LEMMA StartStep == ASSUME IInv, NEW n \in Tasks, StartBroadcast(n) PROVE IInv'
<1>1. PICK c \in 0 .. MaxTransitions, s \in 0 .. MaxTransitions : Counted(c, s)
  BY DEF IInv
<1>2. n = s + 1 /\ n <= c /\ s + 1 \in 0 .. MaxTransitions /\ s \in Nat
  BY <1>1, NextToStart, RingAssumption
<1>3. pc' = [pc EXCEPT ![n] = "email"] /\ pc[n] = "ready"
  BY DEF StartBroadcast
<1>4. Created' = Created /\ Started' = Started \cup {n}
  BY <1>3 DEF Created, Started, IInv, BroadcastTypes
<1>5. Started' = 1 .. s + 1
  BY <1>1, <1>2, <1>4 DEF Counted
<1>6. ring' = RingOf(s + 1)'
  <2>1. \A k \in 1 .. s + 1 : change[k] \in Transitions
    BY <1>1, <1>2 DEF Counted
  <2>2. QED
    BY <1>1, <1>2, <2>1, RecordedRing DEF StartBroadcast, Counted
<1>7. Counted(c, s + 1)'
  BY <1>1, <1>2, <1>4, <1>5, <1>6 DEF Counted, StartBroadcast
<1>8. BroadcastTypes'
  BY <1>3, <1>4 DEF StartBroadcast, IInv, BroadcastTypes
<1>9. QED
  BY <1>1, <1>2, <1>7, <1>8 DEF IInv

\* A transition's broadcast is the next one and starts where the last one ended.
LEMMA BuildPayloadStep ==
  ASSUME IInv, NEW regime \in Regimes, BuildPayload(regime)
  PROVE  IInv'
<1>1. PICK c \in 0 .. MaxTransitions, s \in 0 .. MaxTransitions : Counted(c, s)
  BY DEF IInv
<1>2. regime # NoRegime
  BY RegimeAssumption DEF Regimes, NoRegime
<1>3. CASE lastNotified \in {NoRegime, regime}
  <2>1. UNCHANGED <<pc, change, ring, macro>> /\ lastNotified' = regime
    BY <1>3 DEF BuildPayload, broadcast
  <2>2. Created' = Created /\ Started' = Started
    BY <2>1 DEF Created, Started
  <2>3. lastNotified = NoRegime => c = 0
    <3> SUFFICES ASSUME lastNotified = NoRegime, c # 0 PROVE FALSE
      OBVIOUS
    <3>1. 1 \in Created
      BY <1>1 DEF Counted
    <3>2. QED
      BY <3>1 DEF IInv, BroadcastTypes
  <2>4. Counted(c, s)'
    BY <1>1, <1>3, <2>1, <2>2, <2>3 DEF Counted, RingOf
  <2>5. BroadcastTypes'
    BY <1>2, <2>1, <2>2 DEF IInv, BroadcastTypes
  <2>6. QED
    BY <2>4, <2>5 DEF IInv
<1>4. CASE lastNotified \notin {NoRegime, regime}
  <2>1. PICK n \in Tasks :
          /\ Created = 1 .. (n - 1)
          /\ pc' = [pc EXCEPT ![n] = "ready"]
          /\ change' = [change EXCEPT ![n] = [old |-> lastNotified, new |-> regime]]
    BY <1>4 DEF BuildPayload
  <2>2. c \in Nat /\ s \in Nat /\ n - 1 \in Nat /\ n \in 0 .. MaxTransitions
    BY RingAssumption DEF Tasks
  <2>3. n = c + 1
    BY <1>1, <2>1, <2>2, IntervalEnd DEF Counted
  <2>4. n \notin Created /\ n \in DOMAIN pc /\ n \in DOMAIN change
    BY <2>1, <2>2 DEF IInv, BroadcastTypes
  <2>5. Created' = Created \cup {n} /\ Started' = Started
    BY <2>1, <2>4 DEF Created, Started, IInv, BroadcastTypes
  <2>6. Created' = 1 .. c + 1
    BY <1>1, <2>2, <2>3, <2>5 DEF Counted
  <2>7. change'[n] = [old |-> lastNotified, new |-> regime] /\ change'[n] \in Transitions
    BY <1>4, <2>1, <2>4 DEF Transitions, IInv, BroadcastTypes
  <2>8. \A k \in 1 .. c : change'[k] = change[k]
    BY <2>1, <2>2, <2>3 DEF IInv, BroadcastTypes
  <2>9. ring' = RingOf(s)'
    <3>1. \A i \in 1 .. Smaller(s, RingMax) : s - i + 1 \in 1 .. c
      BY <1>1, <2>2, RingAssumption DEF Counted, Smaller
    <3>2. QED
      BY <1>1, <2>8, <3>1 DEF Counted, RingOf, BuildPayload
  <2>10. ASSUME NEW k \in 1 .. c + 1
         PROVE  /\ change'[k] \in Transitions
                /\ change'[k].old # change'[k].new
                /\ change'[k].new = IF k = c + 1 THEN lastNotified' ELSE change'[k + 1].old
    <3>1. CASE k = c + 1
      BY <1>4, <2>3, <2>7, <3>1 DEF BuildPayload
    <3>2. CASE k = c
      BY <1>1, <2>2, <2>3, <2>7, <2>8, <3>2 DEF Counted
    <3>3. CASE k < c
      BY <1>1, <2>2, <2>8, <3>3 DEF Counted
    <3>4. QED
      BY <2>2, <3>1, <3>2, <3>3
  <2>11. Counted(c + 1, s)'
    BY <1>1, <2>2, <2>5, <2>6, <2>9, <2>10 DEF Counted
  <2>12. BroadcastTypes'
    BY <1>2, <2>1, <2>4, <2>5, <2>7 DEF BuildPayload, IInv, BroadcastTypes
  <2>13. QED
    BY <2>2, <2>3, <2>11, <2>12 DEF IInv
<1>5. QED
  BY <1>3, <1>4

LEMMA NextIInv == IInv /\ [Next]_vars => IInv'
<1> SUFFICES ASSUME IInv, [Next]_vars PROVE IInv'
  OBVIOUS
<1>1. ASSUME NEW a \in BOOLEAN, NEW b \in BOOLEAN, BuildPayload(LiveRegime(a, b)) PROVE IInv'
  <2>1. LiveRegime(a, b) \in Regimes
    BY DEF LiveRegime, Regimes, IInv, BroadcastTypes
  <2>2. QED
    BY <1>1, <2>1, BuildPayloadStep
<1>2. ASSUME NEW n \in Tasks, StartBroadcast(n) PROVE IInv'
  BY <1>2, StartStep
<1>3. ASSUME NEW n \in Tasks,
             Email(n) \/ ListSubscriptions(n) \/ Push(n) \/ DeleteStale(n) \/ Finish(n)
      PROVE  IInv'
  <2>1. UNCHANGED <<macro, lastNotified, ring, change>>
    BY <1>3 DEF Email, ListSubscriptions, Push, DeleteStale, Finish
  <2>2. pc' = pc \/ (/\ pc[n] \notin {"none", "ready"}
                    /\ \E to \in {"list", "push", "done"} : pc' = [pc EXCEPT ![n] = to])
    BY <1>3 DEF Email, ListSubscriptions, Push, DeleteStale, Finish
  <2>3. pc' \in [Tasks -> {"none", "ready", "email", "list", "push", "done"}]
    BY <2>2 DEF IInv, BroadcastTypes
  <2>4. \A k \in Tasks : (pc'[k] \in {"none", "ready"} \/ pc[k] \in {"none", "ready"})
                           => pc'[k] = pc[k]
    BY <2>2 DEF IInv, BroadcastTypes
  <2>5. QED
    BY <2>1, <2>3, <2>4, LaterStep
<1>4. CASE Restart
  <2>1. /\ macro' \in MacroRegimes /\ lastNotified' = NoRegime /\ ring' = <<>>
        /\ pc' = [n \in Tasks |-> "none"] /\ change' = [n \in Tasks |-> Nothing]
    BY <1>4 DEF Restart, Fresh, broadcast, IInv, BroadcastTypes
  <2>2. Created' = {} /\ Started' = {}
    BY <2>1 DEF Created, Started
  <2>3. BroadcastTypes'
    BY <2>1, <2>2 DEF BroadcastTypes
  <2>4. RingOf(0)' = <<>>
    BY RingAssumption DEF RingOf, Smaller
  <2>5. 0 \in 0 .. MaxTransitions /\ 1 .. 0 = {}
    BY RingAssumption
  <2>6. Counted(0, 0)'
    BY <2>1, <2>2, <2>4, <2>5 DEF Counted
  <2>7. QED
    BY <2>3, <2>5, <2>6 DEF IInv
<1>5. ASSUME UNCHANGED <<macro, lastNotified, ring, broadcast>> PROVE IInv'
  <2>1. UNCHANGED <<macro, lastNotified, ring, change, pc>>
    BY <1>5 DEF broadcast
  <2>2. QED
    BY <2>1, LaterStep DEF IInv, BroadcastTypes
<1>6. CASE \E e \in Endpoints : Subscribe(e) \/ Unsubscribe(e) \/ ExpireEndpoint(e)
  BY <1>5, <1>6 DEF Subscribe, Unsubscribe, ExpireEndpoint
<1>7. CASE UNCHANGED vars
  BY <1>5, <1>7 DEF vars
<1>8. QED
  BY <1>1, <1>2, <1>3, <1>4, <1>6, <1>7 DEF Next, BroadcastStep

-----------------------------------------------------------------------------
\* The broadcasts that were created and those that have started are the first
\* ones, and the ring is made of the latter (_record_regime_alert).
THEOREM BroadcastsInduct == Spec => []IInv
<1>1. Init => IInv
  BY FreshIInv DEF Init
<1>2. QED
  BY <1>1, NextIInv, PTL DEF Spec

\* The ring lists the latest transitions of this life of the process, newest first
\* and none missing, and each starts from the regime the one before ended in.
THEOREM RingIsLatest == Spec => []RingHoldsLatest
BY BroadcastsInduct, CountedIsLatest, PTL

-----------------------------------------------------------------------------
(* The newest record of a store (MacroRegimes) *)

\* A set of naturals that is not empty has a least member, and Min is it.
LEMMA MinIsLeast ==
  ASSUME NEW S, S \subseteq Nat, S # {}
  PROVE  Min(S) \in S /\ \A n \in S : Min(S) <= n
BY LeastNat DEF Min

\* A store of N dated records, and the places of those up to a day and of the newest.
Dated(store, N) == DOMAIN store = 1 .. N /\ \A k \in 1 .. N : store[k].on \in Int
Upto(store, d) == {k \in DOMAIN store : store[k].on <= d}
Newest(store, d) == {k \in Upto(store, d) : \A j \in Upto(store, d) : store[j].on <= store[k].on}

LEMMA LatestIs ==
  ASSUME NEW store, NEW d
  PROVE  LatestOnOrBefore(store, d) = IF Upto(store, d) = {} THEN Nil ELSE store[Min(Newest(store, d))]
BY DEF LatestOnOrBefore, Upto, Newest

\* Among the records up to a day there is a first of the newest.
LEMMA NewestIsThere ==
  ASSUME NEW N \in Nat, NEW store, Dated(store, N), NEW d \in Int, Upto(store, d) # {}
  PROVE  Min(Newest(store, d)) \in Upto(store, d)
<1> DEFINE upto == Upto(store, d)
           newest == Newest(store, d)
           ages == {d - store[k].on : k \in upto}
<1>1. upto \subseteq 1 .. N /\ upto # {}
  BY DEF Dated, Upto
<1>2. \A k \in upto : store[k].on \in Int /\ store[k].on <= d
  BY DEF Dated, Upto
<1>3. newest = {k \in upto : \A j \in upto : store[j].on <= store[k].on}
  BY DEF Newest
<1> HIDE DEF upto, newest
<1>4. ages \subseteq Nat /\ ages # {}
  <2>1. \A k \in upto : d - store[k].on \in Nat
    BY <1>2
  <2>2. QED
    BY <1>1, <2>1
<1>5. Min(ages) \in ages /\ \A a \in ages : Min(ages) <= a
  <2> HIDE DEF ages
  <2>1. QED
    BY <1>4, MinIsLeast
<1>6. PICK k \in upto : \A j \in upto : d - store[k].on <= d - store[j].on
  BY <1>5
<1>7. k \in newest
  BY <1>2, <1>3, <1>6
<1>8. newest \subseteq Nat /\ newest \subseteq upto
  BY <1>1, <1>3
<1>9. Min(newest) \in newest
  BY <1>7, <1>8, MinIsLeast
<1>10. QED
  BY <1>8, <1>9 DEF upto, newest

\* A store with a record on or before the day answers with such a record.
LEMMA LatestIsStored ==
  ASSUME NEW N \in Nat, NEW store, Dated(store, N), NEW d \in Int,
         \E k \in 1 .. N : store[k].on <= d
  PROVE  \E k \in 1 .. N : LatestOnOrBefore(store, d) = store[k] /\ store[k].on <= d
<1>1. Upto(store, d) # {}
  BY DEF Dated, Upto
<1>2. Min(Newest(store, d)) \in Upto(store, d)
  BY <1>1, NewestIsThere
<1>3. QED
  BY <1>1, <1>2, LatestIs DEF Dated, Upto

\* The records before the k-th.
Earlier(store, k) == [j \in 1 .. k - 1 |-> store[j]]

\* What is saved for later days changes no answer for a day before them.
LEMMA LaterDaysDoNotCount ==
  ASSUME NEW N \in Nat, NEW store, Dated(store, N), NEW d \in Int, NEW c \in 1 .. N,
         \A k \in c .. N : store[k].on > d
  PROVE  LatestOnOrBefore(store, d) = LatestOnOrBefore(Earlier(store, c), d)
<1> DEFINE earlier == Earlier(store, c)
<1>1. DOMAIN earlier = 1 .. c - 1 /\ \A k \in 1 .. c - 1 : earlier[k] = store[k]
  BY DEF Earlier
<1> HIDE DEF earlier
<1>2. Upto(earlier, d) = Upto(store, d) /\ Upto(store, d) \subseteq 1 .. c - 1
  <2>1. \A k \in 1 .. N : store[k].on <= d => k \in 1 .. c - 1
    BY DEF Dated
  <2>2. QED
    BY <1>1, <2>1 DEF Dated, Upto
<1>3. Newest(earlier, d) = Newest(store, d)
  BY <1>1, <1>2 DEF Newest
<1>4. CASE Upto(store, d) = {}
  BY <1>2, <1>4, LatestIs DEF earlier
<1>5. CASE Upto(store, d) # {}
  <2>1. Min(Newest(store, d)) \in 1 .. c - 1
    BY <1>2, <1>5, NewestIsThere
  <2>2. QED
    BY <1>1, <1>2, <1>3, <1>5, <2>1, LatestIs DEF earlier
<1>6. QED
  BY <1>4, <1>5 DEF earlier

-----------------------------------------------------------------------------
(* The stores *)

\* What a regime says of the regimes before it was so when it was saved.
Transitioned(list, k) ==
  list[k].transition =
    RegimeTransition(list[k], LatestOnOrBefore(Earlier(list, k), list[k].asked - 1))

SnapshotsOK(store) ==
  /\ \E S : store \in Seq(S)
  /\ \A k \in DOMAIN store : store[k].id = k /\ store[k].on \in Days

RegimeOK(r, store) ==
  /\ r.label \in Labels /\ r.confidence \in Confidences /\ r.asked \in Days
  /\ r.snapshot \in DOMAIN store /\ r.on = store[r.snapshot].on

RegimesOK(list, store) ==
  /\ \E R : list \in Seq(R)
  /\ \A k \in DOMAIN list : /\ list[k].id = k /\ RegimeOK(list[k], store)
                            /\ Transitioned(list, k)

LEMMA Days_Int == Days \subseteq Int
BY MaxDayAssumption DEF Days

LEMMA SnapshotsAreDated ==
  ASSUME NEW store, SnapshotsOK(store)
  PROVE  Len(store) \in Nat /\ DOMAIN store = 1 .. Len(store) /\ Dated(store, Len(store))
<1>1. PICK S : store \in Seq(S)
  BY DEF SnapshotsOK
<1>2. Len(store) \in Nat /\ DOMAIN store = 1 .. Len(store)
  BY <1>1, LenProperties
<1>3. QED
  BY <1>2, Days_Int DEF SnapshotsOK, Dated

LEMMA RegimesAreDated ==
  ASSUME NEW list, NEW store, SnapshotsOK(store), RegimesOK(list, store)
  PROVE  Len(list) \in Nat /\ DOMAIN list = 1 .. Len(list) /\ Dated(list, Len(list))
<1>1. PICK R : list \in Seq(R)
  BY DEF RegimesOK
<1>2. Len(list) \in Nat /\ DOMAIN list = 1 .. Len(list)
  BY <1>1, LenProperties
<1>3. QED
  BY <1>2, Days_Int DEF RegimesOK, RegimeOK, SnapshotsOK, Dated

\* A record more: the others keep their places.
LEMMA Appended ==
  ASSUME NEW list, \E R : list \in Seq(R), NEW x
  PROVE  /\ \E R : Append(list, x) \in Seq(R)
         /\ Len(list) \in Nat /\ DOMAIN list = 1 .. Len(list)
         /\ DOMAIN Append(list, x) = 1 .. Len(list) + 1
         /\ \A k \in 1 .. Len(list) : Append(list, x)[k] = list[k]
         /\ Append(list, x)[Len(list) + 1] = x
<1>1. PICK R : list \in Seq(R)
  OBVIOUS
<1> DEFINE D == R \cup {x}
<1>2. list \in Seq(D)
  BY <1>1, SeqMonotonic
<1>3. x \in D
  OBVIOUS
<1> HIDE DEF D
<1>4. QED
  BY <1>2, <1>3, AppendProperties, LenProperties

LEMMA SnapshotAppended ==
  ASSUME NEW store, SnapshotsOK(store), NEW s, s.id = Len(store) + 1, s.on \in Days
  PROVE  /\ SnapshotsOK(Append(store, s))
         /\ \A list : RegimesOK(list, store) => RegimesOK(list, Append(store, s))
<1> DEFINE longer == Append(store, s)
<1>1. /\ \E R : longer \in Seq(R)
      /\ Len(store) \in Nat /\ DOMAIN store = 1 .. Len(store)
      /\ DOMAIN longer = 1 .. Len(store) + 1
      /\ \A k \in 1 .. Len(store) : longer[k] = store[k]
      /\ longer[Len(store) + 1] = s
  BY Appended DEF SnapshotsOK
<1> HIDE DEF longer
<1>2. SnapshotsOK(longer)
  BY <1>1 DEF SnapshotsOK
<1>3. ASSUME NEW r, RegimeOK(r, store) PROVE RegimeOK(r, longer)
  BY <1>1, <1>3 DEF RegimeOK
<1>4. \A list : RegimesOK(list, store) => RegimesOK(list, longer)
  BY <1>3 DEF RegimesOK
<1>5. QED
  BY <1>2, <1>4 DEF longer

LEMMA RegimeAppended ==
  ASSUME NEW list, NEW store, SnapshotsOK(store), RegimesOK(list, store),
         NEW r, r.id = Len(list) + 1, RegimeOK(r, store),
         r.transition = RegimeTransition(r, LatestOnOrBefore(list, r.asked - 1))
  PROVE  RegimesOK(Append(list, r), store)
<1> DEFINE longer == Append(list, r)
           n == Len(list)
<1>1. /\ \E R : longer \in Seq(R)
      /\ n \in Nat /\ DOMAIN list = 1 .. n /\ DOMAIN longer = 1 .. n + 1
      /\ \A k \in 1 .. n : longer[k] = list[k]
      /\ longer[n + 1] = r
  <2>1. \E R : list \in Seq(R)
    BY DEF RegimesOK
  <2> HIDE DEF longer, n
  <2>2. /\ \E R : Append(list, r) \in Seq(R)
        /\ Len(list) \in Nat /\ DOMAIN list = 1 .. Len(list)
        /\ DOMAIN Append(list, r) = 1 .. Len(list) + 1
        /\ \A k \in 1 .. Len(list) : Append(list, r)[k] = list[k]
        /\ Append(list, r)[Len(list) + 1] = r
    BY ONLY <2>1, Appended
  <2>3. QED
    BY <2>2 DEF longer, n
<1>2. list = [j \in 1 .. n |-> list[j]]
  <2>1. PICK R : list \in Seq(R)
    BY DEF RegimesOK
  <2>2. QED
    BY <2>1, LenProperties
<1>3. r.id = n + 1
  OBVIOUS
<1> HIDE DEF longer, n
<1>4. ASSUME NEW k \in 1 .. n PROVE Earlier(longer, k) = Earlier(list, k)
  BY <1>1 DEF Earlier
<1>5. Earlier(longer, n + 1) = list
  BY <1>1, <1>2 DEF Earlier
<1>6. ASSUME NEW k \in 1 .. n + 1
      PROVE  longer[k].id = k /\ RegimeOK(longer[k], store) /\ Transitioned(longer, k)
  <2>1. CASE k \in 1 .. n
    <3>1. list[k].id = k /\ RegimeOK(list[k], store) /\ Transitioned(list, k)
      BY <1>1, <2>1 DEF RegimesOK
    <3>2. longer[k] = list[k] /\ Earlier(longer, k) = Earlier(list, k)
      BY <1>1, <1>4, <2>1
    <3>3. QED
      BY <3>1, <3>2 DEF Transitioned
  <2>2. CASE k = n + 1
    BY <1>1, <1>3, <1>5, <2>2 DEF Transitioned
  <2>3. QED
    BY <1>1, <2>1, <2>2
<1>7. QED
  BY <1>1, <1>6 DEF RegimesOK, longer

\* The services fill in what a build left open, and keep the rest.
LEMMA TransitionReads ==
  ASSUME NEW a, NEW b, a.label = b.label, a.confidence = b.confidence, NEW prev
  PROVE  RegimeTransition(a, prev) = RegimeTransition(b, prev)
BY DEF RegimeTransition

LEMMA BuiltRegime ==
  ASSUME NEW id, NEW s
  PROVE  LET r == BuildRegime(id, s) IN
         /\ r.id = id /\ r.on = s.on /\ r.snapshot = s.id
         /\ r.label \in Labels /\ r.confidence \in Confidences
<1> DEFINE label == RegimeLabel(s)
           q == ScoreSnapshot(s.states)
           confidence == RegimeConfidence(s, label, q)
<1>1. label \in Labels
  BY DEF RegimeLabel, Labels
<1>2. confidence \in Confidences
  BY DEF RegimeConfidence, StateConfidence, Confidences
<1> HIDE DEF label, q, confidence
<1>3. QED
  BY <1>1, <1>2 DEF BuildRegime, label, q, confidence

LEMMA FilledIn ==
  ASSUME NEW id, NEW s, NEW d, NEW t
  PROVE  LET b == BuildRegime(id, s)
             r == [b EXCEPT !.asked = d, !.transition = t]
         IN /\ r.id = b.id /\ r.on = b.on /\ r.snapshot = b.snapshot /\ r.label = b.label
            /\ r.confidence = b.confidence /\ r.asked = d /\ r.transition = t
BY DEF BuildRegime

\* Two regimes that differ at most in what a stamp changes.
SameRegime(x, y) ==
  /\ x.id = y.id /\ x.on = y.on /\ x.snapshot = y.snapshot /\ x.label = y.label
  /\ x.confidence = y.confidence /\ x.asked = y.asked /\ x.transition = y.transition

LEMMA StampKeeps ==
  ASSUME NEW id, NEW s, NEW d, NEW t, NEW x, NEW values
  PROVE  SameRegime(Stamped([BuildRegime(id, s) EXCEPT !.asked = d, !.transition = t], x, values),
                    [BuildRegime(id, s) EXCEPT !.asked = d, !.transition = t])
BY DEF BuildRegime, Stamped, SameRegime

-----------------------------------------------------------------------------
(* The steps *)

\* A snapshot is saved under the next identifier, for the day it was asked for.
LEMMA SavedSnapshotIs ==
  ASSUME NEW obs, NEW d
  PROVE  SavedSnapshot(obs, d).id = Len(snapshots) + 1 /\ SavedSnapshot(obs, d).on = d
<1> DEFINE sel == SelectLatest(obs, d)
           cmp == CompareSnapshotStates(BuildSnapshot(Len(snapshots) + 1, obs, d),
                                        LatestOnOrBefore(snapshots, d - 1))
<1>1. SavedSnapshot(obs, d) =
        [BuildSnapshot(Len(snapshots) + 1, obs, d) EXCEPT !.comparison = cmp,
                                                          !.keyChanges = cmp.indicators]
  BY DEF SavedSnapshot
<1> HIDE DEF cmp
<1>2. QED
  BY <1>1 DEF BuildSnapshot

\* A regime that is saved may follow the regimes saved before it, stamped or not.
LEMMA SavedRegimeIs ==
  ASSUME NEW store, SnapshotsOK(store), NEW d \in Days, Upto(store, d) # {},
         NEW r, \/ r = SavedRegime(store, d)
                \/ \E s, values : r = Stamped(SavedRegime(store, d), s, values)
  PROVE  /\ r.id = Len(regimes) + 1 /\ RegimeOK(r, store)
         /\ r.transition = RegimeTransition(r, LatestOnOrBefore(regimes, r.asked - 1))
<1> DEFINE id == Len(regimes) + 1
           s == LatestOnOrBefore(store, d)
           b == BuildRegime(id, s)
           t == RegimeTransition(b, LatestOnOrBefore(regimes, d - 1))
           f == [b EXCEPT !.asked = d, !.transition = t]
<1>1. SavedRegime(store, d) = f
  BY DEF SavedRegime
<1>2. /\ b.id = id /\ b.on = s.on /\ b.snapshot = s.id
      /\ b.label \in Labels /\ b.confidence \in Confidences
  BY BuiltRegime
<1>3. /\ f.id = b.id /\ f.on = b.on /\ f.snapshot = b.snapshot /\ f.label = b.label
      /\ f.confidence = b.confidence /\ f.asked = d /\ f.transition = t
  BY FilledIn
<1>4. SameRegime(r, f)
  <2>1. CASE r = SavedRegime(store, d)
    BY <1>1, <2>1 DEF SameRegime
  <2>2. CASE \E x, values : r = Stamped(SavedRegime(store, d), x, values)
    <3>1. PICK x, values : r = Stamped(f, x, values)
      BY <1>1, <2>2
    <3>2. SameRegime(Stamped(f, x, values), f)
      BY StampKeeps
    <3> HIDE DEF f
    <3>3. QED
      BY <3>1, <3>2
  <2>3. QED
    BY <2>1, <2>2
<1>5. s.id \in DOMAIN store /\ s.on = store[s.id].on
  <2>1. Len(store) \in Nat /\ DOMAIN store = 1 .. Len(store) /\ Dated(store, Len(store)) /\ d \in Int
    BY SnapshotsAreDated, Days_Int
  <2>2. \E k \in 1 .. Len(store) : store[k].on <= d
    BY <2>1 DEF Upto
  <2>3. PICK k \in 1 .. Len(store) : s = store[k]
    <3> HIDE DEF s
    <3>1. QED
      BY <2>1, <2>2, LatestIsStored DEF s
  <2>4. QED
    BY <2>1, <2>3 DEF SnapshotsOK
<1> HIDE DEF id, s, b, t, f
<1>6. r.transition = RegimeTransition(r, LatestOnOrBefore(regimes, r.asked - 1))
  BY <1>3, <1>4, TransitionReads DEF t, SameRegime
<1>7. RegimeOK(r, store)
  BY <1>2, <1>3, <1>4, <1>5 DEF RegimeOK, SameRegime
<1>8. QED
  BY <1>2, <1>3, <1>4, <1>6, <1>7 DEF id, SameRegime

\* The inductive invariant.
MacroInv ==
  /\ day \in Days
  /\ seeder \in [phase : {"down", "fetching", "sleeping", "off"}, target : 1 .. day,
                 force : BOOLEAN]
  /\ SnapshotsOK(snapshots)
  /\ RegimesOK(regimes, snapshots)

LEMMA EmptyStores == SnapshotsOK(<<>>) /\ RegimesOK(<<>>, <<>>)
<1>1. <<>> \in Seq({}) /\ DOMAIN <<>> = {}
  BY EmptySeq
<1>2. \E S : <<>> \in Seq(S)
  BY <1>1
<1>3. QED
  BY <1>1, <1>2 DEF SnapshotsOK, RegimesOK

LEMMA InitMacro == MacroInit => MacroInv
BY EmptyStores, MaxDayAssumption DEF MacroInit, MacroInv, Days

LEMMA MacroStep ==
  ASSUME MacroInv, [MacroNext]_macroVars
  PROVE  MacroInv'
<1> DEFINE target == seeder.target
<1>1. day \in Int /\ target \in Days /\ MaxDay \in Nat
  BY MaxDayAssumption DEF MacroInv, Days
<1>2. ASSUME NEW seed \in BOOLEAN, Start(seed) PROVE MacroInv'
  BY <1>1, <1>2 DEF Start, MacroInv, Days
<1>3. ASSUME NEW values \in Readings, Seed(values) PROVE MacroInv'
  <2> DEFINE s == SavedSnapshot(SyntheticObservations(values, target), target)
             store == Append(snapshots, s)
             r == Stamped(SavedRegime(store, target), s, values)
  <2>1. seeder' \in [phase : {"down", "fetching", "sleeping", "off"}, target : 1 .. day',
                     force : BOOLEAN] /\ day' = day
    BY <1>3 DEF Seed, MacroInv
  <2>2. \/ UNCHANGED <<snapshots, regimes>>
        \/ snapshots' = store /\ regimes' = Append(regimes, r)
    BY <1>3 DEF Seed
  <2>3. s.id = Len(snapshots) + 1 /\ s.on = target
    BY SavedSnapshotIs
  <2> HIDE DEF s, target
  <2>4. SnapshotsOK(store) /\ RegimesOK(regimes, store)
    BY <1>1, <2>3, SnapshotAppended DEF MacroInv
  <2>5. Upto(store, target) # {}
    <3>1. PICK S : snapshots \in Seq(S)
      BY DEF MacroInv, SnapshotsOK
    <3>2. Len(store) = Len(snapshots) + 1 /\ Len(snapshots) + 1 \in DOMAIN store
          /\ store[Len(snapshots) + 1] = s
      BY Appended, <3>1
    <3>3. target \in Int
      BY <1>1, Days_Int
    <3> HIDE DEF store
    <3>4. QED
      BY <2>3, <3>2, <3>3 DEF Upto
  <2> HIDE DEF store
  <2>6. r.id = Len(regimes) + 1 /\ RegimeOK(r, store)
        /\ r.transition = RegimeTransition(r, LatestOnOrBefore(regimes, r.asked - 1))
    BY <1>1, <2>4, <2>5, SavedRegimeIs
  <2> HIDE DEF r
  <2>7. RegimesOK(Append(regimes, r), store)
    BY <2>4, <2>6, RegimeAppended
  <2>8. QED
    BY <2>1, <2>2, <2>4, <2>7 DEF MacroInv
<1>4. CASE HourlyRefresh
  BY <1>1, <1>4 DEF HourlyRefresh, MacroInv, Days
<1>5. CASE Stop
  BY <1>1, <1>5, EmptyStores DEF Stop, MacroInv, Days
<1>6. CASE Midnight
  BY <1>1, <1>6 DEF Midnight, MacroInv, Days
<1>7. ASSUME NEW d \in Days, BuildAndSaveRegime(d) PROVE MacroInv'
  <2> DEFINE r == SavedRegime(snapshots, d)
  <2>1. r.id = Len(regimes) + 1 /\ RegimeOK(r, snapshots)
        /\ r.transition = RegimeTransition(r, LatestOnOrBefore(regimes, r.asked - 1))
    BY <1>7, LatestIs, SavedRegimeIs DEF BuildAndSaveRegime, MacroInv
  <2>2. regimes' = Append(regimes, r)
    BY <1>7 DEF BuildAndSaveRegime
  <2> HIDE DEF r
  <2>3. RegimesOK(Append(regimes, r), snapshots)
    BY <2>1, RegimeAppended DEF MacroInv
  <2>4. QED
    BY <1>7, <2>2, <2>3 DEF BuildAndSaveRegime, MacroInv
<1>8. ASSUME NEW d \in Days, NEW feed \in Feeds, BuildAndSaveSnapshot(d, feed) PROVE MacroInv'
  <2> DEFINE obs == [k \in DOMAIN feed |-> [ind |-> feed[k].ind, on |-> d - feed[k].age,
                                            value |-> feed[k].value, lag |-> feed[k].lag]]
             s == SavedSnapshot(obs, d)
  <2>1. snapshots' = Append(snapshots, s)
    BY <1>8 DEF BuildAndSaveSnapshot
  <2>2. s.id = Len(snapshots) + 1 /\ s.on = d
    BY SavedSnapshotIs
  <2> HIDE DEF s
  <2>3. SnapshotsOK(snapshots') /\ RegimesOK(regimes, snapshots')
    BY <2>1, <2>2, SnapshotAppended DEF MacroInv
  <2>4. QED
    BY <1>8, <2>3 DEF BuildAndSaveSnapshot, MacroInv
<1>9. CASE UNCHANGED <<day, seeder, snapshots, regimes>>
  BY <1>9 DEF MacroInv
<1>10. QED
  BY <1>2, <1>3, <1>4, <1>5, <1>6, <1>7, <1>8, <1>9
     DEF MacroNext, GetLatestSignals, GetRegimeExplanation, macroVars

\* For any feeds, readings and days: the transition that build_and_save_regime stored
\* and the report that compare_regimes computes afresh agree on whether anything
\* changed, unless a day was filled in later or an older snapshot was taken.
THEOREM ReportsAgree == MacroSpec => []ChangeReportsAgree
<1>1. ASSUME MacroInv PROVE ChangeReportsAgree
  <2> SUFFICES ASSUME NEW d \in Days, ComparePair(d) # Nil,
                      ~\E k \in DOMAIN regimes : k > ComparePair(d)[1].id
                                                 /\ regimes[k].on < ComparePair(d)[1].on,
                      ComparePair(d)[1].asked = ComparePair(d)[1].on
               PROVE  IF CompareResponse(d).delta = Nil
                      THEN ComparePair(d)[1].transition.type = "initial"
                      ELSE ComparePair(d)[1].transition.changed
                             = (CompareResponse(d).delta.severity # "unchanged")
    BY DEF ChangeReportsAgree
  <2> DEFINE cur == LatestRegime(d)
             prev == LatestOnOrBefore(regimes, cur.on - 1)
             N == Len(regimes)
  <2>1. ComparePair(d) = <<cur, prev>> /\ cur # Nil
    BY DEF ComparePair
  <2>2. CompareResponse(d).delta = IF prev = Nil THEN Nil ELSE DetectRegimeChange(cur, prev)
    BY <2>1 DEF CompareResponse
  <2>3. N \in Nat /\ DOMAIN regimes = 1 .. N /\ Dated(regimes, N)
    BY <1>1, RegimesAreDated DEF MacroInv
  <2> HIDE DEF cur, prev, N
  <2>4. PICK c \in 1 .. N : cur = regimes[c]
    <3>1. Upto(regimes, d) # {}
      BY <2>1, LatestIs DEF cur, LatestRegime
    <3>2. d \in Int /\ \E k \in 1 .. N : regimes[k].on <= d
      BY <2>3, <3>1, Days_Int DEF Upto
    <3>3. QED
      BY <2>3, <3>2, LatestIsStored DEF cur, LatestRegime
  <2>5. /\ cur.id = c /\ cur.confidence \in Confidences /\ cur.on \in Int
        /\ cur.transition = RegimeTransition(cur, LatestOnOrBefore(Earlier(regimes, c), cur.asked - 1))
    BY <1>1, <2>3, <2>4 DEF MacroInv, RegimesOK, RegimeOK, Transitioned, Dated
  <2>6. cur.asked = cur.on
    BY <2>1
  <2>7. ASSUME NEW k \in c .. N PROVE regimes[k].on > cur.on - 1
    <3>1. k \in DOMAIN regimes /\ regimes[k].on \in Int
      BY <2>3 DEF Dated
    <3>2. CASE k = c
      BY <2>4, <2>5, <3>2
    <3>3. CASE k > c
      <4>1. ~(regimes[k].on < cur.on)
        BY <2>1, <2>5, <3>1, <3>3
      <4>2. QED
        BY <2>5, <3>1, <4>1
    <3>4. QED
      BY <3>2, <3>3
  <2>8. cur.transition = RegimeTransition(cur, prev)
    <3>1. cur.on - 1 \in Int
      BY <2>5
    <3>2. prev = LatestOnOrBefore(Earlier(regimes, c), cur.on - 1)
      BY <2>3, <2>7, <3>1, LaterDaysDoNotCount DEF prev
    <3>3. QED
      BY <2>5, <2>6, <3>2
  <2>9. CASE prev = Nil
    BY <2>1, <2>2, <2>8, <2>9 DEF RegimeTransition
  <2>10. CASE prev # Nil
    <3>1. prev.confidence \in Confidences
      <4>1. Upto(regimes, cur.on - 1) # {}
        BY <2>10, LatestIs DEF prev
      <4>2. cur.on - 1 \in Int /\ \E k \in 1 .. N : regimes[k].on <= cur.on - 1
        BY <2>3, <2>5, <4>1 DEF Upto
      <4>3. PICK k \in 1 .. N : prev = regimes[k]
        BY <2>3, <4>2, LatestIsStored DEF prev
      <4>4. QED
        BY <1>1, <2>3, <4>3 DEF MacroInv, RegimesOK, RegimeOK
    <3>2. DetectRegimeChange(cur, prev) \in ChangeReports
      BY <2>5, <2>10, <3>1 DEF DetectRegimeChange, ChangeReports, Severity, Confidences, Rank
    <3>3. (DetectRegimeChange(cur, prev).severity # "unchanged") = cur.transition.changed
      BY <2>5, <2>8, <2>10, <3>1
         DEF DetectRegimeChange, RegimeTransition, Severity, Confidences, Rank
    <3>4. CompareResponse(d).delta = DetectRegimeChange(cur, prev)
          /\ CompareResponse(d).delta # Nil
      BY <2>2, <2>10, <3>2, NilAssumption
    <3>5. QED
      BY <2>1, <3>3, <3>4
  <2>11. QED
    BY <2>9, <2>10
<1>2. QED
  BY InitMacro, MacroStep, <1>1, PTL DEF MacroSpec

\* The lists of the regimes router, of the signal service and of its caveats, over any
\* regime.
THEOREM DegradedIsTold == MacroSpec => []DegradedIsToldAlike
<1>1. ASSUME NEW r
      PROVE  /\ (RegimeStatus(r) = "success") = ~SignalsDegraded(r)
             /\ SignalsDegraded(r) = (Caveat(r) # Nil)
  <2>1. (RegimeStatus(r) = "success") <=> ~SignalsDegraded(r)
    BY DEF RegimeStatus, SignalsDegraded
  <2>2. SignalsDegraded(r) <=> (Caveat(r) # Nil)
    BY CaveatsAssumption DEF SignalsDegraded, Caveat, Caveats
  <2>3. SignalsDegraded(r) \in BOOLEAN
    BY DEF SignalsDegraded
  <2>4. QED
    BY <2>1, <2>2, <2>3
<1>2. DegradedIsToldAlike
  BY <1>1 DEF DegradedIsToldAlike
<1>3. QED
  BY <1>2, PTL

\* The types of the stores.
THEOREM StoresCorrect == MacroSpec => []StoresOK
<1>1. ASSUME MacroInv PROVE StoresOK
  BY <1>1, MaxDayAssumption DEF MacroInv, StoresOK, SnapshotsOK, RegimesOK, RegimeOK, Days
<1>2. QED
  BY InitMacro, MacroStep, <1>1, PTL DEF MacroSpec
=============================================================================
