-------------------------- MODULE ResearchDeskProofs --------------------------
(***************************************************************************)
(* For any alert rules, regimes, external events and days, in any order:   *)
(* an alert says for ever what it said, every major transition has one, a  *)
(* verdict of high confidence stands on a rule about the very event it     *)
(* names, and no stored event that matches as well is nearer.              *)
(***************************************************************************)
EXTENDS ResearchDesk, FoldLemmas, FunctionTheorems, SequenceTheorems, TLAPS

-----------------------------------------------------------------------------
(* Sorting *)

\* A finite set with a strict total order can be listed in that order: a member is
\* placed by the number of those that do not come after it.
LEMMA OrderExists ==
  ASSUME NEW S, IsFiniteSet(S), NEW R,
         \A a \in S : <<a, a>> \notin R,
         \A a, b \in S : a # b => <<a, b>> \in R \/ <<b, a>> \in R,
         \A a, b, c \in S : <<a, b>> \in R /\ <<b, c>> \in R => <<a, c>> \in R
  PROVE  \E p \in Bijection(1 .. Cardinality(S), S) :
           \A m, n \in 1 .. Cardinality(S) : m < n => <<p[m], p[n]>> \in R
<1> DEFINE N == Cardinality(S)
           Upto(a) == {b \in S : b = a \/ <<b, a>> \in R}
           rank == [a \in S |-> Cardinality(Upto(a))]
<1>1. N \in Nat /\ IsFiniteSet(1 .. N) /\ Cardinality(1 .. N) = N
  BY FS_CardinalityType, FS_Interval
<1> HIDE DEF Upto, rank, N
<1>2. ASSUME NEW a \in S PROVE IsFiniteSet(Upto(a)) /\ rank[a] \in 1 .. N
  <2>1. Upto(a) \in SUBSET S /\ a \in Upto(a)
    BY DEF Upto
  <2>2. IsFiniteSet(Upto(a)) /\ Cardinality(Upto(a)) <= N /\ Cardinality(Upto(a)) \in Nat
    BY <2>1, FS_Subset, FS_CardinalityType DEF N
  <2>3. Cardinality(Upto(a)) # 0
    BY <2>1, <2>2, FS_EmptySet
  <2>4. QED
    BY <1>1, <2>2, <2>3 DEF rank
<1>3. ASSUME NEW a \in S, NEW b \in S, <<a, b>> \in R PROVE rank[a] < rank[b]
  <2>1. Upto(a) \in SUBSET Upto(b) /\ b \in Upto(b) /\ b \notin Upto(a)
    BY <1>3 DEF Upto
  <2>2. Cardinality(Upto(a)) <= Cardinality(Upto(b)) /\ Cardinality(Upto(a)) # Cardinality(Upto(b))
    BY <1>2, <2>1, FS_Subset
  <2>3. rank[a] \in Nat /\ rank[b] \in Nat
    BY <1>1, <1>2
  <2>4. QED
    BY <2>2, <2>3 DEF rank
<1>4. rank \in Injection(S, 1 .. N)
  <2>1. rank \in [S -> 1 .. N]
    BY <1>2 DEF rank
  <2>2. \A a, b \in S : rank[a] = rank[b] => a = b
    <3> SUFFICES ASSUME NEW a \in S, NEW b \in S, rank[a] = rank[b], a # b PROVE FALSE
      OBVIOUS
    <3>1. rank[a] < rank[b] \/ rank[b] < rank[a]
      BY <1>3
    <3>2. rank[a] \in Nat /\ rank[b] \in Nat
      BY <1>1, <1>2
    <3>3. QED
      BY <3>1, <3>2
  <2>3. QED
    BY <2>1, <2>2, Fun_IsInj
<1>5. rank \in Bijection(S, 1 .. N) /\ \A n \in 1 .. N : \E s \in S : rank[s] = n
  <2>1. rank \in Surjection(S, 1 .. N)
    BY <1>1, <1>4, FS_Injection DEF N
  <2>2. rank \in Bijection(S, 1 .. N)
    BY <1>4, <2>1 DEF Bijection
  <2>3. \A n \in 1 .. N : \E s \in S : rank[s] = n
    BY <2>1 DEF Surjection
  <2>4. QED
    BY <2>2, <2>3
<1> DEFINE p == Inverse(rank, S, 1 .. N)
<1>6. /\ p \in Bijection(1 .. N, S) /\ p \in [1 .. N -> S]
      /\ \A n \in 1 .. N : rank[p[n]] = n
  <2>1. p \in Bijection(1 .. N, S) /\ \A s \in S : p[rank[s]] = s
    BY <1>5, Fun_BijInverse
  <2> HIDE DEF p
  <2>2. \A n \in 1 .. N : \E s \in S : rank[s] = n
    BY <1>5
  <2>3. p \in [1 .. N -> S]
    BY <2>1, Fun_BijectionProperties
  <2>4. QED
    BY <2>1, <2>2, <2>3
<1> HIDE DEF p
<1>7. ASSUME NEW m \in 1 .. N, NEW n \in 1 .. N, m < n PROVE <<p[m], p[n]>> \in R
  <2>1. p[m] \in S /\ p[n] \in S /\ rank[p[m]] = m /\ rank[p[n]] = n
    BY <1>6
  <2>2. p[m] # p[n]
    BY <1>7, <2>1
  <2>3. <<p[n], p[m]>> \notin R
    BY <1>1, <1>3, <1>7, <2>1
  <2>4. QED
    BY <2>1, <2>2, <2>3
<1>8. QED
  BY <1>6, <1>7 DEF N

\* A set of naturals that is not empty has a least member, and Min is it.
LEMMA MinIsLeast ==
  ASSUME NEW S, S \subseteq Nat, S # {}
  PROVE  Min(S) \in S /\ \A n \in S : Min(S) <= n
BY LeastNat DEF Min

\* list_recent returns the newest of the events it holds, newest first: the beginning
\* of an order in which they all stand.
LEMMA RecentIsSorted ==
  ASSUME NEW list, NEW N \in Nat, DOMAIN list = 1 .. N, Len(list) = N,
         \A n \in 1 .. N : list[n].occurred \in Int
  PROVE  \E order \in Bijection(1 .. N, 1 .. N) : \E K \in Nat :
           /\ K <= N /\ ListRecent(list) = [n \in 1 .. K |-> list[order[n]]]
           /\ \A m, n \in 1 .. N : m < n => list[order[m]].occurred >= list[order[n]].occurred
<1> DEFINE Newer(m, n) == \/ list[m].occurred > list[n].occurred
                          \/ list[m].occurred = list[n].occurred /\ m < n
           R == {e \in (1 .. N) \X (1 .. N) : Newer(e[1], e[2])}
           S == DOMAIN list
           Sorted(p) == \A m, n \in 1 .. Cardinality(S) : m < n => Newer(p[m], p[n])
           order == CHOOSE p \in Bijection(1 .. Cardinality(S), S) : Sorted(p)
           K == Min({ListLimit, N})
<1>1. S = 1 .. N /\ IsFiniteSet(1 .. N) /\ Cardinality(1 .. N) = N
  BY FS_Interval
<1>2. \A a, b \in 1 .. N : <<a, b>> \in R <=> Newer(a, b)
  OBVIOUS
<1>3. /\ \A a \in 1 .. N : ~Newer(a, a)
      /\ \A a, b \in 1 .. N : a # b => Newer(a, b) \/ Newer(b, a)
      /\ \A a, b, c \in 1 .. N : Newer(a, b) /\ Newer(b, c) => Newer(a, c)
  OBVIOUS
<1>4. \E p \in Bijection(1 .. N, 1 .. N) : Sorted(p)
  <2> HIDE DEF Newer, R, S, K, order
  <2>0. /\ \A a \in 1 .. N : <<a, a>> \notin R
        /\ \A a, b \in 1 .. N : a # b => <<a, b>> \in R \/ <<b, a>> \in R
        /\ \A a, b, c \in 1 .. N : <<a, b>> \in R /\ <<b, c>> \in R => <<a, c>> \in R
    BY <1>2, <1>3
  <2>1. PICK p \in Bijection(1 .. N, 1 .. N) : \A m, n \in 1 .. N : m < n => <<p[m], p[n]>> \in R
    BY <1>1, <2>0, OrderExists
  <2>2. p \in [1 .. N -> 1 .. N]
    BY Fun_BijectionProperties
  <2>3. Sorted(p)
    BY <1>1, <1>2, <2>1, <2>2
  <2>4. QED
    BY <2>3
<1>5. order \in Bijection(1 .. N, 1 .. N) /\ Sorted(order)
  <2> HIDE DEF Sorted, S
  <2>1. QED
    BY <1>1, <1>4
<1>6. ListRecent(list) = [n \in 1 .. K |-> list[order[n]]]
  BY DEF ListRecent, NewestFirst, InOrder, Listed
<1>7. K \in Nat /\ K <= N
  <2>1. {ListLimit, N} \subseteq Nat /\ {ListLimit, N} # {} /\ N \in {ListLimit, N}
    BY ListLimitAssumption
  <2>2. QED
    BY <2>1, MinIsLeast
<1> HIDE DEF order, K
<1>8. order \in [1 .. N -> 1 .. N]
  BY <1>5, Fun_BijectionProperties
<1>9. ASSUME NEW m \in 1 .. N, NEW n \in 1 .. N, m < n
      PROVE  list[order[m]].occurred >= list[order[n]].occurred
  <2>1. order[m] \in 1 .. N /\ order[n] \in 1 .. N /\ Newer(order[m], order[n])
    BY <1>1, <1>5, <1>8, <1>9
  <2>2. QED
    BY <2>1
<1>10. QED
  BY <1>5, <1>6, <1>7, <1>9

\* An alert of a rule about two regimes.
TellsOf(alert, rule, cur, prev) ==
  /\ alert.rule = rule.id
  /\ rule.trigger = "regime_transition" =>
       /\ alert.to = cur.label
       /\ alert.from = IF prev = Nil THEN Nil ELSE prev.label

\* The rules that fire, in their order: every alert is one rule's and tells of the two
\* regimes, and every rule that is enabled and fires has one.
LEMMA FiredAlerts ==
  ASSUME NEW cur, NEW prev
  PROVE  LET fired == EvaluateRules(Rules, cur, prev) IN
         /\ \E N \in Nat : DOMAIN fired = 1 .. N
         /\ \A k \in DOMAIN Rules : Rules[k].enabled /\ Fires(Rules[k], cur, prev) =>
              \E n \in DOMAIN fired : TellsOf(fired[n], Rules[k], cur, prev)
<1> DEFINE F == {k \in DOMAIN Rules : Rules[k].enabled /\ Fires(Rules[k], cur, prev)}
           N == Cardinality(F)
           R == {e \in F \X F : e[1] < e[2]}
           Ascends(p) == \A m, n \in 1 .. N : m < n => p[m] < p[n]
           firing == CHOOSE p \in Bijection(1 .. N, F) : Ascends(p)
           fired == EvaluateRules(Rules, cur, prev)
<1>1. Len(Rules) \in Nat /\ DOMAIN Rules = 1 .. Len(Rules)
  BY RulesAssumption, LenProperties
<1>2. IsFiniteSet(F) /\ N \in Nat /\ F \subseteq Nat
  <2>1. F \in SUBSET (1 .. Len(Rules)) /\ IsFiniteSet(1 .. Len(Rules))
    BY <1>1, FS_Interval
  <2> HIDE DEF F
  <2>2. IsFiniteSet(F)
    BY <2>1, FS_Subset
  <2>3. N \in Nat
    BY <2>2, FS_CardinalityType
  <2>4. QED
    BY <1>1, <2>1, <2>2, <2>3
<1>3. fired = [n \in DOMAIN firing |-> FiredAlert(Rules[firing[n]], cur, prev)]
  BY DEF EvaluateRules, InOrder
<1> HIDE DEF F, fired
<1>4. \E p \in Bijection(1 .. N, F) : Ascends(p)
  <2>1. \A a, b \in F : <<a, b>> \in R <=> a < b
    OBVIOUS
  <2> HIDE DEF R
  <2>2. /\ \A a \in F : <<a, a>> \notin R
        /\ \A a, b \in F : a # b => <<a, b>> \in R \/ <<b, a>> \in R
        /\ \A a, b, c \in F : <<a, b>> \in R /\ <<b, c>> \in R => <<a, c>> \in R
    BY <1>2, <2>1
  <2>3. PICK p \in Bijection(1 .. N, F) : \A m, n \in 1 .. N : m < n => <<p[m], p[n]>> \in R
    BY <1>2, <2>2, OrderExists
  <2>4. p \in [1 .. N -> F]
    BY Fun_BijectionProperties
  <2>5. Ascends(p)
    BY <2>1, <2>3, <2>4
  <2>6. QED
    BY <2>5
<1>5. firing \in Bijection(1 .. N, F)
  <2> HIDE DEF Ascends, N
  <2>1. QED
    BY <1>4
<1> HIDE DEF firing, N
<1>6. firing \in [1 .. N -> F] /\ \A k \in F : \E n \in 1 .. N : firing[n] = k
  <2>1. firing \in Surjection(1 .. N, F)
    BY <1>5 DEF Bijection
  <2>2. QED
    BY <2>1 DEF Surjection
<1>7. DOMAIN fired = 1 .. N
  BY <1>3, <1>6
<1>8. ASSUME NEW k \in F
      PROVE  \E n \in DOMAIN fired : TellsOf(fired[n], Rules[k], cur, prev)
  <2>1. PICK n \in 1 .. N : firing[n] = k
    BY <1>6
  <2>2. fired[n] = FiredAlert(Rules[k], cur, prev)
    BY <1>3, <1>7, <2>1
  <2>3. TellsOf(fired[n], Rules[k], cur, prev)
    BY <2>2 DEF TellsOf, FiredAlert
  <2>4. QED
    BY <1>7, <2>1, <2>3
<1>9. QED
  BY <1>2, <1>7, <1>8 DEF F, fired

-----------------------------------------------------------------------------
(* Alerts *)

Facts == {"rule", "trigger", "from", "to", "at"}

\* A list of alerts, each with its facts and the marks of an analyst.
AreAlerts(list) ==
  \E A : /\ list \in Seq(A)
         /\ \A a \in A : Facts \cup {"state", "acknowledged", "snoozed"} \subseteq DOMAIN a

\* What an evaluation saves goes to the end of the store.
LEMMA SavedKeeps ==
  ASSUME AreAlerts(alerts), NEW fired, NEW N \in Nat, DOMAIN fired = 1 .. N
  PROVE  /\ AreAlerts(Saved(alerts, fired))
         /\ \A n \in DOMAIN alerts : /\ n \in DOMAIN Saved(alerts, fired)
                                     /\ Saved(alerts, fired)[n] = alerts[n]
         /\ \A n \in 1 .. N : \E a \in DOMAIN Saved(alerts, fired) :
              Saved(alerts, fired)[a] = NewAlert(fired[n])
<1> DEFINE new == [n \in 1 .. N |-> NewAlert(fired[n])]
           B == {NewAlert(fired[n]) : n \in 1 .. N}
<1>1. PICK A : /\ alerts \in Seq(A)
               /\ \A a \in A : Facts \cup {"state", "acknowledged", "snoozed"} \subseteq DOMAIN a
  BY DEF AreAlerts
<1>2. new \in Seq(B) /\ Len(new) = N
  <2>1. new \in [1 .. N -> B]
    OBVIOUS
  <2> HIDE DEF new, B
  <2>2. QED
    BY <2>1, IsASeq, LenProperties
<1>3. \A a \in A \cup B : Facts \cup {"state", "acknowledged", "snoozed"} \subseteq DOMAIN a
  BY <1>1 DEF NewAlert, Facts
<1>4. Saved(alerts, fired) = alerts \o new
  BY DEF Saved
<1>5. \A n \in 1 .. N : new[n] = NewAlert(fired[n])
  OBVIOUS
<1> HIDE DEF new, B
<1>6. alerts \in Seq(A \cup B) /\ new \in Seq(A \cup B)
  BY <1>1, <1>2, SeqMonotonic
<1>7. /\ alerts \o new \in Seq(A \cup B)
      /\ Len(alerts \o new) = Len(alerts) + N
      /\ \A n \in 1 .. Len(alerts) + N :
           (alerts \o new)[n] = IF n <= Len(alerts) THEN alerts[n] ELSE new[n - Len(alerts)]
  BY <1>2, <1>6, ConcatProperties
<1>8. /\ Len(alerts) \in Nat /\ DOMAIN alerts = 1 .. Len(alerts)
      /\ DOMAIN (alerts \o new) = 1 .. Len(alerts) + N
  BY <1>6, <1>7, LenProperties
<1>9. AreAlerts(alerts \o new)
  BY <1>3, <1>7 DEF AreAlerts
<1>10. ASSUME NEW n \in 1 .. N
       PROVE  \E a \in DOMAIN (alerts \o new) : (alerts \o new)[a] = NewAlert(fired[n])
  <2>1. /\ Len(alerts) + n \in 1 .. Len(alerts) + N /\ ~(Len(alerts) + n <= Len(alerts))
        /\ Len(alerts) + n - Len(alerts) = n
    BY <1>8
  <2>2. (alerts \o new)[Len(alerts) + n] = new[n]
    BY <1>7, <2>1
  <2>3. QED
    BY <1>5, <1>8, <2>1, <2>2
<1>11. \A n \in DOMAIN alerts : n \in DOMAIN (alerts \o new) /\ (alerts \o new)[n] = alerts[n]
  BY <1>7, <1>8
<1>12. QED
  BY <1>4, <1>9, <1>10, <1>11

\* update_acknowledgement marks an alert and leaves its facts.
LEMMA MarkKeeps ==
  ASSUME AreAlerts(alerts), NEW n \in DOMAIN alerts, NEW state, NEW acked, NEW snoozed,
         alerts' = [alerts EXCEPT ![n] = Updated(@, state, acked, snoozed)]
  PROVE  /\ AreAlerts(alerts') /\ DOMAIN alerts' = DOMAIN alerts
         /\ \A m \in DOMAIN alerts : \A f \in Facts : alerts'[m][f] = alerts[m][f]
<1> DEFINE marked == Updated(alerts[n], state, acked, snoozed)
<1>1. PICK A : /\ alerts \in Seq(A)
               /\ \A a \in A : Facts \cup {"state", "acknowledged", "snoozed"} \subseteq DOMAIN a
  BY DEF AreAlerts
<1>2. DOMAIN alerts = 1 .. Len(alerts) /\ \A m \in DOMAIN alerts : alerts[m] \in A
  BY <1>1, LenProperties
<1>3. /\ Facts \cup {"state", "acknowledged", "snoozed"} \subseteq DOMAIN marked
      /\ \A f \in Facts : marked[f] = alerts[n][f]
  BY <1>1, <1>2 DEF Updated, Facts
<1>4. alerts' = [alerts EXCEPT ![n] = marked]
  OBVIOUS
<1> HIDE DEF marked
<1>5. alerts \in Seq(A \cup {marked})
  BY <1>1, SeqMonotonic
<1>6. alerts' \in Seq(A \cup {marked})
  BY <1>2, <1>4, <1>5, ExceptSeq
<1>7. AreAlerts(alerts')
  BY <1>1, <1>3, <1>6 DEF AreAlerts
<1>8. DOMAIN alerts' = DOMAIN alerts
  BY <1>4
<1>9. \A m \in DOMAIN alerts : \A f \in Facts : alerts'[m][f] = alerts[m][f]
  BY <1>3, <1>4
<1>10. QED
  BY <1>7, <1>8, <1>9

AlertsTyped == AreAlerts(alerts)

\* An alert of the store is there after any step, with its facts.
AlertsStand ==
  \A n \in DOMAIN alerts :
    n \in DOMAIN alerts' /\ \A f \in Facts : alerts'[n][f] = alerts[n][f]

LEMMA AlertStep ==
  ASSUME AreAlerts(alerts), [Next]_vars
  PROVE  AreAlerts(alerts') /\ AlertsStand
<1>1. ASSUME NEW r \in Regimes, EvaluateRegime(r) PROVE AreAlerts(alerts') /\ AlertsStand
  <2> DEFINE prev == IF regimes = <<>> THEN Nil ELSE Last(regimes)
             fired == EvaluateRules(Rules, r, prev)
  <2>1. alerts' = Saved(alerts, fired)
    BY <1>1 DEF EvaluateRegime
  <2>2. \E N \in Nat : DOMAIN fired = 1 .. N
    BY FiredAlerts
  <2> HIDE DEF fired
  <2>3. QED
    BY <2>1, <2>2, SavedKeeps DEF AlertsStand
<1>2. ASSUME NEW n \in DOMAIN alerts, Acknowledge(n) PROVE AreAlerts(alerts') /\ AlertsStand
  <2>1. alerts' = [alerts EXCEPT ![n] = Updated(@, "acknowledged", now, Nil)]
    BY <1>2 DEF Acknowledge
  <2>2. QED
    BY <2>1, MarkKeeps DEF AlertsStand
<1>3. ASSUME NEW n \in DOMAIN alerts, NEW d \in SnoozeTimes, Snooze(n, d)
      PROVE  AreAlerts(alerts') /\ AlertsStand
  <2>1. alerts' = [alerts EXCEPT ![n] = Updated(@, "snoozed", Nil, d)]
    BY <1>3 DEF Snooze
  <2>2. QED
    BY <2>1, MarkKeeps DEF AlertsStand
<1>4. CASE UNCHANGED alerts
  BY <1>4 DEF AlertsStand
<1>5. QED
  BY <1>1, <1>2, <1>3, <1>4 DEF Next, Tick, SaveEvent, vars

\* The stores start empty.
LEMMA InitAlerts == Init => AreAlerts(alerts)
<1>1. <<>> \in Seq({})
  BY EmptySeq
<1>2. QED
  BY <1>1 DEF Init, AreAlerts

\* "does not mutate the underlying analytical facts" (alerts/models.py): for any rules,
\* regimes and requests, an alert stays in the store and says what it said.
THEOREM FactsAreKept == Spec => AlertFactsStand
<1>1. Init => AlertsTyped
  BY InitAlerts DEF AlertsTyped
<1>2. AlertsTyped /\ [Next]_vars => AlertsTyped'
  BY AlertStep DEF AlertsTyped
<1>3. AlertsTyped /\ [Next]_vars =>
        [\A n \in DOMAIN alerts :
           /\ n \in DOMAIN alerts'
           /\ \A f \in {"rule", "trigger", "from", "to", "at"} : alerts'[n][f] = alerts[n][f]]_vars
  BY AlertStep DEF AlertsTyped, AlertsStand, Facts
<1>4. QED
  BY <1>1, <1>2, <1>3, PTL DEF Spec, AlertFactsStand

-----------------------------------------------------------------------------
(* Transitions *)

\* A change between families, or into a severe regime, makes a rule fire that asks
\* for major transitions and has no filters.
LEMMA MajorFires ==
  ASSUME NEW rule, NEW cur, NEW prev, prev # Nil, cur.label # prev.label,
         cur.label \in HighSeverityLabels \/ RegimeFamily[cur.label] # RegimeFamily[prev.label],
         rule.trigger = "regime_transition", rule.min = "major",
         rule.source = Nil, rule.target = Nil
  PROVE  Fires(rule, cur, prev)
<1> DEFINE delta == DetectRegimeChange(cur, prev)
<1>1. "label" \in delta.dimensions
  BY DEF DetectRegimeChange
<1>2. delta.severity = "major"
  BY DEF DetectRegimeChange, Severity
<1> HIDE DEF delta
<1>3. AlertRank(delta.severity) >= AlertRank(rule.min)
  BY <1>2 DEF AlertRank
<1>4. RegimeTransitionFires(rule, cur, prev)
  BY <1>1, <1>3 DEF RegimeTransitionFires, delta
<1>5. QED
  BY <1>4 DEF Fires

\* Regimes are appended.
LEMMA RegimeStep ==
  ASSUME regimes \in Seq(Regimes), [Next]_vars
  PROVE  /\ regimes' \in Seq(Regimes)
         /\ Len(regimes) \in Nat /\ DOMAIN regimes = 1 .. Len(regimes)
         /\ \/ UNCHANGED regimes
            \/ \E r \in Regimes :
                 /\ EvaluateRegime(r) /\ DOMAIN regimes' = 1 .. Len(regimes) + 1
                 /\ regimes'[Len(regimes) + 1] = r
                 /\ \A n \in 1 .. Len(regimes) : regimes'[n] = regimes[n]
<1>1. Len(regimes) \in Nat /\ DOMAIN regimes = 1 .. Len(regimes)
  BY LenProperties
<1>2. ASSUME NEW r \in Regimes, EvaluateRegime(r)
      PROVE  /\ regimes' \in Seq(Regimes)
             /\ DOMAIN regimes' = 1 .. Len(regimes) + 1
             /\ regimes'[Len(regimes) + 1] = r
             /\ \A n \in 1 .. Len(regimes) : regimes'[n] = regimes[n]
  <2>1. regimes' = Append(regimes, r)
    BY <1>2 DEF EvaluateRegime
  <2>2. QED
    BY <1>1, <2>1, AppendProperties, LenProperties
<1>3. QED
  BY <1>1, <1>2 DEF Next, Tick, SaveEvent, Acknowledge, Snooze, vars

\* What MajorTransitionsAlert asks of the n-th regime.
Alerted(n) ==
  \A k \in DOMAIN Rules :
    LET cur == regimes[n]  prev == regimes[n - 1]  rule == Rules[k] IN
    (/\ n > 1 /\ cur.label # prev.label
     /\ cur.label \in HighSeverityLabels \/ RegimeFamily[cur.label] # RegimeFamily[prev.label]
     /\ rule.trigger = "regime_transition" /\ rule.min = "major" /\ rule.enabled
     /\ rule.source = Nil /\ rule.target = Nil) =>
       \E a \in DOMAIN alerts :
         alerts[a].rule = rule.id /\ alerts[a].from = prev.label /\ alerts[a].to = cur.label

AlertsInv ==
  AreAlerts(alerts) /\ regimes \in Seq(Regimes) /\ \A n \in DOMAIN regimes : Alerted(n)

\* The regime just evaluated is compared with the one before it.
LEMMA EvaluationAlerts ==
  ASSUME AreAlerts(alerts), regimes \in Seq(Regimes), NEW r \in Regimes, EvaluateRegime(r),
         NEW L \in Nat, L = Len(regimes), DOMAIN regimes = 1 .. L,
         regimes'[L + 1] = r, \A n \in 1 .. L : regimes'[n] = regimes[n]
  PROVE  Alerted(L + 1)'
<1> DEFINE prev == IF regimes = <<>> THEN Nil ELSE Last(regimes)
           fired == EvaluateRules(Rules, r, prev)
<1> SUFFICES ASSUME NEW k \in DOMAIN Rules, L + 1 > 1, r.label # regimes[L].label,
                    \/ r.label \in HighSeverityLabels
                    \/ RegimeFamily[r.label] # RegimeFamily[regimes[L].label],
                    Rules[k].trigger = "regime_transition", Rules[k].min = "major",
                    Rules[k].enabled, Rules[k].source = Nil, Rules[k].target = Nil
             PROVE  \E a \in DOMAIN alerts' :
                      /\ alerts'[a].rule = Rules[k].id
                      /\ alerts'[a].from = regimes[L].label /\ alerts'[a].to = r.label
  <2>1. L \in Nat /\ (L + 1 > 1 => L \in 1 .. L) /\ L + 1 - 1 = L
    OBVIOUS
  <2>2. L + 1 > 1 => regimes'[L] = regimes[L]
    BY <2>1
  <2>3. QED
    BY <2>1, <2>2 DEF Alerted
<1>1. L \in 1 .. L /\ regimes[L] \in Regimes
  BY ElementOfSeq
<1>2. prev = regimes[L] /\ prev # Nil
  <2>1. regimes # <<>>
    BY <1>1, EmptySeq
  <2>2. QED
    BY <1>1, <2>1, RegimesAssumption DEF Last
<1>3. alerts' = Saved(alerts, fired)
  BY DEF EvaluateRegime
<1>4. Fires(Rules[k], r, prev)
  BY <1>2, MajorFires
<1> HIDE DEF prev
<1>5. PICK N \in Nat : DOMAIN fired = 1 .. N
  BY FiredAlerts
<1>6. PICK n \in DOMAIN fired : TellsOf(fired[n], Rules[k], r, prev)
  BY <1>4, FiredAlerts
<1> HIDE DEF fired
<1>7. PICK a \in DOMAIN alerts' : alerts'[a] = NewAlert(fired[n])
  BY <1>3, <1>5, SavedKeeps
<1>8. QED
  BY <1>2, <1>6, <1>7 DEF NewAlert, TellsOf

LEMMA TransitionStep ==
  ASSUME AlertsInv, [Next]_vars
  PROVE  AlertsInv'
<1>1. AreAlerts(alerts') /\ AlertsStand
  BY AlertStep DEF AlertsInv
<1>2. regimes' \in Seq(Regimes) /\ Len(regimes) \in Nat /\ DOMAIN regimes = 1 .. Len(regimes)
  BY RegimeStep DEF AlertsInv
<1>3. ASSUME NEW n \in DOMAIN regimes, regimes'[n] = regimes[n],
             n > 1 => regimes'[n - 1] = regimes[n - 1]
      PROVE  Alerted(n)'
  <2>1. ASSUME NEW a \in DOMAIN alerts
        PROVE  /\ a \in DOMAIN alerts' /\ alerts'[a].rule = alerts[a].rule
               /\ alerts'[a].from = alerts[a].from /\ alerts'[a].to = alerts[a].to
    BY <1>1 DEF AlertsStand, Facts
  <2>2. Alerted(n)
    BY DEF AlertsInv
  <2>3. QED
    BY <1>3, <2>1, <2>2 DEF Alerted
<1>4. CASE UNCHANGED regimes
  BY <1>1, <1>2, <1>3, <1>4 DEF AlertsInv
<1>5. ASSUME NEW r \in Regimes, EvaluateRegime(r), DOMAIN regimes' = 1 .. Len(regimes) + 1,
             regimes'[Len(regimes) + 1] = r,
             \A n \in 1 .. Len(regimes) : regimes'[n] = regimes[n]
      PROVE  AlertsInv'
  <2>1. PICK L \in Nat : L = Len(regimes)
    BY <1>2
  <2>2. Alerted(L + 1)'
    BY <1>2, <1>5, <2>1, EvaluationAlerts DEF AlertsInv
  <2>3. \A n \in 1 .. L : Alerted(n)'
    BY <1>2, <1>3, <1>5, <2>1
  <2>4. \A n \in 1 .. L + 1 : n \in 1 .. L \/ n = L + 1
    OBVIOUS
  <2>5. (\A n \in DOMAIN regimes : Alerted(n))'
    BY <1>5, <2>1, <2>2, <2>3, <2>4
  <2>6. QED
    BY <1>1, <1>2, <2>5 DEF AlertsInv
<1>6. QED
  BY <1>4, <1>5, RegimeStep DEF AlertsInv

\* For any rules and regimes: every move into contraction or stagflation risk, and
\* every move between families, has an alert of each rule that asks for major
\* changes, whatever happened to the alerts since.
THEOREM MajorTransitionsStayAlerted == Spec => []MajorTransitionsAlert
<1>1. Init => AlertsInv
  <2>1. <<>> \in Seq(Regimes) /\ DOMAIN <<>> = {}
    BY EmptySeq, LenProperties
  <2>2. QED
    BY <2>1, InitAlerts DEF Init, AlertsInv
<1>2. AlertsInv => MajorTransitionsAlert
  BY DEF AlertsInv, Alerted, MajorTransitionsAlert
<1>3. QED
  BY <1>1, <1>2, TransitionStep, PTL DEF Spec

-----------------------------------------------------------------------------
(* Attribution *)

\* The places of the past events, of those that match a rule exactly, and of those the
\* heuristic admits.
Past(list, asOf) == {n \in DOMAIN list : LagDays(list[n], asOf) >= 0}
Exact(ind, list, asOf) == {n \in Past(list, asOf) : RuleFor(list[n], ind, asOf) # {}}
Partial(ind, list, asOf) ==
  {n \in Past(list, asOf) \ Exact(ind, list, asOf) :
     /\ ind \in HeuristicFallback[list[n].type]
     /\ LagDays(list[n], asOf) <= 30}

LEMMA DeltaIs ==
  ASSUME NEW ind, NEW list, NEW asOf
  PROVE  AttributeDelta(ind, list, asOf) =
           IF Exact(ind, list, asOf) # {}
           THEN LET best == Nearest(list, Exact(ind, list, asOf), asOf)
                    rule == CHOOSE r \in RuleFor(list[Min(Exact(ind, list, asOf))], ind, asOf) : TRUE
                IN [primary |-> best, rule |-> rule,
                    confidence |-> IF IsHighConfidence(LagDays(best, asOf), rule.maxLag, best.tier)
                                   THEN "high" ELSE "medium"]
           ELSE IF Partial(ind, list, asOf) # {}
           THEN [primary |-> Nearest(list, Partial(ind, list, asOf), asOf), rule |-> Nil,
                 confidence |-> "low"]
           ELSE [primary |-> Nil, rule |-> Nil, confidence |-> "unattributed"]
BY DEF AttributeDelta, Past, Exact, Partial

\* In a list sorted newest first the nearest of some past events is the first of them.
LEMMA NearestIsFirst ==
  ASSUME NEW N \in Nat, NEW list, DOMAIN list = 1 .. N, NEW asOf \in Int,
         \A n \in 1 .. N : list[n].occurred \in Int,
         \A m, n \in 1 .. N : m < n => list[m].occurred >= list[n].occurred,
         NEW ns, ns \subseteq Past(list, asOf), ns # {}
  PROVE  Min(ns) \in ns /\ Nearest(list, ns, asOf) = list[Min(ns)]
<1> DEFINE nearest == {n \in ns : \A m \in ns : LagDays(list[n], asOf) <= LagDays(list[m], asOf)}
<1> HIDE DEF nearest
<1>1. ns \subseteq 1 .. N /\ ns \subseteq Nat
  BY DEF Past
<1>2. Min(ns) \in ns /\ \A n \in ns : Min(ns) <= n
  BY <1>1, MinIsLeast
<1>3. \A n \in ns : LagDays(list[n], asOf) = asOf - list[n].occurred
  BY <1>1 DEF Past, LagDays
<1>4. ASSUME NEW n \in ns PROVE LagDays(list[Min(ns)], asOf) <= LagDays(list[n], asOf)
  <2>1. Min(ns) \in 1 .. N /\ n \in 1 .. N /\ Min(ns) <= n
    BY <1>1, <1>2
  <2>2. list[Min(ns)].occurred >= list[n].occurred
    <3>1. CASE Min(ns) < n
      BY <2>1, <3>1
    <3>2. CASE Min(ns) = n
      BY <2>1, <3>2
    <3>3. QED
      BY <2>1, <3>1, <3>2
  <2>3. QED
    BY <1>2, <1>3, <2>1, <2>2
<1>5. Min(ns) \in nearest /\ nearest \subseteq ns
  BY <1>2, <1>4 DEF nearest
<1>6. Nearest(list, ns, asOf) = list[Min(nearest)]
  BY DEF Nearest, nearest
<1>7. Min(nearest) \in nearest /\ \A n \in nearest : Min(nearest) <= n
  BY <1>1, <1>5, MinIsLeast
<1>8. Min(nearest) = Min(ns)
  <2>1. Min(nearest) \in Nat /\ Min(ns) \in Nat
    BY <1>1, <1>2, <1>5, <1>7
  <2>2. Min(nearest) <= Min(ns) /\ Min(ns) <= Min(nearest)
    BY <1>2, <1>5, <1>7
  <2>3. QED
    BY <2>1, <2>2
<1>9. QED
  BY <1>2, <1>6, <1>8

\* What high confidence asks of the event that a verdict names.
Judged(ind, e, asOf) ==
  /\ e.tier \in {"tier_1", "tier_2"}
  /\ \E r \in AttributionRules : /\ r.type = e.type /\ r.ind = ind
                                 /\ asOf - e.occurred <= Max({1, r.maxLag \div 2})

\* A verdict over such a list is judged by a rule of the event that it names.
LEMMA HighVerdict ==
  ASSUME NEW N \in Nat, NEW list, DOMAIN list = 1 .. N, NEW asOf \in Int,
         \A n \in 1 .. N : list[n].occurred \in Int,
         \A m, n \in 1 .. N : m < n => list[m].occurred >= list[n].occurred,
         NEW ind, AttributeDelta(ind, list, asOf).confidence = "high"
  PROVE  Judged(ind, AttributeDelta(ind, list, asOf).primary, asOf)
<1> DEFINE exact == Exact(ind, list, asOf)
           best == Nearest(list, exact, asOf)
           rule == CHOOSE r \in RuleFor(list[Min(exact)], ind, asOf) : TRUE
<1>1. exact # {}
  BY DeltaIs
<1>2. /\ AttributeDelta(ind, list, asOf).primary = best
      /\ IsHighConfidence(LagDays(best, asOf), rule.maxLag, best.tier)
  BY <1>1, DeltaIs
<1>3. Min(exact) \in exact /\ best = list[Min(exact)]
  <2>1. exact \subseteq Past(list, asOf)
    BY DEF Exact
  <2> HIDE DEF exact
  <2>2. QED
    BY <1>1, <2>1, NearestIsFirst
<1>4. RuleFor(best, ind, asOf) # {} /\ LagDays(best, asOf) = asOf - best.occurred
  <2>1. PICK n \in 1 .. N : best = list[n] /\ RuleFor(list[n], ind, asOf) # {}
                            /\ LagDays(list[n], asOf) >= 0
    <3> HIDE DEF best
    <3>1. QED
      BY <1>3 DEF Exact, Past
  <2> HIDE DEF best, rule, exact
  <2>2. list[n].occurred \in Int
    BY <2>1
  <2>3. QED
    BY <2>1, <2>2 DEF LagDays
<1>5. rule \in RuleFor(best, ind, asOf)
  BY <1>3, <1>4
<1> HIDE DEF rule, best, exact
<1>6. /\ rule \in AttributionRules /\ rule.type = best.type /\ rule.ind = ind
  BY <1>5 DEF RuleFor
<1>7. best.tier \in {"tier_1", "tier_2"} /\ asOf - best.occurred <= Max({1, rule.maxLag \div 2})
  BY <1>2, <1>4 DEF IsHighConfidence
<1>8. Judged(ind, best, asOf)
  BY <1>6, <1>7 DEF Judged
<1>9. QED
  BY <1>2, <1>8

\* Events with dates, and a day of the calendar.
AreEvents(list) == \E E : list \in Seq(E) /\ \A e \in E : e.occurred \in Int

EventsInv == AreEvents(events) /\ day \in 1 .. Len(Clock)

\* The store keeps the place of an event it knows and appends the others.
LEMMA SaveEventKeeps ==
  ASSUME AreEvents(events), NEW event, event.occurred \in Int
  PROVE  AreEvents(SavedEvent(events, event))
<1>1. PICK E : events \in Seq(E) /\ \A e \in E : e.occurred \in Int
  BY DEF AreEvents
<1> DEFINE D == E \cup {event}
<1>2. events \in Seq(D)
  BY <1>1, SeqMonotonic
<1>3. \A e \in D : e.occurred \in Int
  BY <1>1
<1>4. event \in D
  OBVIOUS
<1> HIDE DEF D
<1>5. CASE \E n \in DOMAIN events : events[n].id = event.id
  <2> DEFINE saved == [n \in DOMAIN events |-> IF events[n].id = event.id THEN event ELSE events[n]]
  <2>1. SavedEvent(events, event) = saved
    BY <1>5 DEF SavedEvent
  <2>2. PICK N \in Nat : DOMAIN events = 1 .. N /\ \A n \in 1 .. N : events[n] \in D
    BY <1>2, LenProperties
  <2>3. saved \in [1 .. N -> D]
    BY <1>4, <2>2
  <2> HIDE DEF saved
  <2>4. saved \in Seq(D)
    BY <2>3, SeqDef
  <2>5. QED
    BY <1>3, <2>1, <2>4 DEF AreEvents
<1>6. CASE ~\E n \in DOMAIN events : events[n].id = event.id
  <2>1. SavedEvent(events, event) = Append(events, event)
    BY <1>6 DEF SavedEvent
  <2>2. QED
    BY <1>2, <1>3, <1>4, <2>1, AppendProperties DEF AreEvents
<1>7. QED
  BY <1>5, <1>6

LEMMA InitEvents == Init => EventsInv
<1>1. <<>> \in Seq({})
  BY EmptySeq
<1>2. \A e \in {} : e.occurred \in Int
  OBVIOUS
<1>3. AreEvents(<<>>)
  <2> DEFINE E == {}
  <2>1. <<>> \in Seq(E) /\ \A e \in E : e.occurred \in Int
    BY <1>1, <1>2
  <2> HIDE DEF E
  <2>2. QED
    BY <2>1 DEF AreEvents
<1>4. 1 \in 1 .. Len(Clock)
  BY ClockAssumption, EmptySeq
<1>5. QED
  BY <1>3, <1>4 DEF Init, EventsInv

LEMMA EventStep ==
  ASSUME EventsInv, [Next]_vars
  PROVE  EventsInv'
<1>1. Len(Clock) \in Nat
  BY ClockAssumption, LenProperties
<1>2. CASE Tick
  BY <1>1, <1>2 DEF Tick, EventsInv
<1>3. ASSUME NEW id \in EventIds, NEW raw \in RawEvents, SaveEvent(id, raw) PROVE EventsInv'
  <2>1. NormalizeEvent(id, raw, now).occurred \in Int
    BY RawEventsAssumption DEF NormalizeEvent
  <2>2. AreEvents(events')
    BY <1>3, <2>1, SaveEventKeeps DEF SaveEvent, EventsInv
  <2>3. QED
    BY <1>3, <2>2 DEF SaveEvent, EventsInv
<1>4. CASE UNCHANGED <<day, events>>
  BY <1>4 DEF EventsInv
<1>5. QED
  BY <1>2, <1>3, <1>4 DEF Next, EvaluateRegime, Acknowledge, Snooze, vars

\* A verdict of the run is the one of its indicator.
LEMMA VerdictIs ==
  ASSUME NEW i \in Indicators
  PROVE  Verdict(i) = AttributeDelta(i, ListRecent(events), now)
BY DEF Verdict, RunAttribution

\* A list of N dated events, newest first.
Descends(list, N) ==
  /\ DOMAIN list = 1 .. N /\ \A n \in 1 .. N : list[n].occurred \in Int
  /\ \A m, n \in 1 .. N : m < n => list[m].occurred >= list[n].occurred

\* What the engine is given, on a day of the calendar: the newest of the events, and
\* what is not given is not newer.
LEMMA Candidates ==
  ASSUME EventsInv
  PROVE  /\ now \in Int
         /\ \A e \in DOMAIN events : events[e].occurred \in Int
         /\ \E K \in Nat :
              /\ Descends(ListRecent(events), K)
              /\ \A e \in DOMAIN events :
                   \/ \E n \in 1 .. K : ListRecent(events)[n] = events[e]
                   \/ \A n \in 1 .. K : ListRecent(events)[n].occurred >= events[e].occurred
<1>1. now \in Int
  BY ClockAssumption, ElementOfSeq DEF EventsInv, now
<1>2. PICK E : events \in Seq(E) /\ \A e \in E : e.occurred \in Int
  BY DEF EventsInv, AreEvents
<1>3. PICK N \in Nat : /\ DOMAIN events = 1 .. N /\ Len(events) = N
                       /\ \A n \in 1 .. N : events[n].occurred \in Int
  BY <1>2, LenProperties
<1> DEFINE list == ListRecent(events)
<1>4. PICK order \in Bijection(1 .. N, 1 .. N), K \in Nat :
        /\ K <= N /\ list = [n \in 1 .. K |-> events[order[n]]]
        /\ \A m, n \in 1 .. N : m < n => events[order[m]].occurred >= events[order[n]].occurred
  BY <1>3, RecentIsSorted
<1> HIDE DEF list
<1>5. order \in [1 .. N -> 1 .. N] /\ \A e \in 1 .. N : \E m \in 1 .. N : order[m] = e
  BY <1>4, Fun_BijectionProperties DEF Surjection
<1>6. Descends(list, K)
  <2>1. DOMAIN list = 1 .. K /\ \A n \in 1 .. K : n \in 1 .. N /\ list[n] = events[order[n]]
    BY <1>4
  <2>2. \A n \in 1 .. K : list[n].occurred \in Int
    BY <1>3, <1>5, <2>1
  <2>3. \A m, n \in 1 .. K : m < n => list[m].occurred >= list[n].occurred
    BY <1>4, <2>1
  <2>4. QED
    BY <2>1, <2>2, <2>3 DEF Descends
<1>7. ASSUME NEW e \in 1 .. N
      PROVE  \/ \E n \in 1 .. K : list[n] = events[e]
             \/ \A n \in 1 .. K : list[n].occurred >= events[e].occurred
  <2>1. PICK m \in 1 .. N : order[m] = e
    BY <1>5
  <2>2. CASE m \in 1 .. K
    BY <1>4, <2>1, <2>2
  <2>3. CASE m \notin 1 .. K
    <3>1. \A n \in 1 .. K : n \in 1 .. N /\ n < m /\ list[n] = events[order[n]]
      BY <1>4, <2>3
    <3>2. QED
      BY <1>4, <2>1, <3>1
  <2>4. QED
    BY <2>2, <2>3
<1>8. QED
  BY <1>1, <1>3, <1>6, <1>7 DEF list

\* "high: exact rule match AND lag <= 50% of max_lag_days AND tier_1 or tier_2": for any
\* events, saved in any order.
THEOREM HighIsEarned == Spec => []HighIsWithinHalfLag
<1>1. EventsInv => HighIsWithinHalfLag
  <2> SUFFICES ASSUME EventsInv, NEW i \in Indicators, Verdict(i).confidence = "high"
               PROVE  Judged(i, Verdict(i).primary, now)
    BY DEF HighIsWithinHalfLag, Judged
  <2> DEFINE list == ListRecent(events)
             asOf == now
  <2>1. Verdict(i) = AttributeDelta(i, list, asOf)
    BY VerdictIs
  <2>2. asOf \in Int /\ \E N \in Nat : Descends(list, N)
    BY Candidates
  <2>3. asOf = now
    OBVIOUS
  <2> HIDE DEF list, asOf
  <2>4. PICK N \in Nat : Descends(list, N)
    BY <2>2
  <2>5. Judged(i, AttributeDelta(i, list, asOf).primary, asOf)
    BY <2>1, <2>2, <2>4, HighVerdict DEF Descends
  <2>6. QED
    BY <2>1, <2>3, <2>5
<1>2. QED
  BY InitEvents, EventStep, <1>1, PTL DEF Spec

\* Whether an event of the past matches a rule about the indicator, or is admitted by
\* the heuristic.
Matches(e, ind, asOf) == e.occurred <= asOf /\ RuleFor(e, ind, asOf) # {}
Related(e, ind, asOf) ==
  e.occurred <= asOf /\ ind \in HeuristicFallback[e.type] /\ asOf - e.occurred <= 30

\* The event that a verdict over such a list names is on the list, and no nearer one of
\* the list matches as well.  A verdict of low confidence stands where nothing
\* listed matches a rule.
LEMMA NamedIsNearest ==
  ASSUME NEW N \in Nat, NEW list, Descends(list, N), NEW asOf \in Int, NEW ind,
         NEW v, v = AttributeDelta(ind, list, asOf), v.primary # Nil
  PROVE  \E b \in 1 .. N :
           /\ v.primary = list[b]
           /\ \A n \in 1 .. N :
                Matches(list[n], ind, asOf) \/ (v.confidence = "low" /\ Related(list[n], ind, asOf))
                  => list[n].occurred <= list[b].occurred
<1> DEFINE exact == Exact(ind, list, asOf)
           partial == Partial(ind, list, asOf)
           Newest(b, ns) == \A n \in ns : list[n].occurred <= list[b].occurred
<1>1. /\ DOMAIN list = 1 .. N /\ \A n \in 1 .. N : list[n].occurred \in Int
      /\ \A m, n \in 1 .. N : m < n => list[m].occurred >= list[n].occurred
  BY DEF Descends
<1>2. ASSUME NEW ns, ns \subseteq Past(list, asOf), ns # {}
      PROVE  Min(ns) \in 1 .. N /\ Nearest(list, ns, asOf) = list[Min(ns)] /\ Newest(Min(ns), ns)
  <2>1. Min(ns) \in ns /\ Nearest(list, ns, asOf) = list[Min(ns)]
    BY <1>1, <1>2, NearestIsFirst
  <2>2. ns \subseteq 1 .. N /\ ns \subseteq Nat
    BY <1>1, <1>2 DEF Past
  <2>3. \A n \in ns : Min(ns) <= n
    BY <1>2, <2>2, MinIsLeast
  <2>4. ASSUME NEW n \in ns PROVE list[n].occurred <= list[Min(ns)].occurred
    <3>1. n \in 1 .. N /\ Min(ns) \in 1 .. N
      BY <2>1, <2>2
    <3>2. Min(ns) <= n
      BY <2>3
    <3>3. Min(ns) < n \/ Min(ns) = n
      BY <3>1, <3>2
    <3>4. QED
      BY <1>1, <3>1, <3>3
  <2>5. QED
    BY <2>1, <2>2, <2>4
<1>3. ASSUME NEW n \in 1 .. N
      PROVE  /\ Matches(list[n], ind, asOf) => n \in exact
             /\ Related(list[n], ind, asOf) => n \in exact \/ n \in partial
  BY <1>1 DEF Matches, Related, Exact, Partial, Past, LagDays
<1>4. exact \subseteq Past(list, asOf) /\ partial \subseteq Past(list, asOf)
  BY DEF Exact, Partial
<1> HIDE DEF exact, partial
<1>6. CASE exact # {}
  <2>1. v.primary = list[Min(exact)] /\ v.confidence # "low"
    <3>1. v.primary = Nearest(list, exact, asOf) /\ v.confidence \in {"high", "medium"}
      BY <1>6, DeltaIs DEF exact
    <3>2. QED
      BY <1>2, <1>4, <1>6, <3>1
  <2>2. QED
    BY <1>2, <1>3, <1>4, <1>6, <2>1
<1>7. CASE exact = {} /\ partial # {}
  <2>1. v.primary = list[Min(partial)]
    <3>1. v.primary = Nearest(list, partial, asOf)
      BY <1>7, DeltaIs DEF exact, partial
    <3>2. QED
      BY <1>2, <1>4, <1>7, <3>1
  <2>2. QED
    BY <1>2, <1>3, <1>4, <1>7, <2>1
<1>8. CASE exact = {} /\ partial = {}
  BY <1>8, DeltaIs DEF exact, partial
<1>9. QED
  BY <1>6, <1>7, <1>8

\* Of all the events stored, for any events saved in any order and any limit of the list.
THEOREM NearestStoredIsNamed == Spec => []NearestIsNamed
<1>1. EventsInv => NearestIsNamed
  <2> SUFFICES ASSUME EventsInv, NEW i \in Indicators, NEW k \in DOMAIN events,
                      Verdict(i).primary # Nil,
                      \/ Matches(events[k], i, now)
                      \/ Verdict(i).confidence = "low" /\ Related(events[k], i, now)
               PROVE  events[k].occurred <= Verdict(i).primary.occurred
    BY DEF NearestIsNamed, Matches, Related
  <2> DEFINE list == ListRecent(events)
             v == Verdict(i)
             asOf == now
             e == events[k]
  <2>1. v = AttributeDelta(i, list, asOf)
    BY VerdictIs
  <2>2. asOf \in Int /\ e.occurred \in Int
    BY Candidates
  <2>3. PICK N \in Nat :
          /\ Descends(list, N)
          /\ \/ \E n \in 1 .. N : list[n] = e
             \/ \A n \in 1 .. N : list[n].occurred >= e.occurred
    BY Candidates
  <2>4. v.primary # Nil /\ (Matches(e, i, asOf) \/ (v.confidence = "low" /\ Related(e, i, asOf)))
    OBVIOUS
  <2> HIDE DEF list, v, asOf, e
  <2>5. PICK b \in 1 .. N :
          /\ v.primary = list[b]
          /\ \A n \in 1 .. N :
               Matches(list[n], i, asOf) \/ (v.confidence = "low" /\ Related(list[n], i, asOf))
                 => list[n].occurred <= list[b].occurred
    BY <2>1, <2>2, <2>3, <2>4, NamedIsNearest
  <2>6. list[b].occurred \in Int
    BY <2>3 DEF Descends
  <2>7. e.occurred <= v.primary.occurred
    BY <2>2, <2>3, <2>4, <2>5, <2>6
  <2>8. QED
    BY <2>7 DEF v, e
<1>2. QED
  BY InitEvents, EventStep, <1>1, PTL DEF Spec
=============================================================================
