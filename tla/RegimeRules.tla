----------------------------- MODULE RegimeRules -----------------------------
(***************************************************************************)
(* The deterministic rules that turn macro observations into a snapshot,   *)
(* a snapshot into quant scores and a regime, and a pair of regimes into a *)
(* transition and a change report (src/domain/macro, src/domain/quant).    *)
(* Values are in hundredths.  An observation is a record                   *)
(* [ind, on, value, lag]: indicator, day, value or Nil, freshness.         *)
(* Wording is left out: a warning is its kind.                             *)
(***************************************************************************)
EXTENDS Integers, Sequences, FiniteSets, FiniteSetsExt

CONSTANT Nil   \* Python's None

\* RegimeDelta (its wording left out)
ChangeReports ==
  [initial : BOOLEAN, dimensions : SUBSET {"label", "family", "confidence"},
   direction : {"not_applicable", "unchanged", "improved", "weakened"},
   severity : {"unchanged", "minor", "moderate", "major"},
   flags : SUBSET {"cross_family_transition", "high_severity_destination", "confidence_jump"}]

ASSUME NilAssumption == Nil \notin ChangeReports

Priority == {"inflation", "unemployment", "yield_10y", "pmi", "retail_sales"}
Categories == {"growth", "inflation", "labor", "policy", "conditions"}
Confidences == {"low", "medium", "high"}
Labels == {"goldilocks", "disinflation", "slowdown", "reflation", "stagflation_risk",
           "contraction", "policy_tightening_drag", "mixed", "unclear"}

-----------------------------------------------------------------------------
(* Snapshot derivation *)

\* the latest observation of each indicator up to asOf; the first one read
\* wins among those of one day
SelectLatest(obs, asOf) ==
  LET Upto(i) == {k \in DOMAIN obs : obs[k].ind = i /\ obs[k].on <= asOf}
      Newest(i) == {k \in Upto(i) : \A j \in Upto(i) : obs[j].on <= obs[k].on}
  IN [i \in {obs[k].ind : k \in {j \in DOMAIN obs : obs[j].on <= asOf}} |->
        obs[Min(Newest(i))]]

Reading(sel, i) == IF i \in DOMAIN sel THEN sel[i].value ELSE Nil

GrowthState(sel) ==
  LET pmi == Reading(sel, "pmi")  retail == Reading(sel, "retail_sales") IN
  CASE Nil \in {pmi, retail} -> "unknown"
    [] pmi # Nil /\ retail # Nil /\ pmi >= 5200 /\ retail >= 0 -> "accelerating"
    [] pmi # Nil /\ retail # Nil /\ pmi < 5000 -> "slowing"
    [] OTHER -> "mixed"

InflationState(sel) ==
  LET cpi == Reading(sel, "inflation") IN
  IF cpi = Nil THEN "unknown"
  ELSE IF cpi <= 250 THEN "cooling" ELSE IF cpi <= 350 THEN "sticky" ELSE "reaccelerating"

LaborState(sel) ==
  LET u == Reading(sel, "unemployment") IN
  IF u = Nil THEN "unknown"
  ELSE IF u < 400 THEN "tight" ELSE IF u <= 550 THEN "softening" ELSE "weak"

PolicyState(sel) ==
  LET y == Reading(sel, "yield_10y") IN
  IF y = Nil THEN "unknown"
  ELSE IF y >= 450 THEN "restrictive" ELSE IF y >= 300 THEN "neutral" ELSE "easing_bias"

ConditionsState(sel) ==
  LET y == Reading(sel, "yield_10y")  spread == Reading(sel, "credit_spread")
      Wide == IF spread = Nil THEN FALSE ELSE spread >= 200
      Narrow == IF spread = Nil THEN TRUE ELSE spread < 100
  IN IF y = Nil THEN "unknown"
     ELSE IF y >= 450 \/ Wide THEN "tight"
     ELSE IF y < 300 /\ Narrow THEN "loose" ELSE "neutral"

States(sel) == [growth |-> GrowthState(sel), inflation |-> InflationState(sel),
                labor |-> LaborState(sel), policy |-> PolicyState(sel),
                conditions |-> ConditionsState(sel)]

\* the worst status present, in this order
FreshnessStatus(sel) ==
  LET present == {sel[i].lag : i \in DOMAIN sel} IN
  IF present = {} THEN "unknown"
  ELSE IF "stale" \in present THEN "stale"
  ELSE IF "late" \in present THEN "late"
  ELSE IF "unknown" \in present THEN "unknown" ELSE "fresh"

\* a required indicator is missing when it was never observed: one observed
\* without a value is not missing
MissingIndicators(sel) == Priority \ DOMAIN sel
DegradedStatus(sel) ==
  IF DOMAIN sel = {} THEN "missing"
  ELSE IF MissingIndicators(sel) # {} THEN "partial" ELSE "none"

IndicatorValues(sel) ==
  [i \in {j \in DOMAIN sel : sel[j].value # Nil} |-> sel[i].value]

\* the snapshot built from observations, before its comparison is filled in
BuildSnapshot(id, obs, asOf) ==
  LET sel == SelectLatest(obs, asOf) IN
  [id |-> id, on |-> asOf, states |-> States(sel), freshness |-> FreshnessStatus(sel),
   degraded |-> DegradedStatus(sel), missing |-> MissingIndicators(sel),
   values |-> IndicatorValues(sel), comparison |-> Nil, keyChanges |-> {}]

CompareSnapshotStates(cur, prev) ==
  IF prev = Nil
  THEN [baseline |-> FALSE, previous |-> Nil, categories |-> {}, indicators |-> {}]
  ELSE [baseline |-> TRUE, previous |-> prev.id,
        categories |-> {c \in Categories : cur.states[c] # prev.states[c]},
        indicators |-> {i \in DOMAIN cur.values :
                          i \notin DOMAIN prev.values \/ cur.values[i] # prev.values[i]}]

-----------------------------------------------------------------------------
(* Quant scores *)

ScoreTable ==
  [growth |-> [accelerating |-> 90, mixed |-> 50, slowing |-> 20, unknown |-> Nil],
   inflation |-> [cooling |-> 85, sticky |-> 50, reaccelerating |-> 15, unknown |-> Nil],
   labor |-> [tight |-> 90, softening |-> 50, weak |-> 15, unknown |-> Nil],
   policy |-> [easing_bias |-> 85, neutral |-> 60, restrictive |-> 20, unknown |-> Nil],
   conditions |-> [loose |-> 90, neutral |-> 55, tight |-> 15, unknown |-> Nil]]

ScoreLevel(score) ==
  IF score = Nil THEN "unknown"
  ELSE IF score >= 70 THEN "strong" ELSE IF score >= 40 THEN "moderate" ELSE "weak"

\* the fractions breadth, overall_support and momentum are kept as numerators
\* over 5 and over known
ScoreSnapshot(states) ==
  LET score == [c \in Categories |-> ScoreTable[c][states[c]]]
      known == {c \in Categories : score[c] # Nil}
      vals == {score[c] : c \in known}
  IN [score |-> score, known |-> Cardinality(known),
      sum |-> MapThenSumSet(LAMBDA c : score[c], known),
      moving |-> Cardinality({c \in known : ScoreLevel(score[c]) # "weak"}),
      intensity |-> IF Cardinality(known) < 2 THEN 0 ELSE Max(vals) - Min(vals)]

\* overall_support is below pct hundredths (no known score means support 0)
SupportBelow(q, pct) == q.known = 0 \/ q.sum < pct * q.known

-----------------------------------------------------------------------------
(* Regime mapping *)

Unknowns(s) == Cardinality({c \in Categories : s.states[c] = "unknown"})
Unreliable(s) == \/ s.degraded \in {"missing", "source_unavailable"}
                 \/ s.freshness \in {"stale", "unknown"}

\* the first rule that matches decides
RegimeLabel(s) ==
  LET g == s.states.growth     i == s.states.inflation   l == s.states.labor
      p == s.states.policy     f == s.states.conditions  dragging == g \in {"slowing", "mixed"}
  IN CASE Unreliable(s) -> "unclear"
       [] ~Unreliable(s) /\ Unknowns(s) > 0 -> "mixed"
       [] OTHER ->
          IF g = "accelerating" /\ i = "cooling" /\ l # "weak" /\ p # "restrictive" /\ f # "tight"
          THEN "goldilocks"
          ELSE IF i = "cooling" /\ dragging THEN "disinflation"
          ELSE IF g = "slowing" /\ l = "weak" /\ p = "restrictive" /\ f = "tight" THEN "contraction"
          ELSE IF p = "restrictive" /\ f = "tight" /\ dragging THEN "policy_tightening_drag"
          ELSE IF g = "slowing" /\ i = "reaccelerating" /\ l # "tight" THEN "stagflation_risk"
          ELSE IF i = "reaccelerating" /\ g # "slowing" /\ p = "easing_bias" THEN "reflation"
          ELSE IF g = "slowing" /\ l # "tight" /\ i # "reaccelerating" THEN "slowdown"
          ELSE "mixed"

RegimeFamily ==
  [goldilocks |-> "expansion", disinflation |-> "inflation_transition",
   reflation |-> "inflation_transition", slowdown |-> "downshift",
   stagflation_risk |-> "late_cycle", policy_tightening_drag |-> "late_cycle",
   contraction |-> "contraction", mixed |-> "uncertain", unclear |-> "uncertain"]

NonDirectional == {"mixed", "unclear"}
Rank == [low |-> 1, medium |-> 2, high |-> 3]

\* before the quant adjustment: one unknown state is medium, several are low,
\* whatever the partial or late data had said
StateConfidence(s) ==
  IF Unknowns(s) > 1 THEN "low"
  ELSE IF Unknowns(s) = 1 \/ s.degraded = "partial" \/ s.freshness = "late" THEN "medium"
  ELSE "high"

RegimeConfidence(s, label, q) ==
  LET c == StateConfidence(s)
      capped == IF c = "high" /\ q.known < 3 THEN "medium" ELSE c
  IN IF Unreliable(s) \/ label \in NonDirectional \/ c = "low" THEN "low"
     ELSE IF ~SupportBelow(q, 40) THEN capped
     ELSE IF capped = "high" THEN "medium" ELSE "low"

RegimeWarnings(s, label, confidence, missing, seeded) ==
  {w \in {"bootstrap", "stale", "late", "freshness_unknown", "missing", "partial",
          "source_unavailable", "missing_inputs", "low_confidence", "non_directional"} :
     \/ w = "bootstrap" /\ seeded
     \/ w \in {"stale", "late"} /\ w = s.freshness
     \/ w = "freshness_unknown" /\ s.freshness = "unknown"
     \/ w \in {"missing", "partial", "source_unavailable"} /\ w = s.degraded
     \/ w = "missing_inputs" /\ missing # {}
     \/ w = "low_confidence" /\ confidence = "low"
     \/ w = "non_directional" /\ label \in NonDirectional}

\* the regime derived from a snapshot, before the day it is asked for and its
\* transition are filled in
BuildRegime(id, s) ==
  LET label == RegimeLabel(s)
      q == ScoreSnapshot(s.states)
      confidence == RegimeConfidence(s, label, q)
  IN [id |-> id, on |-> s.on, label |-> label, snapshot |-> s.id, states |-> s.states,
      confidence |-> confidence, freshness |-> s.freshness, degraded |-> s.degraded,
      missing |-> s.missing, quant |-> q, seeded |-> FALSE,
      warnings |-> RegimeWarnings(s, label, confidence, s.missing, FALSE),
      asked |-> Nil, transition |-> Nil]

-----------------------------------------------------------------------------
(* Transition and change report *)

RegimeTransition(cur, prev) ==
  LET type == IF prev = Nil THEN "initial"
              ELSE IF cur.label # prev.label THEN "shift"
              ELSE IF Rank[cur.confidence] > Rank[prev.confidence] THEN "strengthening"
              ELSE IF Rank[cur.confidence] < Rank[prev.confidence] THEN "weakening"
              ELSE "unchanged"
  IN [type |-> type, changed |-> type \notin {"initial", "unchanged"},
      from |-> IF prev = Nil THEN Nil ELSE prev.label]

HighSeverityLabels == {"contraction", "stagflation_risk"}

Severity(labelChanged, familyChanged, jump, label) ==
  IF ~labelChanged /\ jump = 0 THEN "unchanged"
  ELSE IF labelChanged
       THEN IF familyChanged \/ label \in HighSeverityLabels THEN "major" ELSE "moderate"
       ELSE IF jump > 1 THEN "moderate" ELSE "minor"

DetectRegimeChange(cur, prev) ==
  IF prev = Nil
  THEN [initial |-> TRUE, dimensions |-> {}, direction |-> "not_applicable",
        severity |-> "unchanged", flags |-> {}]
  ELSE LET label == cur.label # prev.label
           family == RegimeFamily[cur.label] # RegimeFamily[prev.label]
           step == Rank[cur.confidence] - Rank[prev.confidence]
           jump == IF step < 0 THEN -step ELSE step
       IN [initial |-> FALSE,
           dimensions |-> {d \in {"label", "family", "confidence"} :
                             \/ d = "label" /\ label
                             \/ d = "family" /\ family
                             \/ d = "confidence" /\ step # 0},
           direction |-> IF step = 0 THEN "unchanged"
                         ELSE IF step > 0 THEN "improved" ELSE "weakened",
           severity |-> Severity(label, family, jump, cur.label),
           flags |-> {f \in {"cross_family_transition", "high_severity_destination",
                             "confidence_jump"} :
                        \/ f = "cross_family_transition" /\ label /\ family
                        \/ f = "high_severity_destination" /\ label /\ cur.label \in HighSeverityLabels
                        \/ f = "confidence_jump" /\ jump > 1}]

\* what the explanation pages say of a change, from the stored transition alone
WhatChanged(transition) ==
  IF transition.type = "initial" \/ transition.from = Nil THEN Nil
  ELSE [changed |-> transition.type # "unchanged",
        dimensions |-> IF transition.type = "shift" THEN {"label"}
                       ELSE IF transition.type = "unchanged" THEN {} ELSE {"confidence"},
        severity |-> CASE transition.type = "shift" -> "moderate"
                       [] transition.type = "unchanged" -> "unchanged"
                       [] OTHER -> "minor"]

\* the status token of a regime on the product surface: the first that applies
RegimeStatus(r) ==
  IF r.seeded THEN "bootstrap"
  ELSE IF r.freshness \in {"stale", "unknown"} THEN "stale"
  ELSE IF r.degraded \in {"partial", "missing", "source_unavailable"}
          \/ r.confidence = "low" \/ r.label \in NonDirectional THEN "degraded"
  ELSE "success"
=============================================================================
