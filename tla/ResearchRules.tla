----------------------------- MODULE ResearchRules -----------------------------
(***************************************************************************)
(* Pure rules of the research layer: the attribution of a change in an     *)
(* indicator to external events (src/domain/attribution), the              *)
(* normalisation of an event (src/domain/events) and the alert rules over  *)
(* a change of regime (src/domain/alerts).                                 *)
(*                                                                         *)
(* Days are counted; an event is [id, type, tier, occurred, ...].          *)
(***************************************************************************)
EXTENDS RegimeRules, SequencesExt

\* The members of a finite set from the first to the last, as a sort or a loop over a
\* list yields them (SetToSortSeq, by what it promises).
InOrder(S, Before(_, _)) ==
  CHOOSE p \in Bijection(1 .. Cardinality(S), S) :
    \A m, n \in 1 .. Cardinality(S) : m < n => Before(p[m], p[n])

-----------------------------------------------------------------------------
(* Attribution *)

\* DEFAULT_ATTRIBUTION_RULES: no two are about one event type and indicator
AttributionRules ==
  [type : {"central_bank_decision"}, ind : {"interest_rate"}, maxLag : {14}]
    \cup [type : {"central_bank_decision"}, ind : {"10y_yield"}, maxLag : {21}]
    \cup [type : {"central_bank_decision"}, ind : {"cpi"}, maxLag : {30}]
    \cup [type : {"macro_release"}, ind : {"cpi", "unemployment_rate", "retail_sales", "pmi"},
          maxLag : {3}]
    \cup [type : {"macro_release"}, ind : {"gdp"}, maxLag : {5}]
    \cup [type : {"geopolitical_development"}, ind : {"10y_yield"}, maxLag : {14}]

HeuristicFallback ==
  [central_bank_decision |-> {"interest_rate", "policy_rate", "10y_yield", "yield_10y",
                              "inflation", "cpi", "core_cpi", "pce"},
   policy_announcement |-> {"interest_rate", "policy_rate", "gdp", "retail_sales"},
   macro_release |-> {"gdp", "cpi", "core_cpi", "unemployment", "unemployment_rate",
                      "retail_sales", "pmi", "manufacturing_pmi", "services_pmi",
                      "10y_yield", "yield_10y", "inflation", "pce"},
   geopolitical_development |-> {"oil_price", "commodities", "fx", "equity_risk_premium"},
   market_catalyst |-> {"credit_spreads", "vix", "equity_risk_premium"},
   earnings_event |-> {"equity_earnings", "earnings_growth"},
   other |-> {}]

LagDays(event, asOf) == IF event.occurred > asOf THEN -1 ELSE asOf - event.occurred

RuleFor(event, ind, asOf) ==
  {r \in AttributionRules : r.type = event.type /\ r.ind = ind /\ LagDays(event, asOf) <= r.maxLag}

IsHighConfidence(lag, maxLag, tier) ==
  lag <= Max({1, maxLag \div 2}) /\ tier \in {"tier_1", "tier_2"}

\* of the events at the places ns, the first among those with the least lag: list.sort
\* is stable
Nearest(events, ns, asOf) ==
  events[Min({n \in ns : \A m \in ns : LagDays(events[n], asOf) <= LagDays(events[m], asOf)})]

\* the verdict on one indicator.  The nearest exact match is judged by the rule of
\* the first exact match in the order given.
AttributeDelta(ind, candidates, asOf) ==
  LET past == {n \in DOMAIN candidates : LagDays(candidates[n], asOf) >= 0}
      exact == {n \in past : RuleFor(candidates[n], ind, asOf) # {}}
      partial == {n \in past \ exact : /\ ind \in HeuristicFallback[candidates[n].type]
                                      /\ LagDays(candidates[n], asOf) <= 30}
  IN IF exact # {}
     THEN LET best == Nearest(candidates, exact, asOf)
              rule == CHOOSE r \in RuleFor(candidates[Min(exact)], ind, asOf) : TRUE
          IN [primary |-> best, rule |-> rule,
              confidence |-> IF IsHighConfidence(LagDays(best, asOf), rule.maxLag, best.tier)
                             THEN "high" ELSE "medium"]
     ELSE IF partial # {}
     THEN [primary |-> Nearest(candidates, partial, asOf), rule |-> Nil, confidence |-> "low"]
     ELSE [primary |-> Nil, rule |-> Nil, confidence |-> "unattributed"]

\* changes only
RunAttribution(directions, candidates, asOf) ==
  [i \in {j \in DOMAIN directions : directions[j] \in {"increased", "decreased"}} |->
     AttributeDelta(i, candidates, asOf)]

-----------------------------------------------------------------------------
(* Events *)

ReliabilityTier(source) ==
  CASE source \in {"federal_reserve", "fed", "bls", "bea", "treasury", "ecb", "bank_of_england",
                   "bank_of_japan", "imf", "world_bank", "fred"} -> "tier_1"
    [] source \in {"reuters", "bloomberg", "wsj", "financial_times"} -> "tier_2"
    [] source \in {"manual_entry", "manual_analyst_entry"} -> "tier_3"
    [] OTHER -> "unknown"

\* days until which an event is fresh, and recent
FreshnessThresholds ==
  [macro_release |-> <<1, 3>>, central_bank_decision |-> <<2, 7>>,
   policy_announcement |-> <<2, 7>>, earnings_event |-> <<1, 5>>,
   geopolitical_development |-> <<3, 14>>, market_catalyst |-> <<1, 3>>,
   other |-> <<2, 7>>]

EventFreshness(type, occurred, at) ==
  IF at - occurred <= FreshnessThresholds[type][1] THEN "fresh"
  ELSE IF at - occurred <= FreshnessThresholds[type][2] THEN "recent" ELSE "stale"

NormalizeEvent(id, raw, at) ==
  LET freshness == EventFreshness(raw.type, raw.occurred, at)
  IN [id |-> id, type |-> raw.type, occurred |-> raw.occurred,
      tier |-> ReliabilityTier(raw.source), freshness |-> freshness,
      status |-> IF ~raw.summary THEN "partial" ELSE IF freshness = "stale" THEN "stale" ELSE "active"]

-----------------------------------------------------------------------------
(* Alert rules: [id, trigger, enabled, source, target, min], Nil for no filter *)

AlertRank(severity) ==
  CASE severity = "minor" -> 1 [] severity = "moderate" -> 2 [] severity = "major" -> 3
    [] OTHER -> 0

\* a change that must be more severe than the rule asks for
RegimeTransitionStrict(rule, cur, prev) ==
  LET delta == DetectRegimeChange(cur, prev) IN
  /\ "label" \in delta.dimensions
  /\ rule.source \in {Nil, prev.label} /\ rule.target \in {Nil, cur.label}
  /\ rule.min # Nil => AlertRank(delta.severity) > AlertRank(rule.min)

\* prev is Nil for the first regime
RegimeTransitionFires(rule, cur, prev) ==
  LET delta == DetectRegimeChange(cur, prev) IN
  /\ "label" \in delta.dimensions
  /\ rule.source \in {Nil, prev.label} /\ rule.target \in {Nil, cur.label}
  /\ rule.min # Nil => AlertRank(delta.severity) >= AlertRank(rule.min)

StalenessFires(cur) == cur.freshness \in {"stale", "unknown"}

TrustDegradationFires(cur) ==
  cur.confidence = "low" \/ cur.degraded \in {"partial", "missing", "source_unavailable"}

SignalReversalFires(cur, prev) == "label" \in DetectRegimeChange(cur, prev).dimensions

\* a threshold breach needs figures no RegimeDelta carries: it never fires
Fires(rule, cur, prev) ==
  CASE rule.trigger = "regime_transition" -> RegimeTransitionFires(rule, cur, prev)
    [] rule.trigger = "staleness_warning" -> StalenessFires(cur)
    [] rule.trigger = "trust_degradation" -> TrustDegradationFires(cur)
    [] rule.trigger = "signal_reversal" -> SignalReversalFires(cur, prev)
    [] OTHER -> FALSE

\* A change is told from the label before to the label after; a warning names the
\* present label as its source.
FiredAlert(rule, cur, prev) ==
  LET change == rule.trigger \in {"regime_transition", "signal_reversal"}
  IN [rule |-> rule.id, trigger |-> rule.trigger,
      from |-> IF ~change THEN cur.label ELSE IF prev = Nil THEN Nil ELSE prev.label,
      to |-> IF change THEN cur.label ELSE Nil]

\* one alert for every enabled rule that fires, in the order of the rules
EvaluateRules(rules, cur, prev) ==
  LET firing == InOrder({k \in DOMAIN rules : rules[k].enabled /\ Fires(rules[k], cur, prev)}, <)
  IN [n \in DOMAIN firing |-> FiredAlert(rules[firing[n]], cur, prev)]
=============================================================================
