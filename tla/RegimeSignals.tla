---------------------------- MODULE RegimeSignals ----------------------------
(***************************************************************************)
(* The signals derived from a regime (src/domain/signals, signal_service)  *)
(* and what the pages say of it (narrative_builder, the DTO builders and   *)
(* the explanations router).  A rule keeps the numbers of its drivers, not *)
(* their names; scores are in ten-thousandths.                             *)
(***************************************************************************)
EXTENDS RegimeRules, SequencesExt

Rule(asset, direction, strength, base, trend, supporting, conflicting) ==
  [asset |-> asset, direction |-> direction, strength |-> strength, base |-> base,
   trend |-> trend, supporting |-> supporting, conflicting |-> conflicting]

\* REGIME_SIGNAL_MAP, in its three blocks: expansions, slowdowns, contractions
ExpansionRules ==
  [goldilocks |-> <<Rule("equities", "buy", "strong", 80, "up", 4, 0),
                    Rule("bonds", "hold", "moderate", 55, "neutral", 2, 1)>>,
   disinflation |-> <<Rule("bonds", "buy", "strong", 75, "up", 2, 1),
                      Rule("equities", "hold", "moderate", 50, "neutral", 1, 2)>>]
SlowdownRules ==
  [reflation |-> <<Rule("commodities", "buy", "strong", 80, "up", 3, 0),
                   Rule("equities", "buy", "moderate", 65, "up", 2, 1),
                   Rule("bonds", "sell", "moderate", 65, "down", 1, 1)>>,
   slowdown |-> <<Rule("equities", "hold", "moderate", 55, "down", 2, 1),
                  Rule("bonds", "buy", "moderate", 60, "up", 2, 1)>>,
   stagflation_risk |-> <<Rule("equities", "sell", "strong", 80, "down", 3, 0),
                          Rule("bonds", "sell", "moderate", 65, "down", 1, 1),
                          Rule("commodities", "buy", "moderate", 60, "up", 1, 1)>>]
ContractionRules ==
  [contraction |-> <<Rule("equities", "sell", "very_strong", 90, "down", 3, 0),
                     Rule("bonds", "buy", "strong", 80, "up", 2, 1),
                     Rule("cash", "hold", "strong", 75, "neutral", 2, 0)>>,
   policy_tightening_drag |-> <<Rule("equities", "hold", "moderate", 55, "down", 2, 1),
                                Rule("bonds", "sell", "moderate", 60, "down", 2, 0)>>,
   mixed |-> <<Rule("equities", "hold", "weak", 30, "neutral", 0, 2)>>,
   unclear |-> <<Rule("all", "neutral", "very_weak", 10, "unknown", 0, 2)>>]

SignalRules(label) ==
  IF label \in DOMAIN ExpansionRules THEN ExpansionRules[label]
  ELSE IF label \in DOMAIN SlowdownRules THEN SlowdownRules[label]
  ELSE ContractionRules[label]

QuantSupport(q) ==
  IF SupportBelow(q, 40) THEN "weak"
  ELSE IF SupportBelow(q, 65) THEN "moderate" ELSE "strong"

\* conviction of a signal, apart from the quality of its data
Conflict(rule, q) ==
  IF rule.supporting = 0 \/ SupportBelow(q, 35) THEN "low_conviction"
  ELSE IF rule.conflicting >= rule.supporting THEN "mixed"
  ELSE IF rule.conflicting > 0 THEN "tension" ELSE "clean"

\* base (hundredths) times the confidence multiplier, times 0.85 when the
\* quant support is very weak
AdjustedScore(base, confidence, q) ==
  LET weighed == base * [high |-> 100, medium |-> 85, low |-> 65][confidence]
  IN IF SupportBelow(q, 35) THEN (weighed * 85) \div 100 ELSE weighed

\* the list of the signal service without low confidence
SignalsDegradedConfident(r) ==
  \/ r.seeded
  \/ r.freshness \in {"stale", "unknown"}
  \/ r.degraded \in {"partial", "missing", "source_unavailable"}
  \/ r.label \in NonDirectional

SignalsDegraded(r) ==
  \/ r.seeded
  \/ r.freshness \in {"stale", "unknown"}
  \/ r.degraded \in {"partial", "missing", "source_unavailable"}
  \/ r.confidence = "low"
  \/ r.label \in NonDirectional

Caveats == {"bootstrap", "non_directional", "stale", "freshness_unknown",
            "degraded_inputs", "partial", "low_confidence"}

ASSUME CaveatsAssumption == Nil \notin Caveats

\* why the signals are degraded, the first reason that applies
Caveat(r) ==
  IF r.seeded THEN "bootstrap"
  ELSE IF r.label \in NonDirectional THEN "non_directional"
  ELSE IF r.freshness = "stale" THEN "stale"
  ELSE IF r.freshness = "unknown" THEN "freshness_unknown"
  ELSE IF r.degraded \in {"missing", "source_unavailable"} THEN "degraded_inputs"
  ELSE IF r.degraded = "partial" THEN "partial"
  ELSE IF r.confidence = "low" THEN "low_confidence" ELSE Nil

RegimeGroundedSignals(r) ==
  LET rules == SignalRules(r.label) IN
  [k \in DOMAIN rules |->
     [asset |-> rules[k].asset, direction |-> rules[k].direction,
      strength |-> rules[k].strength, trend |-> rules[k].trend,
      score |-> AdjustedScore(rules[k].base, r.confidence, r.quant),
      conflict |-> Conflict(rules[k], r.quant), support |-> QuantSupport(r.quant),
      degraded |-> SignalsDegraded(r), caveat |-> Caveat(r)]]

\* the fallback engine: every rule scores 0.5 and passes none (a rule passes
\* above 0.5), whatever its condition says of the snapshot
ScoreStrength(score) ==
  IF score >= 9000 THEN "very_strong" ELSE IF score >= 7000 THEN "strong"
  ELSE IF score >= 5000 THEN "moderate" ELSE IF score >= 3000 THEN "weak" ELSE "very_weak"
EvaluateRule == 5000
Registry == [bull_market |-> "buy", recession_warning |-> "sell", hold_neutral |-> "hold"]
FallbackSignals(ids) ==
  [k \in DOMAIN ids |->
     [asset |-> "", direction |-> Registry[ids[k]], strength |-> ScoreStrength(EvaluateRule),
      trend |-> "neutral", score |-> EvaluateRule, conflict |-> "clean",
      support |-> "unknown", degraded |-> FALSE, caveat |-> Nil]]

\* the first signal of the highest score
Strongest(signals) ==
  IF signals = <<>> THEN Nil
  ELSE Min({k \in DOMAIN signals : \A j \in DOMAIN signals : signals[j].score <= signals[k].score})

CountOf(signals, direction) ==
  Cardinality({k \in DOMAIN signals : signals[k].direction = direction})

-----------------------------------------------------------------------------
(* Narratives *)

Narrative(r) ==
  [caveats |-> {c \in {"initial", "low_confidence", "non_directional", "partial"} :
                  \/ c = "initial" /\ r.transition.type = "initial"
                  \/ c = "low_confidence" /\ r.confidence = "low"
                  \/ c = "non_directional" /\ r.label \in NonDirectional
                  \/ c = "partial" /\ r.missing # {}},
   notes |-> {n \in {"freshness", "quality", "missing", "bootstrap"} :
                  \/ n = "freshness" /\ r.freshness # "fresh"
                  \/ n = "quality" /\ r.degraded \notin {"none", "unknown"}
                  \/ n = "missing" /\ r.missing # {}
                  \/ n = "bootstrap" /\ r.seeded},
   from |-> r.transition.from]

\* the conflict of a whole regime, from its quant support alone
RegimeConflict(q) == IF SupportBelow(q, 35) THEN "low_conviction"
                     ELSE IF SupportBelow(q, 40) THEN "tension" ELSE "clean"

\* the six steps of the reasoning chain, in order, each with what it shows
ReasoningChain(r, conflict) ==
  LET n == Narrative(r) IN
  <<[key |-> "current_state", value |-> r.label],
    [key |-> "why", value |-> r.states],
    [key |-> "confidence", value |-> r.confidence],
    [key |-> "conflict", value |-> conflict],
    [key |-> "caveats", value |-> n.caveats],
    [key |-> "what_changed",
     value |-> IF r.transition.type = "initial" \/ n.from = Nil THEN "initial"
               ELSE r.transition.type]>>

\* the freshness values the trust block of a response accepts
TrustFreshness == {"fresh", "stale", "unknown"}
\* GET /api/explanations/regime/latest: a regime whose freshness the trust
\* block has no value for ends in an unhandled error
RegimeExplanation(r) ==
  IF r.freshness \notin TrustFreshness THEN Nil
  ELSE [chain |-> ReasoningChain(r, RegimeConflict(r.quant)),
        changed |-> WhatChanged(r.transition),
        freshness |-> r.freshness,
        availability |-> IF r.degraded = "none" THEN "full" ELSE "partial",
        degraded |-> r.freshness \in {"stale", "unknown"} \/ r.degraded # "none",
        narrative |-> Narrative(r)]
=============================================================================
