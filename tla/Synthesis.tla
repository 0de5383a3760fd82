------------------------------ MODULE Synthesis ------------------------------
(***************************************************************************)
(* The cross-engine synthesis of src/main.py, its what-if scenarios        *)
(* (src/domain/synthesis, src/domain/whatif) and the risk figures they     *)
(* rest on (src/domain/risk).  Percentages, confidences and rates are in   *)
(* hundredths, conviction and penalty in ten-thousandths; Nil is a figure  *)
(* that is absent.                                                         *)
(***************************************************************************)
EXTENDS Integers, Sequences, FiniteSets, FiniteSetsExt, Functions, TLC

CONSTANT Nil

\* no figure is the absent one
ASSUME AbsentAssumption == Nil \notin Int

OrElse(x, default) == IF x = Nil THEN default ELSE x
Between(x, lo, hi) == IF x < lo THEN lo ELSE IF x > hi THEN hi ELSE x

-----------------------------------------------------------------------------
(* Inputs of the synthesis, derived from the caches of main.py *)

SynthesisRegime ==
  [EXPANSION |-> "expansion", RECOVERY |-> "recovery", POLICY_EASING |-> "expansion",
   EARLY_CYCLE |-> "expansion", MID_CYCLE |-> "expansion", LATE_CYCLE |-> "slowdown",
   POLICY_TIGHTENING |-> "slowdown", SLOWDOWN |-> "slowdown", CONTRACTION |-> "contraction",
   RECESSION |-> "contraction", CRISIS_MODE |-> "contraction",
   VOLATILITY_REGIME |-> "stagflation", STAGFLATION |-> "stagflation"]

DeriveQuantSupport(vix, spread) ==
  IF vix < 1500 /\ spread > 50 THEN "strong_positive"
  ELSE IF vix < 2000 /\ spread > 0 THEN "moderate_positive"
  ELSE IF vix > 3000 \/ spread < -50 THEN "strong_negative"
  ELSE IF vix > 2500 \/ spread < 0 THEN "moderate_negative" ELSE "neutral"

DeriveConflictStatus(label, vix, spread) ==
  IF label = "contraction" /\ vix > 2500 THEN "high_conflict"
  ELSE IF vix > 2000 \/ spread < 0 THEN "medium_conflict" ELSE "low_conflict"

\* regime: [name, phase, confidence]; the indicators are cached from the start
MacroDefaults == [T10Y |-> 435, T3M |-> 528, VIX |-> 1850]

SynthesisInputs(regime, macro, risk) ==
  LET spread == macro.T10Y - macro.T3M
      label == IF regime.name \in DOMAIN SynthesisRegime THEN SynthesisRegime[regime.name]
               ELSE "unknown"
  IN [regime |-> label, confidence |-> regime.confidence,
      quant |-> DeriveQuantSupport(macro.VIX, spread),
      conflict |-> DeriveConflictStatus(label, macro.VIX, spread),
      var |-> risk.var, mdd |-> risk.mdd]

-----------------------------------------------------------------------------
(* Risk: [var, mdd] per ticker, with at least two prices; drawdowns are not  *)
(* positive                                                                  *)

MaxDrawdown(prices) ==
  IF Len(prices) < 2 THEN 0
  ELSE LET Peak(k) == Max({prices[j] : j \in 1..k})
       IN Min({((prices[k] - Peak(k)) * 10000) \div Peak(k) : k \in DOMAIN prices})

DailyReturn(prices, k) == ((prices[k] - prices[k - 1]) * 10000) \div prices[k - 1]

\* the fifth percentile of the daily returns as a loss, from minObs returns on;
\* between two returns numpy interpolates: the model takes the lower one
Var95(prices, minObs) ==
  LET returns == 2..Len(prices)
      Below(k) ==
        Cardinality({j \in returns : DailyReturn(prices, j) < DailyReturn(prices, k)})
      worst == {k \in returns : 20 * Below(k) <= Len(prices) - 2}
  IN IF Cardinality(returns) < minObs THEN 0
     ELSE Between(-Max({DailyReturn(prices, k) : k \in worst}), 0, 10000)

TickerRisk(prices, minObs) == [var |-> Var95(prices, minObs), mdd |-> MaxDrawdown(prices)]

\* without any ticker of two prices both figures stay at zero
RiskFigures(risk) ==
  LET tickers == DOMAIN risk
  IN IF tickers = {} THEN [var |-> 0, mdd |-> 0]
     ELSE [var |-> SumFunction([t \in tickers |-> risk[t].var]) \div Cardinality(tickers),
           mdd |-> Min({risk[t].mdd : t \in tickers})]

-----------------------------------------------------------------------------
(* The synthesis *)

Placeholders == {"unknown", "insufficient_data", "no_data"}
EngineCount(in) ==
  Cardinality({f \in {"regime", "quant", "conflict"} : in[f] \notin Placeholders})
    + (IF in.var > 0 THEN 1 ELSE 0)

ConflictLevel(status) ==
  CASE status \in {"critical", "high", "severe", "high_conflict"} -> 3
    [] status \in {"medium", "moderate", "elevated", "medium_conflict"} -> 2
    [] status \in {"low", "low_conflict"} -> 1
    [] OTHER -> 0

\* up to a half each for VaR above 1 % and drawdown beyond 10 %
RiskPenalty(var, mdd) ==
  Between((var - 100) * 10, 0, 5000) + Between(((-mdd - 1000) * 100) \div 60, 0, 5000)

BullishRegimes == {"expansion", "recovery"}
CautiousRegimes == {"contraction", "slowdown", "stagflation"}
StrongQuant == {"strong_positive", "moderate_positive"}
WeakQuant == {"strong_negative", "moderate_negative", "neutral"}

\* the first status that applies, with the concern it names
Status(in) ==
  LET level == ConflictLevel(in.conflict) IN
  IF EngineCount(in) < 2 THEN <<"insufficient_data", "insufficient_engine_data">>
  ELSE IF in.var >= 500 THEN <<"risk_dominant", "elevated_var">>
  ELSE IF in.mdd <= -4000 THEN <<"risk_dominant", "severe_drawdown">>
  ELSE IF in.regime \in BullishRegimes /\ in.quant \in StrongQuant /\ level <= 1
       THEN <<"aligned_bullish", Nil>>
  ELSE IF in.regime \in CautiousRegimes /\ level < 2 THEN <<"aligned_cautious", "cautious_macro">>
  ELSE IF in.quant \in WeakQuant /\ level < 2 THEN <<"aligned_cautious", "weak_quant">>
  ELSE <<"mixed_signals", IF level >= 2 THEN "mixed_conflict" ELSE "mixed_macro_signals">>

SynthesisView(in) ==
  LET status == Status(in)
      penalty == IF status[1] = "insufficient_data" THEN 0 ELSE RiskPenalty(in.var, in.mdd)
  IN [status |-> status[1], concern |-> status[2], penalty |-> penalty,
      conviction |-> IF status[1] = "insufficient_data" THEN 0
                     ELSE Between(Between(in.confidence, 0, 100) * 100 - penalty, 0, 10000)]

-----------------------------------------------------------------------------
(* What-if: a scenario is a record of the inputs it overrides *)

Preset(quant, conflict, regime, var, mdd) ==
  [quant |-> quant, conflict |-> conflict, regime |-> regime, confidence |-> Nil,
   var |-> var, mdd |-> mdd]
WhatIfPresets ==
  [vix_spike |-> Preset("strong_negative", Nil, Nil, 650, Nil),
   yield_inversion |-> Preset("moderate_negative", "medium_conflict", Nil, Nil, Nil),
   market_crash |-> Preset("strong_negative", "high_conflict", Nil, 800, -4500),
   soft_landing |-> Preset("strong_positive", "low_conflict", "expansion", 80, Nil),
   stagflation |-> Preset("strong_negative", "high_conflict", "stagflation", 550, Nil)]

\* an overlay that starts from the calmest risk instead of the current one
WhatIfFromCalm(scenario, in) ==
  LET projected == [f \in DOMAIN in |->
        OrElse(scenario[f], IF f \in {"var", "mdd"} THEN 0 ELSE in[f])]
      before == SynthesisView(in)  after == SynthesisView(projected)
  IN [projected |-> after, changed |-> after.status # before.status,
      delta |-> after.conviction - before.conviction]

WhatIf(scenario, in) ==
  LET projected == [f \in DOMAIN in |-> OrElse(scenario[f], in[f])]
      before == SynthesisView(in)  after == SynthesisView(projected)
  IN [projected |-> after, changed |-> after.status # before.status,
      delta |-> after.conviction - before.conviction]

\* the agent's tool: its own presets, complete ones, over a baseline whose risk
\* is a constant
ToolPreset(regime, confidence, quant, conflict, var, mdd) ==
  [regime |-> regime, confidence |-> confidence, quant |-> quant, conflict |-> conflict,
   var |-> var, mdd |-> mdd]
ToolPresets ==
  [goldilocks |-> ToolPreset("expansion", 85, "strong_positive", "low", 150, -800),
   crisis |-> ToolPreset("contraction", 30, "strong_negative", "high", 800, -4500),
   stagflation |-> ToolPreset("stagflation", 55, "moderate_negative", "elevated", 450, -2800),
   fed_tightening |-> ToolPreset("policy_tightening_drag", 60, "neutral", "moderate", 320, -2000),
   soft_landing |-> ToolPreset("recovery", 72, "moderate_positive", "low", 200, -1200)]
ToolRisk == [var |-> 250, mdd |-> -1500]
RunScenarioTool(scenario, regime, macro) ==
  LET in == SynthesisInputs(regime, macro, ToolRisk)
      result == WhatIf(scenario, in)
  IN [baseline |-> SynthesisView(in), projected |-> result.projected,
      changed |-> result.changed, delta |-> result.delta]

-----------------------------------------------------------------------------
(* Rule-based texts that decide something: the brief's signal without a      *)
(* model, and the scenario an unanswered command falls back to               *)

FallbackSignal(regime, macro) ==
  IF regime.name \in {"CRISIS_MODE", "VOLATILITY_REGIME"} \/ macro.VIX > 2500 THEN "RISK-OFF"
  ELSE IF macro.VIX < 1500 /\ regime.name \in {"GROWTH_ACCELERATION", "REFLATION_TRADE"}
       THEN "RISK-ON" ELSE "NEUTRAL"

\* scenarios in their order, each with its keywords: the first that shares a word
MatchScenario(words, scenarios) ==
  LET hit == {n \in DOMAIN scenarios : scenarios[n].keywords \cap words # {}}
  IN IF hit = {} THEN "default" ELSE scenarios[Min(hit)].name
=============================================================================
