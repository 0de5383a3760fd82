------------------------------ MODULE SignalDesk ------------------------------
(***************************************************************************)
(* What the server tells its clients about a ticker and about the market   *)
(* as bars, headlines, macro indicators and price histories arrive: the    *)
(* payload's row and regime, the backtest, the synthesis and its           *)
(* scenarios.  Collectors change the caches at any time; every answer is   *)
(* computed from what they hold.                                           *)
(***************************************************************************)
EXTENDS Engines, Synthesis

CONSTANTS Prices, MaxBars,    \* a bar's prices; bound: bars of a frame
          Corpora,            \* what the headlines of a ticker may add up to
          Regimes,            \* rows of macro_regimes, [name, phase, confidence]
          Answers,            \* what the macro providers may answer, see MacroFetch
          Histories,          \* historical_prices: ticker -> closes
          MinObservations     \* returns a VaR needs

\* prices are positive; a row of macro_regimes has a confidence in percent
ASSUME PricesAssumption == Prices \subseteq Nat \ {0}
ASSUME RegimesAssumption == \A r \in Regimes : r.confidence \in Int
ASSUME HistoriesAssumption ==
  \A h \in Histories :
    IsFiniteSet(DOMAIN h) /\ \A t \in DOMAIN h : h[t] \in Seq(Nat \ {0})

VARIABLES frame,     \* the closes of one ticker, with the live tick last
          follower,  \* [long, since]: who acts on the live crosses only
          news, regime, macro, history

deskVars == <<frame, follower, news, regime, macro, history>>

Stock == "stock"
Etf == CHOOSE t \in Etfs : TRUE

-----------------------------------------------------------------------------
(* Answers *)

\* _build_payload over a stock and an ETF that share the frame: any regime
\* switch among the rows escalates, else any volatility spike
Rows(persona) ==
  LET quants == {Quant(t, frame) : t \in {Stock, Etf}}
      late == regime.phase \in {"LATE_CYCLE", "CONTRACTION"}
  IN {Row(q, s, Persona(persona, q, s, frame), late) : q \in quants, s \in {Sentiment(news)}}
LiveRegime(rows) ==
  IF \E r \in rows : r.switch THEN [name |-> "CRISIS_MODE", confidence |-> 95]
  ELSE IF \E r \in rows : r.spike THEN [name |-> "VOLATILITY_REGIME", confidence |-> 88]
  ELSE [name |-> regime.name, confidence |-> regime.confidence]

\* risk_summary, as far as the synthesis uses it
RiskRead == RiskFigures([t \in {u \in DOMAIN history : Len(history[u]) >= 2} |->
                           TickerRisk(history[t], MinObservations)])
CurrentInputs == SynthesisInputs(regime, macro, RiskRead)
CurrentView == SynthesisView(CurrentInputs)
Scenario(name) == WhatIf(WhatIfPresets[name], CurrentInputs)

-----------------------------------------------------------------------------
(* Behaviour *)

DeskInit == /\ frame = <<>> /\ follower = [long |-> FALSE, since |-> 0]
            /\ news \in Corpora /\ regime \in Regimes
            /\ macro = MacroDefaults /\ history = <<>>

\* a bar closes; the follower goes long on a live golden cross and flat on a
\* live dead one
Bar(p) ==
  LET longer == Append(frame, p)
      q == Quant(Stock, longer)
  IN /\ Len(frame) < MaxBars
     /\ frame' = longer
     /\ follower' = IF q.golden THEN [long |-> TRUE, since |-> Len(longer)]
                    ELSE IF q.dead THEN [long |-> FALSE, since |-> Len(longer)]
                    ELSE follower
     /\ UNCHANGED <<news, regime, macro, history>>

Headlines(n) == news' = n /\ UNCHANGED <<frame, follower, regime, macro, history>>

\* fetch_macro_indicators over [fred, yahoo, bls, ecb, bok], each a function from
\* series to values, empty when the provider fails or lacks its key.  FRED goes
\* first, Yahoo and BLS fill in, ECB and BOK have series of their own; when no
\* provider answers the mock values are returned like any others.
MacroFetch(answer) ==
  LET us == answer.fred @@ answer.yahoo @@ answer.bls
      all == answer.bok @@ answer.ecb @@ us
  IN IF DOMAIN all = {} THEN MacroDefaults ELSE all

\* _macro_collector_loop: what was fetched replaces what was cached, the rest stays
MacroCollected(answer) ==
  macro' = MacroFetch(answer) @@ macro /\ UNCHANGED <<frame, follower, news, regime, history>>

\* _historical_collector_loop
HistoryCollected(h) == history' = h /\ UNCHANGED <<frame, follower, news, regime, macro>>

DeskNext == \/ \E p \in Prices : Bar(p)
            \/ \E n \in Corpora : Headlines(n)
            \/ \E answer \in Answers : MacroCollected(answer)
            \/ \E h \in Histories : HistoryCollected(h)

DeskSpec == DeskInit /\ [][DeskNext]_deskVars

-----------------------------------------------------------------------------
(* Properties *)

\* "Today's bar earns yesterday's position decision - no look-ahead bias"
\* (BacktestEngine.run): a bar that closes changes no point of the equity curve
\* already drawn, and moves its last point only if the backtest was long before.
NoLookAhead ==
  [][\A old \in Backtest(frame), new \in Backtest(frame') :
       /\ \A k \in 1..old.bars : new.equity[k] = old.equity[k]
       /\ ~Position(frame, old.bars) => new.equity[new.bars] = old.equity[old.bars]]_deskVars

\* "the same crossover rule QuantEngine already detects for live signals,
\* replayed across history": who acts on every live cross is never caught long
\* below the slow average, and once having acted holds what the backtest holds,
\* except at a bar where the averages meet (a tie ends a backtest's trade and no
\* live one); a backtest that is not long has as many exits as entries.
LiveAndBacktestMeet ==
  frame # <<>> =>
    /\ Position(frame, Len(frame)) = (Trades(frame) % 2 = 1)
    /\ follower.long /\ Len(frame) >= Slow => Spread(frame, Len(frame)) >= 0
    /\ follower.since > 0 /\ Spread(frame, Len(frame)) # 0
         => follower.long = Position(frame, Len(frame))

\* The regime of a payload does not depend on the persona of the client it is
\* built for: the last regime notified is one variable for all the streams, and
\* two clients of different personas would announce transitions to each other
\* for ever (_build_payload, build_intelligence_row).
EscalationIsShared ==
  \A p, q \in Personas : LiveRegime(Rows(p)) = LiveRegime(Rows(q))

\* A scenario named for a shock never raises the conviction, whatever the risk
\* of today, and the soft landing never lowers it (_WHATIF_PRESETS and
\* compute_whatif_result; the stagflation preset may do either).  The same holds
\* of the agent's tool, over its fixed baseline risk (run_scenario_tool).
ScenariosMoveAsNamed ==
  /\ \A s \in {"vix_spike", "yield_inversion", "market_crash"} : Scenario(s).delta <= 0
  /\ Scenario("soft_landing").delta >= 0
  /\ RunScenarioTool(ToolPresets["crisis"], regime, macro).delta <= 0
  /\ RunScenarioTool(ToolPresets["goldilocks"], regime, macro).delta >= 0
=============================================================================
