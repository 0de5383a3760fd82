------------------------------- MODULE Engines -------------------------------
(***************************************************************************)
(* src/engines.py: the quant, sentiment and persona engines, the row they  *)
(* make of a ticker, and the backtest.  A frame is a sequence of positive  *)
(* integer prices, oldest first; the windows are parameters.  Scores are   *)
(* in ten-thousandths.  A headline is what the lexicon makes of it:        *)
(* [tokens, weight, crisis], its tokens, the sum of their weights in       *)
(* hundredths and how many are crisis keywords.                            *)
(***************************************************************************)
EXTENDS Integers, Sequences, FiniteSets, Functions, FiniteSetsExt, SequencesExt

CONSTANTS Fast, Slow,   \* _SMA_FAST, _SMA_SLOW; the recent volatility window is Fast
          RsiPeriod,    \* _RSI_PERIOD
          AtrWindow,    \* _ATR_WINDOW
          Etfs          \* _ETF_TICKERS

ASSUME WindowsAssumption == /\ {Fast, Slow, RsiPeriod, AtrWindow} \subseteq Nat \ {0}
                            /\ 2 <= Fast /\ Fast < Slow

Clip(x, lo, hi) == IF x < lo THEN lo ELSE IF x > hi THEN hi ELSE x
Magnitude(x) == IF x < 0 THEN -x ELSE x

-----------------------------------------------------------------------------
(* Quant engine *)

Total(frame, k, w) == SumFunctionOnSet(frame, (k - w + 1)..k)
\* the sign of SMA(Fast) - SMA(Slow) at bar k, known from bar Slow on
Spread(frame, k) == Slow * Total(frame, k, Fast) - Fast * Total(frame, k, Slow)

\* a dead cross that stays unseen when the averages met on the way down
DeadCrossThrough(frame, k) == k > Slow /\ Spread(frame, k) < 0 /\ Spread(frame, k - 1) > 0

\* a cross needs both averages at both bars: with Slow rows there is none
GoldenCross(frame, k) == k > Slow /\ Spread(frame, k) > 0 /\ Spread(frame, k - 1) <= 0
DeadCross(frame, k) == k > Slow /\ Spread(frame, k) < 0 /\ Spread(frame, k - 1) >= 0

\* w(w-1) times the sample variance of the last w prices
Scatter(frame, k, w) ==
  w * SumFunctionOnSet([j \in 1..k |-> frame[j] * frame[j]], (k - w + 1)..k)
    - Total(frame, k, w) * Total(frame, k, w)

\* std / mean above 5 %, for an ETF 2.5 %
VolRatioHigh(frame, k, etf) ==
  (IF etf THEN 1600 ELSE 400) * Slow * Scatter(frame, k, Slow)
    > (Slow - 1) * Total(frame, k, Slow) * Total(frame, k, Slow)

\* stocks: the recent deviation above 1.5 times that of the long window
StockSpike(frame, k) ==
  4 * Slow * (Slow - 1) * Scatter(frame, k, Fast) > 9 * Fast * (Fast - 1) * Scatter(frame, k, Slow)

\* ETFs: the recent mean of the average true range above 1.3 times the mean
\* over AtrWindow; it stands on absolute returns and needs two of them
AbsReturn(frame, j) == (Magnitude(frame[j] - frame[j - 1]) * 10000) \div frame[j - 1]
Mean(series, from, to) == SumFunctionOnSet(series, from..to) \div (to - from + 1)
Atr(frame, j) ==
  Mean([i \in 2..j |-> AbsReturn(frame, i)], Max({2, j - AtrWindow + 1}), j)
MeanAtr(frame, k, w) == Mean([j \in 3..k |-> Atr(frame, j)], Max({3, k - w + 1}), k)
EtfSpike(frame, k) == 10 * MeanAtr(frame, k, Fast) > 13 * MeanAtr(frame, k, AtrWindow)

Neutral == [momentum |-> 5000, watch |-> FALSE, golden |-> FALSE, dead |-> FALSE,
            bull |-> FALSE, spike |-> FALSE]

\* fewer than Slow rows raise, and analyze answers with the neutral result
Quant(ticker, frame) ==
  LET k == Len(frame)  etf == ticker \in Etfs IN
  IF k < Slow THEN Neutral
  ELSE LET spike == IF etf THEN EtfSpike(frame, k) ELSE StockSpike(frame, k)
           raw == Clip(5000 + (50000 * Spread(frame, k)) \div (Fast * Total(frame, k, Slow)),
                       0, 10000)
           penalty == IF ~spike THEN 0 ELSE IF etf THEN 1000 ELSE 1500
       IN [momentum |-> Clip(raw - penalty, 0, 10000),
           watch |-> VolRatioHigh(frame, k, etf) \/ spike,
           golden |-> GoldenCross(frame, k), dead |-> DeadCross(frame, k),
           bull |-> Spread(frame, k) > 0, spike |-> spike]

-----------------------------------------------------------------------------
(* Sentiment engine and RSI *)

\* three crisis keywords, or more than 3 % of all tokens, switch the regime
Sentiment(news) ==
  LET Sum(field) == SumFunction([n \in DOMAIN news |-> news[n][field]])
      tokens == Sum("tokens")  crisis == Sum("crisis")
  IN IF tokens = 0 THEN [score |-> 0, crisis |-> FALSE]
     ELSE [score |-> Clip((Sum("weight") * 100 * 20) \div tokens, -10000, 10000),
           crisis |-> crisis >= 3 \/ 100 * crisis > 3 * tokens]

\* Wilder's averages of the moves up (1) or down (-1), over a common denominator: a
\* plain mean of the first RsiPeriod moves, then each older average weighs RsiPeriod - 1
Wilder(frame, way) ==
  LET Move(k) == Max({0, way * (frame[k] - frame[k - 1])})
      first == SumFunction([j \in 2..(RsiPeriod + 1) |-> Move(j)])
      Step(avg, k) == [sum |-> avg.sum * (RsiPeriod - 1) + Move(k) * avg.scale,
                       scale |-> avg.scale * RsiPeriod]
  IN FoldLeft(Step, [sum |-> first, scale |-> RsiPeriod],
              [n \in 1..(Len(frame) - RsiPeriod - 1) |-> RsiPeriod + 1 + n]).sum

\* RSI at or above 70: without losses it is 100, also when nothing moved
Overbought(frame) ==
  LET gain == Wilder(frame, 1)
      loss == Wilder(frame, -1)
  IN loss = 0 \/ 3 * gain >= 7 * loss

-----------------------------------------------------------------------------
(* Persona engine and the risk matrix row *)

Personas == {"AGGRESSIVE", "BALANCED", "CONSERVATIVE"}
QuantWeight == [AGGRESSIVE |-> 70, BALANCED |-> 50, CONSERVATIVE |-> 30]

Threshold == [AGGRESSIVE |-> 1000, BALANCED |-> 1500, CONSERVATIVE |-> 2500]

Composite(persona, momentum, score) ==
  (QuantWeight[persona] * (momentum - 5000) * 2 + (100 - QuantWeight[persona]) * score) \div 100

\* the margin of safety turns a conservative BUY of an overbought ticker into
\* HOLD, when there are bars enough for the RSI
Persona(persona, q, s, frame) ==
  LET c == Composite(persona, q.momentum, s.score)
      locked == /\ persona = "CONSERVATIVE" /\ c > Threshold[persona]
                /\ Len(frame) >= RsiPeriod + 1 /\ Overbought(frame)
  IN [signal |-> IF locked THEN "HOLD" ELSE IF c > Threshold[persona] THEN "BUY"
                 ELSE IF c < -Threshold[persona] THEN "SELL" ELSE "HOLD",
      confidence |-> Clip(Magnitude(c), 0, 10000), locked |-> locked]

\* a row whose spike does not count while the margin of safety locks it
RowUnlocked(q, s, p, late) ==
  [momentum |-> q.watch \/ q.golden \/ q.dead,
   rates |-> late \/ s.crisis,
   sentiment |-> s.score < -1000 \/ s.crisis,
   signal |-> p.signal, confidence |-> p.confidence,
   switch |-> s.crisis, spike |-> q.spike /\ ~p.locked, locked |-> p.locked]

\* what a row shows of the three engines' results; late: the macro phase is
\* late or contracting
Row(q, s, p, late) ==
  [momentum |-> q.watch \/ q.golden \/ q.dead,
   rates |-> late \/ s.crisis,
   sentiment |-> s.score < -1000 \/ s.crisis,
   signal |-> p.signal, confidence |-> p.confidence,
   switch |-> s.crisis, spike |-> q.spike, locked |-> p.locked]

-----------------------------------------------------------------------------
(* Backtest *)

Bullish(frame, k) == k >= Slow /\ Spread(frame, k) > 0
BacktestGolden(frame, k) == Bullish(frame, k) /\ ~Bullish(frame, k - 1)
BacktestDead(frame, k) == ~Bullish(frame, k) /\ Bullish(frame, k - 1)

\* forward-filled between crosses: long after a golden one, flat before any
Position(frame, k) ==
  LET crosses == {j \in 1..k : BacktestGolden(frame, j) \/ BacktestDead(frame, j)}
  IN crosses # {} /\ BacktestGolden(frame, Max(crosses))

\* what a bar makes of the value before it, as a fraction of the initial capital
Earned(frame, k, long, before) ==
  IF long THEN <<before[1] * frame[k], before[2] * frame[k - 1]>> ELSE before

\* a curve whose bar earns the decision taken at its own close
EquitySameDay(frame) ==
  LET w[k \in 1..Len(frame)] ==
        IF k = 1 THEN <<1, 1>> ELSE Earned(frame, k, Position(frame, k), w[k - 1])
  IN w

\* the equity curve: a bar earns its return if the position of the bar before was long
Equity(frame) ==
  LET w[k \in 1..Len(frame)] ==
        IF k = 1 THEN <<1, 1>> ELSE Earned(frame, k, Position(frame, k - 1), w[k - 1])
  IN w

Trades(frame) ==
  Cardinality({k \in 1..Len(frame) : BacktestGolden(frame, k) \/ BacktestDead(frame, k)})

\* fewer than Slow bars raise: the tool reports an error, here no result
Backtest(frame) ==
  IF Len(frame) < Slow THEN {}
  ELSE {[bars |-> Len(frame), equity |-> Equity(frame), trades |-> Trades(frame)]}
=============================================================================
