----------------------------- MODULE MCSignalDesk -----------------------------
(* Windows of 2 and 3 bars over two prices; good headlines and a crisis;     *)
(* a quiet and a late regime; a VIX at the boundary, a steep and an inverted *)
(* curve, beside the defaults of the cache; no history, a calm one and a fall by half. *)
EXTENDS SignalDesk

MCCorpora == {<<[tokens |-> 100, weight |-> 185, crisis |-> 0]>>,
              <<[tokens |-> 40, weight |-> -90, crisis |-> 1],
                [tokens |-> 40, weight |-> -90, crisis |-> 2]>>}
MCRegimes == {[name |-> "MID_CYCLE", phase |-> "MID_CYCLE", confidence |-> 70],
              [name |-> "POLICY_TIGHTENING", phase |-> "LATE_CYCLE", confidence |-> 85]}
None == <<>>
Yahoo(values) == [fred |-> None, yahoo |-> values, bls |-> None, ecb |-> None, bok |-> None]
MCAnswers == {Yahoo([VIX |-> 2000]), Yahoo([T10Y |-> 450, T3M |-> 380]),
              Yahoo([T10Y |-> 300, T3M |-> 530]), Yahoo(None)}
MCHistories == {[stock |-> <<100, 101, 100, 102>>, etf |-> <<100, 99, 101, 100>>],
                [stock |-> <<100, 90, 70, 50>>, etf |-> <<100>>]}
=============================================================================
