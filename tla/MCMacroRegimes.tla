---------------------------- MODULE MCMacroRegimes ----------------------------
(* Two days and four feeds: fresh and supported, late, late and unsupported,  *)
(* and one with several observations of a series and one without a value.     *)
EXTENDS MacroRegimes

Obs(i, v, lag) == [ind |-> i, age |-> 0, value |-> v, lag |-> lag]
Feed(cpi, u, y, pmi, retail, lag) ==
  <<Obs("inflation", cpi, lag), Obs("unemployment", u, lag), Obs("yield_10y", y, lag),
    Obs("pmi", pmi, lag), Obs("retail_sales", retail, lag)>>

MCFeeds ==
  {Feed(200, 350, 350, 5400, 10, "fresh"),     \* goldilocks, high
   Feed(200, 600, 350, 4900, -10, "late"),     \* disinflation, medium
   Feed(400, 600, 500, 4800, -10, "late"),     \* contraction, weak support: low
   <<[ind |-> "credit_spread", age |-> 0, value |-> 250, lag |-> "fresh"],
     [ind |-> "inflation", age |-> 1, value |-> 200, lag |-> "fresh"],
     [ind |-> "inflation", age |-> 0, value |-> 300, lag |-> "fresh"],
     [ind |-> "inflation", age |-> -1, value |-> 900, lag |-> "fresh"]>>
     \o SubSeq(Feed(0, 450, 320, 4900, Nil, "fresh"), 2, 5)}

MCReadings == {<<>>, [inflation |-> 200, unemployment |-> 350, yield_10y |-> 350]}
=============================================================================
