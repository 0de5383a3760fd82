------------------------------ MODULE MacroFeeds ------------------------------
(***************************************************************************)
(* The data behind the agent and the ingestion pipeline, as functions: the *)
(* source adapters (src/agent/adapters/sources), the macro service, the    *)
(* comparison of a snapshot with prior values and the signal engine.       *)
(*                                                                         *)
(* A feed gives each indicator [error, obs]: how its request fails, Nil if *)
(* it does not, and its observations, newest first, Nil for a missing one  *)
(* ("." or an empty close).  Features are a function from the indicators   *)
(* that were obtained to their values.                                     *)
(***************************************************************************)
EXTENDS Integers, Sequences, FiniteSets, SequencesExt

CONSTANTS Indicators,   \* the indicators considered
          Nil

-----------------------------------------------------------------------------
(* Adapters *)

FredSeries == {"gdp", "inflation", "unemployment", "pmi", "retail_sales", "yield_10y",
               "interest_rate"}
AlphaVantageSeries == {"gdp", "retail_sales", "inflation", "unemployment", "interest_rate",
                       "yield_10y"}
YahooSeries == {"yield_10y", "stock_index", "exchange_rate", "commodity_price"}

SupportedBy == [fred |-> FredSeries, alpha_vantage |-> AlphaVantageSeries,
                yahoo_finance |-> YahooSeries]

Newest(obs) == IF obs = <<>> THEN Nil ELSE Head(obs)

\* FRED is asked for one observation: a missing one is no feature
FredLatest(series) == Newest(series.obs)

\* Alpha Vantage takes the newest that is there
AlphaVantageLatest(series) == Newest(SelectSeq(series.obs, LAMBDA v : v # Nil))

\* as does Yahoo: the market price, or the last close there is
YahooLatest(series) == Newest(SelectSeq(series.obs, LAMBDA v : v # Nil))

Observed(provider, series) ==
  IF series.error # Nil THEN Nil
  ELSE CASE provider = "fred" -> FredLatest(series)
         [] provider = "alpha_vantage" -> AlphaVantageLatest(series)
         [] OTHER -> YahooLatest(series)

\* what cannot be had is left out: no adapter raises, and none looks at the country
FetchRaw(provider, wanted, feed) ==
  LET got == {i \in wanted \cap SupportedBy[provider] : Observed(provider, feed[i]) # Nil}
  IN [i \in got |-> Observed(provider, feed[i])]

-----------------------------------------------------------------------------
(* Macro service and comparison *)

\* get_snapshot: the features of every supported indicator, none of them being
\* an error; without a source, three placeholders
SnapshotFeatures(provider, feed) ==
  IF provider = Nil THEN [i \in {"gdp", "inflation", "unemployment"} |-> 50]
  ELSE FetchRaw(provider, Indicators \cap SupportedBy[provider], feed)

\* compare_snapshots: one verdict per current feature
Directions(current, prior) ==
  [i \in DOMAIN current |->
     IF i \notin DOMAIN prior THEN "no_prior"
     ELSE IF current[i] = prior[i] THEN "unchanged"
     ELSE IF current[i] > prior[i] THEN "increased" ELSE "decreased"]
Comparison(current, prior) ==
  LET dir == Directions(current, prior)
      Count(kinds) == Cardinality({i \in DOMAIN dir : dir[i] \in kinds})
  IN [changed |-> Count({"increased", "decreased"}), unchanged |-> Count({"unchanged"}),
      noPrior |-> Count({"no_prior"})]

-----------------------------------------------------------------------------
(* Signals: every rule scores a half, so each definition gives one signal *)

Registry == [bull_market |-> "buy", recession_warning |-> "sell", hold_neutral |-> "hold"]

SignalCounts(ids) ==
  LET Count(type) == Len(SelectSeq(ids, LAMBDA id : Registry[id] = type))
  IN [generated |-> Len(ids), buy |-> Count("buy"), sell |-> Count("sell"), hold |-> Count("hold")]
=============================================================================
