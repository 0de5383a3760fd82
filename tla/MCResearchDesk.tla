---------------------------- MODULE MCResearchDesk ----------------------------
(* Three events of four kinds, at the edges of the windows of their rules, and  *)
(* a list that shows two of them; three regimes of as many families and the     *)
(* alert rules of each kind.                                                    *)
EXTENDS ResearchDesk

Rule(id, trigger, min) ==
  [id |-> id, trigger |-> trigger, enabled |-> TRUE, source |-> Nil, target |-> Nil, min |-> min]

MCRules == <<Rule("major", "regime_transition", "major"),
             Rule("stale", "staleness_warning", Nil),
             Rule("low", "trust_degradation", Nil),
             Rule("reversal", "signal_reversal", Nil),
             Rule("breach", "threshold_breach", Nil)>>

Regime(label, confidence, freshness) ==
  [label |-> label, confidence |-> confidence, freshness |-> freshness, degraded |-> "none"]

MCRegimes == {Regime("goldilocks", "high", "fresh"), Regime("contraction", "high", "fresh"),
              Regime("unclear", "low", "stale")}

MCClock == <<4, 13, 16>>

Raw(type, source, occurred) ==
  [type |-> type, source |-> source, occurred |-> occurred, summary |-> TRUE]

MCRawEvents ==
  {Raw("central_bank_decision", "bls", 0), Raw("central_bank_decision", "blog", 13),
   Raw("geopolitical_development", "bls", 4), Raw("macro_release", "reuters", 13)}

\* The two stores have only the clock in common: one of them is filled at a time.
OneStoreAtATime == events = <<>> \/ regimes = <<>>

Symmetry == Permutations(EventIds)
=============================================================================
