--------------------------- MODULE MCCommandDesk ----------------------------
(***************************************************************************)
(* One command and two readers of the brief: a brief of the market before  *)
(* its change may be stored after one of the market it changed to.         *)
(***************************************************************************)
EXTENDS CommandDesk

QueriesDef == {{"tech", "memory"}, {"hello"}}
MarketsDef == {[name |-> "GROWTH_ACCELERATION", VIX |-> 1400],
               [name |-> "CRISIS_MODE", VIX |-> 3200]}
=============================================================================
