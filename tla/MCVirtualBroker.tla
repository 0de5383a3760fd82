-------------------------- MODULE MCVirtualBroker --------------------------
(***************************************************************************)
(* Two threads on one KRW and one USD ticker.  KRW 2.5000 pays for two     *)
(* shares at 1.1490 but not for three, USD 1.5000 for one: affordability   *)
(* is contended; 0 is a quantity the broker must refuse.                   *)
(***************************************************************************)
EXTENDS VirtualBroker

MCSeed == [c \in Currencies |-> IF c = "KRW" THEN 25000 ELSE 15000]
=============================================================================
