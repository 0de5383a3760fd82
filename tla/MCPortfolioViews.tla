-------------------------- MODULE MCPortfolioViews --------------------------
(***************************************************************************)
(* The event loop and one worker, one commit, a two-second TTL and one     *)
(* failing read: enough for a slow reader to store rows that the commit    *)
(* and an expiry have overtaken.                                           *)
(***************************************************************************)
EXTENDS PortfolioViews
=============================================================================
