--------------------------- MODULE MCStreamClient ---------------------------
(***************************************************************************)
(* Two components and up to six outages: one more than the retry counter   *)
(* needs to reach its cap.                                                 *)
(***************************************************************************)
EXTENDS StreamClient
=============================================================================
