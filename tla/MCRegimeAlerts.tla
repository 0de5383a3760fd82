--------------------------- MODULE MCRegimeAlerts ---------------------------
(***************************************************************************)
(* Three transitions, so three broadcasts at once, through a ring of two;  *)
(* one endpoint, one failing database call and one restart.                *)
(***************************************************************************)
EXTENDS RegimeAlerts
=============================================================================
