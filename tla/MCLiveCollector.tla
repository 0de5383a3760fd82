-------------------------- MODULE MCLiveCollector ---------------------------
(***************************************************************************)
(* Two clients that come and go at will and two executor threads: one for  *)
(* the present collector, one for a cancelled one.  A fetch covers two     *)
(* days and the third day moves the window.                                *)
(***************************************************************************)
EXTENDS LiveCollector
=============================================================================
