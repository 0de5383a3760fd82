---------------------------- MODULE MCMarketServer ----------------------------
(* One tool thread, one collection, a two-second TTL, one failing call and    *)
(* one restart: a slow query is overtaken by a commit and an expiry.         *)
EXTENDS MarketServer
=============================================================================
