----------------------------- MODULE MCMarketData -----------------------------
(* An instance of MarketData for TLC. *)
EXTENDS MarketData
=============================================================================
