-------------------------- MODULE MCMarketLifecycle --------------------------
(* A market key with a creator and a provider of markets. *)
EXTENDS MarketLifecycle
=============================================================================
