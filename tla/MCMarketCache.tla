--------------------------- MODULE MCMarketCache ---------------------------
(***************************************************************************)
(* Three requests: one fills the cache, two can overlap on the stale row.  *)
(* A request may outlast the TTL.                                          *)
(***************************************************************************)
EXTENDS MarketCache, TLC

Symmetry == Permutations(Requests) \cup Permutations(Contents)
=============================================================================
