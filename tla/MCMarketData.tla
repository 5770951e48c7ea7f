---------------------------- MODULE MCMarketData ----------------------------
(* MarketData for TLC.  What happens after the first lost message is not   *)
(* explored: FeedShowsBook says nothing of it.                             *)
EXTENDS MarketData

Symmetry == Permutations(OrderIds)
NothingLostBefore == market_data_drops = 0
=============================================================================
