--------------------------- MODULE MCTradingBook ----------------------------
(* TradingBook with two interchangeable assets. *)
EXTENDS TradingBook, TLC

AssetSymmetry == Permutations(Assets)
=============================================================================
