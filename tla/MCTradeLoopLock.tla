--------------------------- MODULE MCTradeLoopLock ---------------------------
(* Model checking of TradeLoopLock. *)
EXTENDS TradeLoopLock, TLC

ProcessSymmetry == Permutations(Processes)
=============================================================================
