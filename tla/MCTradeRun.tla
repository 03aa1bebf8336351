----------------------------- MODULE MCTradeRun -----------------------------
(* Model checking of TradeRun and its properties. *)
EXTENDS TradeRunProperties, TLC

\* Order ids are interchangeable, and so are prices: nothing in the
\* specification orders them or does arithmetic with them.
Symmetries == Permutations(OrderIds) \cup Permutations(Prices)

=============================================================================
