------------------------ MODULE MCPaperOrderExecution ------------------------
(* Model checking of PaperOrderExecution. *)
EXTENDS PaperOrderExecution, TLC

\* Executors, reconcilers, keys, order ids and symbols are interchangeable.
Symmetries == Permutations(Executors) \cup Permutations(Reconcilers)
              \cup Permutations(Keys) \cup Permutations(OrderIds)
              \cup Permutations(Symbols)
=============================================================================
