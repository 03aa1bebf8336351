-------------------------- MODULE MCKisTokenCache --------------------------
(* Model checking of KisTokenCache. *)
EXTENDS KisTokenCache, TLC

=============================================================================
