------------------------ MODULE MCPaperOrderTracking ------------------------
(* Model checking of PaperOrderTracking. *)
EXTENDS PaperOrderTracking, TLC

=============================================================================
