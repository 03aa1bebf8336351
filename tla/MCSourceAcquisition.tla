------------------------ MODULE MCSourceAcquisition ------------------------
(* Model checking of SourceAcquisition. *)
EXTENDS SourceAcquisition, TLC

=============================================================================
