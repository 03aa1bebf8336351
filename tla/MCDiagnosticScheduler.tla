------------------------ MODULE MCDiagnosticScheduler ------------------------
(* Model checking of DiagnosticScheduler on the lease of SchedulerLease. *)
EXTENDS DiagnosticScheduler, TLC

OwnerSymmetry == Permutations(Owners)
=============================================================================
