-------------------------- MODULE MCSchedulerLease --------------------------
(* Model checking of SchedulerLease alone: any client of the lease API. *)
EXTENDS SchedulerLease, TLC

OwnerSymmetry == Permutations(Owners)
=============================================================================
