--------------------------- MODULE MCRunnerLease ---------------------------
(* Instance of RunnerLease for TLC. *)
EXTENDS RunnerLease, TLC

\* Runners are interchangeable.
Symmetry == Permutations(Runners)

\* The lease is as short as RenewedLeaseHolds needs, and shorter than a preparation.
ASSUME LeaseOutlastsSilence /\ LeaseTicks = Unheard + StopTicks
ASSUME LeaseTicks < PrepTicks
=============================================================================
