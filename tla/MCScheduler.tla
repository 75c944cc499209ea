---------------------------- MODULE MCScheduler -----------------------------
(* Small instances of Scheduler and its refinement for TLC. *)
EXTENDS SchedulerRefinement, TLC

MCCaps == {0, 1, 2}
ContractSymmetry == Permutations(Contracts)

=============================================================================
