------------------------- MODULE SchedulerRefinement ------------------------
(***************************************************************************)
(* The scheduler implements the epoch service: heights become countdowns,  *)
(* one-shot entries for the current height become requests.                *)
(***************************************************************************)
EXTENDS Scheduler

countdownBar ==
  [c \in Contracts |->
     IF RepeatingTasks(c) = {} THEN -1
     ELSE (CHOOSE k \in RepeatingTasks(c) : TRUE).height - height]

requestedBar ==
  {c \in Contracts :
     \E k \in TasksOf(tasks, HandleEpoch, c) : k.height = height /\ ~tasks[k]}

Service == INSTANCE EpochService WITH
             Contracts <- Contracts, Period <- EpochLength,
             countdown <- countdownBar, requested <- requestedBar,
             closed <- phase # "deliver"

(* Every step of the scheduler is a step of the epoch service or leaves it *)
(* unchanged: calls come exactly one epoch apart or on request, and no     *)
(* block is committed while a contract waits for a call.                   *)
ImplementsEpochService == Service!Spec

=============================================================================
