--------------------------- MODULE SchedulerStore ---------------------------
(***************************************************************************)
(* The scheduler's part of the module KV store and the keeper methods that *)
(* read and write it (keeper/scheduler.go, types/keys.go).                 *)
(*                                                                         *)
(* A task is one KV entry: the key is (type, height, contract) and the     *)
(* value is the "repeat" byte, here a BOOLEAN.  The big-endian encoding of *)
(* the key makes the iteration order: heights ascending, then contract     *)
(* address.  A store is a function from the keys present to the repeat     *)
(* flag; every operator takes the store and returns the new one.           *)
(***************************************************************************)
EXTENDS Integers, FiniteSets, Functions

CONSTANT Contracts      \* addresses of the virtual staking contracts

HandleEpoch  == "handle_epoch"
ValsetUpdate == "valset_update"
TaskType     == {HandleEpoch, ValsetUpdate}

TaskKey == [type : TaskType, height : Nat, contract : Contracts]

Key(tp, h, c) == [type |-> tp, height |-> h, contract |-> c]

IsTaskStore(s) ==
  /\ DOMAIN s \subseteq TaskKey
  /\ s \in [DOMAIN s -> BOOLEAN]

Put(s, k, v) == [x \in DOMAIN s \cup {k} |-> IF x = k THEN v ELSE s[x]]
Delete(s, ks) == Restrict(s, DOMAIN s \ ks)

(* The keys visited by iterateScheduledContractTasks. *)
TasksOf(s, tp, c) == {k \in DOMAIN s : k.type = tp /\ k.contract = c}

(* Variant: looks at the first entry of the contract only. *)
HasScheduledTask_FirstOnly(s, tp, c, repeat) ==
  \E k \in TasksOf(s, tp, c) :
    s[k] = repeat /\ \A j \in TasksOf(s, tp, c) : k.height <= j.height

HasScheduledTask(s, tp, c, repeat) == \E k \in TasksOf(s, tp, c) : s[k] = repeat

(* The sanity check shared by the two Schedule... methods. *)
CanSchedule(now, h) == h >= now

(* An existing key wins: duplicates are silently ignored. *)
ScheduleOneShotTask(s, tp, c, h) ==
  IF Key(tp, h, c) \in DOMAIN s THEN s ELSE Put(s, Key(tp, h, c), FALSE)

(* Duplicates are overwritten. *)
ScheduleRepeatingTask(s, tp, c, h) == Put(s, Key(tp, h, c), TRUE)

(* Variant: the entry of an executed task stays. *)
deleteScheduledTask_Kept(s, k) == s

deleteScheduledTask(s, k) == Delete(s, {k})

(* Variant: tasks of every type are deleted. *)
DeleteAllScheduledTasks_AnyType(s, tp, c) == Delete(s, {k \in DOMAIN s : k.contract = c})

DeleteAllScheduledTasks(s, tp, c) == Delete(s, TasksOf(s, tp, c))

(* Variant: does not stop at future heights. *)
DueTasks_NoLimit(s, tp, now) == Restrict(s, {k \in DOMAIN s : k.type = tp})

(* What IterateScheduledTasks(tp, now) walks over. The iterator of the     *)
(* cached store is a snapshot, so it is a store of its own.                *)
DueTasks(s, tp, now) == Restrict(s, {k \in DOMAIN s : k.type = tp /\ k.height <= now})

=============================================================================
