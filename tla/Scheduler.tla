------------------------------ MODULE Scheduler -----------------------------
(***************************************************************************)
(* The scheduler of x/meshsecurity over a sequence of blocks: who adds     *)
(* tasks (governance through SetVirtualStakingMaxCap, staking/slashing     *)
(* through sendAsync), and how EndBlocker executes them.                   *)
(*                                                                         *)
(* A block is: phase "deliver" (BeginBlock, transactions and the           *)
(* EndBlockers of the other modules, in any order), then this module's     *)
(* EndBlocker in two passes, "valset" and "epoch", each over a snapshot of *)
(* the due tasks, then the commit.                                         *)
(***************************************************************************)
EXTENDS SchedulerStore, MaxCaps

CONSTANTS
  EpochLength,    \* module parameter, in blocks
  Caps,           \* limits governance may set
  Ops,            \* valset operations (operation type, validator, slash info)
  MaxHeight       \* bound: the last block height explored

ASSUME EpochLengthAssumption == EpochLength \in Nat
ASSUME CapsAssumption        == Caps \subseteq Nat
ASSUME MaxHeightAssumption   == MaxHeight \in Nat

VARIABLES
  panicOnError,  \* am.asyncTaskRspHandler: TRUE for the strict response handler
  height,      \* ctx.BlockHeight()
  phase,       \* "deliver", "valset", "epoch", or "halted" after a panic
  deployed,    \* contracts the wasm keeper has contract info for
  maxCap,      \* max cap limits (KV store)
  tasks,       \* scheduled tasks (KV store)
  piped,       \* piped valset operations (memory store)
  due,         \* snapshot the running ExecScheduledTasks still has to walk
  results,     \* ExecResults of the running pass
  \* History of the current block, read by the properties only:
  recorded,    \* operations passed to sendAsync
  owed,        \* owed[c]: those passed while c had a limit above zero
  reported,    \* reported[c]: operations in the report sent to c
  lowered,     \* contracts whose limit was lowered
  served       \* served[c]: how often handle_epoch was called on c

store == <<deployed, maxCap, tasks, piped>>
history == <<recorded, owed, reported, lowered, served>>
vars == <<panicOnError, height, phase, store, due, results, history>>

Result == [contract : Contracts, execErr : BOOLEAN, rescheduleErr : BOOLEAN]
EmptyStore == [k \in {} |-> FALSE]

TypeOK ==
  /\ panicOnError \in BOOLEAN
  /\ height \in Nat
  /\ phase \in {"deliver", "valset", "epoch", "halted"}
  /\ deployed \subseteq Contracts
  /\ DOMAIN maxCap \subseteq Contracts /\ maxCap \in [DOMAIN maxCap -> Nat]
  /\ IsTaskStore(tasks)
  /\ piped \subseteq Ops
  /\ IsTaskStore(due)
  /\ results \subseteq Result
  /\ recorded \subseteq Ops
  /\ owed \in [Contracts -> SUBSET Ops]
  /\ reported \in [Contracts -> SUBSET Ops]
  /\ lowered \subseteq Contracts
  /\ served \in [Contracts -> Nat]

NewBlockHistory ==
  /\ recorded' = {}
  /\ owed' = [c \in Contracts |-> {}]
  /\ reported' = [c \in Contracts |-> {}]
  /\ lowered' = {}
  /\ served' = [c \in Contracts |-> 0]

(* After InitGenesis, with the given contracts instantiated. *)
FreshChain(contracts) ==
  /\ height = 1
  /\ phase = "deliver"
  /\ deployed = contracts
  /\ maxCap = [c \in {} |-> 0]
  /\ tasks = EmptyStore
  /\ piped = {}
  /\ due = EmptyStore
  /\ results = {}
  /\ recorded = {}
  /\ owed = [c \in Contracts |-> {}]
  /\ reported = [c \in Contracts |-> {}]
  /\ lowered = {}
  /\ served = [c \in Contracts |-> 0]

(* NewAppModule installs the default handler, NewAppModuleX any. *)
Init == panicOnError \in BOOLEAN /\ FreshChain({})

-----------------------------------------------------------------------------
(* Phase "deliver" *)

(* A contract is instantiated (x/wasm). *)
Instantiate(c) ==
  /\ phase = "deliver"
  /\ c \notin deployed
  /\ deployed' = deployed \cup {c}
  /\ UNCHANGED <<panicOnError, height, phase, maxCap, tasks, piped, due, results, history>>

(* Variant: the epoch is counted backwards. *)
ScheduleRegularRebalanceTask_Backwards(c) ==
  /\ c \in deployed
  /\ tasks' = ScheduleRepeatingTask(tasks, HandleEpoch, c, height - EpochLength)

(* ScheduleRegularRebalanceTask: fails for an unknown contract. *)
ScheduleRegularRebalanceTask(c) ==
  /\ c \in deployed
  /\ tasks' = ScheduleRepeatingTask(tasks, HandleEpoch, c, height + EpochLength)

(* Variants: one shot scheduled before the deletion; nothing deleted;      *)
(* everything deleted, whatever the limit is.                              *)
ScheduleLastRebalance_Swapped(c, amt) ==
  LET asked == ScheduleOneShotTask(tasks, HandleEpoch, c, height)
  IN  tasks' = IF amt = 0 THEN DeleteAllScheduledTasks(asked, HandleEpoch, c) ELSE asked

ScheduleLastRebalance_NoDelete(c, amt) ==
  tasks' = ScheduleOneShotTask(tasks, HandleEpoch, c, height)

ScheduleLastRebalance_AlwaysDeletes(c, amt) ==
  tasks' = ScheduleOneShotTask(DeleteAllScheduledTasks(tasks, HandleEpoch, c), HandleEpoch, c, height)

(* With a limit of 0 every epoch task goes first; the one shot for the     *)
(* current height is always added.                                         *)
ScheduleLastRebalance(c, amt) ==
  LET kept == IF amt = 0 THEN DeleteAllScheduledTasks(tasks, HandleEpoch, c) ELSE tasks
  IN  tasks' = ScheduleOneShotTask(kept, HandleEpoch, c, height)

(* MsgSetVirtualStakingMaxCap from the authority. A message that fails     *)
(* reverts as a whole and is not a step.                                   *)
SetVirtualStakingMaxCap(c, amt) ==
  /\ phase = "deliver"
  /\ FitsTotal(maxCap, c, amt)
  /\ maxCap' = SetMaxCapLimit(maxCap, c, amt)
  /\ \/ ~HasScheduledTask(tasks, HandleEpoch, c, TRUE) /\ ScheduleRegularRebalanceTask(c)
     \/ HasScheduledTask(tasks, HandleEpoch, c, TRUE) /\ ScheduleLastRebalance(c, amt)
  /\ lowered' = IF amt < GetMaxCapLimit(maxCap, c) THEN lowered \cup {c} ELSE lowered
  /\ UNCHANGED <<panicOnError, height, phase, deployed, piped, due, results, recorded, owed, reported, served>>

(* sendAsync: store the operation and schedule a report for every contract *)
(* with a limit above zero.                                                *)
ScheduleReports(s) ==
  LET new == {Key(ValsetUpdate, height, c) : c \in ActiveContracts(maxCap)} \ DOMAIN s
  IN  [k \in DOMAIN s \cup new |-> IF k \in new THEN FALSE ELSE s[k]]

sendAsync(op) ==
  /\ phase = "deliver"
  /\ piped' = piped \cup {op}
  /\ tasks' = ScheduleReports(tasks)
  /\ recorded' = recorded \cup {op}
  /\ owed' = [c \in Contracts |->
                IF c \in ActiveContracts(maxCap) THEN owed[c] \cup {op} ELSE owed[c]]
  /\ UNCHANGED <<panicOnError, height, phase, deployed, maxCap, due, results, reported, lowered, served>>

-----------------------------------------------------------------------------
(* EndBlocker *)

BeginEndBlock ==
  /\ phase = "deliver"
  /\ height < MaxHeight
  /\ phase' = "valset"
  /\ due' = DueTasks(tasks, ValsetUpdate, height)
  /\ UNCHANGED <<panicOnError, height, store, results, history>>

(* Entries are walked in key order, so lower heights first. *)
IsNext(k) == k \in DOMAIN due /\ \A j \in DOMAIN due : k.height <= j.height

(* Variant: the epoch is one block short. *)
NextRun_Short == height + EpochLength - 1

NextRun == height + EpochLength

(* A repeating task is entered again one epoch ahead. *)
Repeats(k)     == due[k] /\ EpochLength # 0
Rescheduled(k) == IF Repeats(k) /\ CanSchedule(height, NextRun)
                  THEN ScheduleRepeatingTask(tasks, k.type, k.contract, NextRun)
                  ELSE tasks

(* Variant: a failed task is not re-scheduled. *)
ExecTask_OnlyIfOK(k, fails) ==
  /\ IsNext(k)
  /\ tasks' = deleteScheduledTask(IF fails THEN tasks ELSE Rescheduled(k), k)
  /\ due' = Delete(due, {k})
  /\ UNCHANGED results

(* One round of ExecScheduledTasks: the callback ran on entry k and either *)
(* succeeded or failed; the task is re-scheduled when it repeats and the   *)
(* entry is deleted, whatever the callback returned.                       *)
ExecTask(k, fails) ==
  /\ IsNext(k)
  /\ tasks' = deleteScheduledTask(Rescheduled(k), k)
  /\ due' = Delete(due, {k})
  /\ results' = results \cup
       {[contract |-> k.contract, execErr |-> fails,
         rescheduleErr |-> Repeats(k) /\ ~CanSchedule(height, NextRun)]}

(* First pass: the callback builds the report from everything that is      *)
(* piped and sends it.  Building can fail (for a validator that is gone,   *)
(* see ValsetUpdates): then the contract is not called at all.             *)
SendValsetUpdate(k, built, fails) ==
  /\ phase = "valset"
  /\ ~built => fails
  /\ ExecTask(k, fails)
  /\ reported' = IF built THEN [reported EXCEPT ![k.contract] = @ \cup piped] ELSE reported
  /\ UNCHANGED <<panicOnError, height, phase, deployed, maxCap, piped, recorded, owed, lowered, served>>

(* Second pass. *)
SendHandleEpoch(k, fails) ==
  /\ phase = "epoch"
  /\ ExecTask(k, fails)
  /\ served' = [served EXCEPT ![k.contract] = @ + 1]
  /\ UNCHANGED <<panicOnError, height, phase, deployed, maxCap, piped, recorded, owed, reported, lowered>>

(* Variants: every handler is strict; every handler is the default one. *)
HandlerPanics_Always(r) == r.execErr \/ r.rescheduleErr
HandlerPanics_Default(r) == ~r.execErr /\ r.rescheduleErr

(* The response handler looks at every result once the pass is complete.   *)
(* The default one panics on a re-schedule error only (and not when the    *)
(* callback failed as well), the strict one on any error.                  *)
HandlerPanics(r) == IF panicOnError THEN r.execErr \/ r.rescheduleErr
                                    ELSE ~r.execErr /\ r.rescheduleErr

PassDone(p) == phase = p /\ due = EmptyStore
ResponsesAccepted == \A r \in results : ~HandlerPanics(r)

(* Variant: the memory store is not cleared. *)
ClearPipedValsetOperations_Kept ==
  /\ PassDone("valset")
  /\ ResponsesAccepted
  /\ phase' = "epoch"
  /\ due' = DueTasks(tasks, HandleEpoch, height)
  /\ results' = {}
  /\ UNCHANGED <<panicOnError, height, deployed, maxCap, tasks, piped, history>>

ClearPipedValsetOperations ==
  /\ PassDone("valset")
  /\ ResponsesAccepted
  /\ phase' = "epoch"
  /\ piped' = {}
  /\ due' = DueTasks(tasks, HandleEpoch, height)
  /\ results' = {}
  /\ UNCHANGED <<panicOnError, height, deployed, maxCap, tasks, history>>

(* The block is committed and the next one begins. *)
Commit ==
  /\ PassDone("epoch")
  /\ ResponsesAccepted
  /\ phase' = "deliver"
  /\ height' = height + 1
  /\ results' = {}
  /\ NewBlockHistory
  /\ UNCHANGED <<panicOnError, store, due>>

(* A panic in EndBlock stops the chain. *)
Halt ==
  /\ PassDone("valset") \/ PassDone("epoch")
  /\ ~ResponsesAccepted
  /\ phase' = "halted"
  /\ UNCHANGED <<panicOnError, height, store, due, results, history>>

EndBlocker ==
  \/ BeginEndBlock
  \/ \E k \in DOMAIN due, built, fails \in BOOLEAN : SendValsetUpdate(k, built, fails)
  \/ ClearPipedValsetOperations
  \/ \E k \in DOMAIN due, fails \in BOOLEAN : SendHandleEpoch(k, fails)
  \/ Commit
  \/ Halt

Deliver ==
  \/ \E c \in Contracts : Instantiate(c)
  \/ \E c \in Contracts, amt \in Caps : SetVirtualStakingMaxCap(c, amt)
  \/ \E op \in Ops : sendAsync(op)

Next == Deliver \/ EndBlocker

Spec == Init /\ [][Next]_vars

(* CometBFT keeps deciding blocks and EndBlock is one call: no delivered   *)
(* message can postpone it for ever.                                       *)
FairSpec == Spec /\ WF_vars(EndBlocker)

-----------------------------------------------------------------------------
(* Properties *)

RepeatingTasks(c) == {k \in TasksOf(tasks, HandleEpoch, c) : tasks[k]}

(* No task is left behind: the store never holds a task for a past block,  *)
(* and a report is only ever scheduled for the current one.                *)
NoStaleTasks ==
  \A k \in DOMAIN tasks :
    /\ k.height >= height
    /\ k.type = ValsetUpdate => k.height = height /\ ~tasks[k]

(* However limits are raised, lowered, zeroed and set again, a contract    *)
(* has at most one repeating rebalance task.                               *)
OneRepeatingTask ==
  \A c \in Contracts : \A j, k \in RepeatingTasks(c) : j = k

(* A contract with a limit above zero is rebalanced regularly: its         *)
(* repeating task exists and is due within one epoch.                      *)
ActiveContractsRebalance ==
  EpochLength > 0 =>
    \A c \in ActiveContracts(maxCap) :
      \E k \in RepeatingTasks(c) : k.height <= height + EpochLength

(* Lowering a limit reaches the contract in the same block: handle_epoch   *)
(* is called exactly once before the commit.                               *)
LoweredLimitIsServed ==
  [][height' # height => \A c \in lowered : served[c] = 1]_vars

(* Setting an active contract's limit to 0 ends its regular rebalances.    *)
ZeroLimitStopsRebalances ==
  [][\A c \in ActiveContracts(maxCap) \ ActiveContracts(maxCap') :
       \A k \in TasksOf(tasks', HandleEpoch, c) : ~tasks'[k] /\ k.height = height]_vars

(* A contract that had a limit when an operation was stored is sent that   *)
(* operation in the same block, whatever governance does to the limit      *)
(* later in the block, unless its callback failed, and then the response   *)
(* handler is shown the error: no report is lost silently.  Past a strict  *)
(* handler none is missing.                                                *)
MissedReportsAreErrors ==
  /\ PassDone("valset") =>
       \A c \in Contracts : \/ owed[c] \subseteq reported[c]
                            \/ \E r \in results : r.contract = c /\ r.execErr
  /\ panicOnError /\ phase = "epoch" => \A c \in Contracts : owed[c] \subseteq reported[c]

(* No report carries an operation of an older block. *)
ReportsAreFresh ==
  \A c \in Contracts : reported[c] \subseteq recorded

(* handle_epoch is called on a contract at most once per block, although   *)
(* the regular task and one shots may fall on the same block.              *)
ServedOncePerBlock == \A c \in Contracts : served[c] <= 1

(* The limits never add up to more than the module parameter allows, and   *)
(* only contracts known to x/wasm have one.                                *)
LimitsFitTotal ==
  /\ SumFunctionOnSet(maxCap, DOMAIN maxCap) <= TotalContractsMaxCap
  /\ DOMAIN maxCap \subseteq deployed

(* With the default response handler a failing contract never stops the    *)
(* chain.                                                                  *)
FailingContractsDoNotHalt == ~panicOnError => phase # "halted"

(* With the strict response handler no block is committed in which a       *)
(* callback failed, in either pass.                                        *)
StrictHandlerHalts ==
  [][panicOnError /\ phase' \in {"epoch", "deliver"} =>
       (phase = phase' \/ \A r \in results : ~r.execErr)]_vars

(* "no need to run regular rebalances with a new limit of 0": a contract   *)
(* whose limit is 0 has no repeating task.                                 *)
NoRebalancesForZeroLimit ==
  \A c \in DOMAIN maxCap : maxCap[c] = 0 => RepeatingTasks(c) = {}

(* An active contract is called within an epoch, or loses its limit, as    *)
(* long as blocks are made.                                                *)
RegularRebalance ==
  \A c \in Contracts :
    (EpochLength > 0 /\ GetMaxCapLimit(maxCap, c) > 0 /\ height + EpochLength < MaxHeight)
      ~> (served[c] > 0 \/ GetMaxCapLimit(maxCap, c) = 0 \/ phase = "halted")

=============================================================================
