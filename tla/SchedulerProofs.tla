--------------------------- MODULE SchedulerProofs --------------------------
(***************************************************************************)
(* Invariants of Scheduler for any contracts, operations, limits, epoch    *)
(* length, response handler and bound on the height, and the proof that it *)
(* implements EpochService.                                                *)
(***************************************************************************)
EXTENDS SchedulerRefinement, Foundations, TLAPS

(* Key builds a key of the scheduler's part of the store. *)
LEMMA KeyType ==
  ASSUME NEW tp \in TaskType, NEW h \in Nat, NEW c \in Contracts
  PROVE  /\ Key(tp, h, c) \in TaskKey
         /\ Key(tp, h, c).type = tp
         /\ Key(tp, h, c).height = h
         /\ Key(tp, h, c).contract = c
BY DEF Key, TaskKey

(* Writing an entry keeps the store well formed, and touches no other one. *)
LEMMA PutFacts ==
  ASSUME NEW s, IsTaskStore(s), NEW k \in TaskKey, NEW v \in BOOLEAN
  PROVE  /\ IsTaskStore(Put(s, k, v))
         /\ DOMAIN Put(s, k, v) = DOMAIN s \cup {k}
         /\ Put(s, k, v)[k] = v
         /\ \A x \in DOMAIN s : x # k => Put(s, k, v)[x] = s[x]
BY DEF IsTaskStore, Put

(* Deleting entries keeps the store well formed, and touches no other one. *)
LEMMA DeleteFacts ==
  ASSUME NEW s, IsTaskStore(s), NEW ks
  PROVE  /\ IsTaskStore(Delete(s, ks))
         /\ DOMAIN Delete(s, ks) = DOMAIN s \ ks
         /\ \A x \in DOMAIN s \ ks : Delete(s, ks)[x] = s[x]
BY DEF IsTaskStore, Delete, Restrict

(* The iterator's snapshot is a part of the store. *)
LEMMA DueFacts ==
  ASSUME NEW s, IsTaskStore(s), NEW tp, NEW now
  PROVE  /\ IsTaskStore(DueTasks(s, tp, now))
         /\ DOMAIN DueTasks(s, tp, now) = {k \in DOMAIN s : k.type = tp /\ k.height <= now}
         /\ \A x \in DOMAIN DueTasks(s, tp, now) : DueTasks(s, tp, now)[x] = s[x]
BY DEF IsTaskStore, DueTasks, Restrict

(* Scheduling reports adds one-shot entries for the current height and     *)
(* leaves the entries present as they are.                                 *)
LEMMA ReportFacts ==
  ASSUME TypeOK
  PROVE  /\ IsTaskStore(ScheduleReports(tasks))
         /\ DOMAIN ScheduleReports(tasks) =
              DOMAIN tasks \cup {Key(ValsetUpdate, height, c) : c \in ActiveContracts(maxCap)}
         /\ \A x \in DOMAIN tasks : ScheduleReports(tasks)[x] = tasks[x]
         /\ \A x \in DOMAIN ScheduleReports(tasks) \ DOMAIN tasks :
              ~ScheduleReports(tasks)[x]
<1> DEFINE all == {Key(ValsetUpdate, height, c) : c \in ActiveContracts(maxCap)}
           new == all \ DOMAIN tasks
<1>1. all \subseteq TaskKey
  BY KeyType DEF TypeOK, ActiveContracts, TaskType
<1>2. ScheduleReports(tasks) =
        [k \in DOMAIN tasks \cup new |-> IF k \in new THEN FALSE ELSE tasks[k]]
  BY DEF ScheduleReports
<1>3. IsTaskStore(tasks)
  BY DEF TypeOK
<1> HIDE DEF all
<1> QED
  BY <1>1, <1>2, <1>3 DEF IsTaskStore, all

-----------------------------------------------------------------------------
(* Type correctness *)

(* The initial state is typed. *)
LEMMA InitTypeOK == Init => TypeOK
BY DEF Init, FreshChain, TypeOK, EmptyStore, IsTaskStore

(* Every step keeps the types. *)
LEMMA NextTypeOK == TypeOK /\ [Next]_vars => TypeOK'
<1> SUFFICES ASSUME TypeOK, [Next]_vars PROVE TypeOK'
  OBVIOUS
<1>0. height \in Nat /\ height + EpochLength \in Nat /\ height + 1 \in Nat
  BY EpochLengthAssumption DEF TypeOK
<1>1. ASSUME NEW c \in Contracts, Instantiate(c) PROVE TypeOK'
  BY <1>1 DEF Instantiate, TypeOK, history
<1>2. ASSUME NEW c \in Contracts, NEW amt \in Caps, SetVirtualStakingMaxCap(c, amt)
      PROVE  TypeOK'
  <2>1. maxCap' = SetMaxCapLimit(maxCap, c, amt) /\ amt \in Nat
    BY <1>2, CapsAssumption DEF SetVirtualStakingMaxCap
  <2>2. DOMAIN maxCap' \subseteq Contracts /\ maxCap' \in [DOMAIN maxCap' -> Nat]
    BY <2>1 DEF SetMaxCapLimit, TypeOK
  <2>3. IsTaskStore(tasks')
    <3>1. /\ Key(HandleEpoch, height + EpochLength, c) \in TaskKey
          /\ Key(HandleEpoch, height, c) \in TaskKey
      BY <1>0, KeyType DEF TaskType
    <3>2. CASE ScheduleRegularRebalanceTask(c)
      BY <3>1, <3>2, PutFacts DEF ScheduleRegularRebalanceTask, ScheduleRepeatingTask, TypeOK
    <3>3. CASE ScheduleLastRebalance(c, amt)
      BY <3>1, <3>3, PutFacts, DeleteFacts
      DEF ScheduleLastRebalance, ScheduleOneShotTask, DeleteAllScheduledTasks, TypeOK
    <3> QED
      BY <1>2, <3>2, <3>3 DEF SetVirtualStakingMaxCap
  <2>4. lowered' \subseteq Contracts
    BY <1>2 DEF SetVirtualStakingMaxCap, TypeOK
  <2> QED
    BY <1>2, <2>2, <2>3, <2>4 DEF SetVirtualStakingMaxCap, TypeOK
<1>3. ASSUME NEW op \in Ops, sendAsync(op) PROVE TypeOK'
  <2>1. IsTaskStore(tasks')
    BY <1>3, ReportFacts DEF sendAsync
  <2> QED
    BY <1>3, <2>1 DEF sendAsync, TypeOK
<1>4. CASE BeginEndBlock
  BY <1>4, DueFacts DEF BeginEndBlock, TypeOK, store, history
<1>5. ASSUME NEW k \in DOMAIN due, NEW fails \in BOOLEAN, ExecTask(k, fails)
      PROVE  /\ k.contract \in Contracts
             /\ IsTaskStore(tasks') /\ IsTaskStore(due') /\ results' \subseteq Result
  <2>0. k \in TaskKey
    BY DEF TypeOK, IsTaskStore
  <2>1. k \in TaskKey /\ k.type \in TaskType /\ k.contract \in Contracts
    BY <2>0 DEF TaskKey
  <2>2. Key(k.type, NextRun, k.contract) \in TaskKey
    BY <1>0, <2>1, KeyType DEF NextRun
  <2>3. IsTaskStore(Rescheduled(k))
    BY <2>2, PutFacts DEF Rescheduled, ScheduleRepeatingTask, TypeOK
  <2>4. IsTaskStore(tasks')
    BY <1>5, <2>3, DeleteFacts DEF ExecTask, deleteScheduledTask
  <2>5. IsTaskStore(due')
    BY <1>5, DeleteFacts DEF ExecTask, TypeOK
  <2> DEFINE err == Repeats(k) /\ ~CanSchedule(height, NextRun)
  <2>6. err \in BOOLEAN
    OBVIOUS
  <2>7. results' = results \cup {[contract |-> k.contract, execErr |-> fails, rescheduleErr |-> err]}
    BY <1>5 DEF ExecTask
  <2> HIDE DEF err
  <2>8. results' \subseteq Result
    BY <2>1, <2>6, <2>7 DEF TypeOK, Result
  <2> QED
    BY <2>1, <2>4, <2>5, <2>8
<1>6. ASSUME NEW k \in DOMAIN due, NEW built \in BOOLEAN, NEW fails \in BOOLEAN,
             SendValsetUpdate(k, built, fails)
      PROVE  TypeOK'
  BY <1>5, <1>6 DEF SendValsetUpdate, TypeOK
<1>7. CASE ClearPipedValsetOperations
  BY <1>7, DueFacts DEF ClearPipedValsetOperations, TypeOK, history
<1>8. ASSUME NEW k \in DOMAIN due, NEW fails \in BOOLEAN, SendHandleEpoch(k, fails)
      PROVE  TypeOK'
  BY <1>5, <1>8 DEF SendHandleEpoch, TypeOK
<1>9. CASE Commit
  BY <1>9 DEF Commit, TypeOK, store, NewBlockHistory
<1>10. CASE Halt
  BY <1>10 DEF Halt, TypeOK, store, history
<1>11. CASE UNCHANGED vars
  BY <1>11 DEF vars, store, history, TypeOK
<1> QED
  BY <1>1, <1>2, <1>3, <1>4, <1>6, <1>7, <1>8, <1>9, <1>10, <1>11
  DEF Next, Deliver, EndBlocker

(* Every variable keeps its type: in particular no task is ever scheduled  *)
(* under a malformed key.                                                  *)
THEOREM TypeCorrect == Spec => []TypeOK
BY InitTypeOK, NextTypeOK, PTL DEF Spec

-----------------------------------------------------------------------------
(* The inductive invariant *)

(* The running pass still has to walk exactly the due entries in the       *)
(* store, and in the second pass no report is left.                        *)
DueIsExact ==
  /\ phase = "valset" => DOMAIN due = {k \in DOMAIN tasks : k.type = ValsetUpdate}
  /\ phase = "epoch" =>
       /\ DOMAIN due = {k \in DOMAIN tasks : k.type = HandleEpoch /\ k.height = height}
       /\ \A k \in DOMAIN tasks : k.type = HandleEpoch
  /\ phase \in {"valset", "epoch"} => \A k \in DOMAIN due : due[k] = tasks[k]

(* No task is further away than one epoch, active contract or not: a limit *)
(* may be raised from 0 while a repeating task exists.                     *)
WithinEpoch == \A k \in DOMAIN tasks : k.height <= height + EpochLength

(* NoStaleTasks alone is not inductive: the commit of a block preserves it *)
(* only because the passes have emptied the current height.                *)
IInv == /\ TypeOK
        /\ NoStaleTasks
        /\ WithinEpoch
        /\ OneRepeatingTask
        /\ ActiveContractsRebalance
        /\ DueIsExact

(* What one round of ExecScheduledTasks does to the two stores.            *)
LEMMA ExecFacts ==
  ASSUME TypeOK, NEW k \in DOMAIN due, NEW fails \in BOOLEAN, ExecTask(k, fails)
  PROVE  LET new == Key(k.type, height + EpochLength, k.contract) IN
         /\ k \in TaskKey /\ new \in TaskKey
         /\ new.type = k.type /\ new.height = height + EpochLength /\ new.contract = k.contract
         /\ Repeats(k) => /\ DOMAIN tasks' = (DOMAIN tasks \cup {new}) \ {k}
                          /\ new \in DOMAIN tasks' => tasks'[new]
                          /\ \A x \in DOMAIN tasks' : x # new => tasks'[x] = tasks[x]
         /\ ~Repeats(k) => /\ DOMAIN tasks' = DOMAIN tasks \ {k}
                           /\ \A x \in DOMAIN tasks' : tasks'[x] = tasks[x]
         /\ DOMAIN due' = DOMAIN due \ {k}
         /\ \A x \in DOMAIN due' : due'[x] = due[x]
<1> DEFINE new == Key(k.type, height + EpochLength, k.contract)
<1>1. k \in TaskKey /\ IsTaskStore(tasks) /\ IsTaskStore(due)
  BY DEF TypeOK, IsTaskStore
<1>2. height \in Nat /\ height + EpochLength \in Nat /\ CanSchedule(height, NextRun)
  BY EpochLengthAssumption DEF TypeOK, CanSchedule, NextRun
<1>3. /\ new \in TaskKey
      /\ new.type = k.type /\ new.height = height + EpochLength /\ new.contract = k.contract
  <2>1. k.type \in TaskType /\ k.contract \in Contracts
    BY <1>1 DEF TaskKey
  <2> QED
    BY <1>2, <2>1, KeyType
<1>4. /\ Repeats(k) => Rescheduled(k) = Put(tasks, new, TRUE)
      /\ ~Repeats(k) => Rescheduled(k) = tasks
  BY <1>2 DEF Rescheduled, ScheduleRepeatingTask, NextRun
<1>5. tasks' = Delete(Rescheduled(k), {k}) /\ due' = Delete(due, {k})
  BY DEF ExecTask, deleteScheduledTask
<1> HIDE DEF new
<1>6. CASE Repeats(k)
  <2>1. /\ IsTaskStore(Put(tasks, new, TRUE))
        /\ DOMAIN Put(tasks, new, TRUE) = DOMAIN tasks \cup {new}
        /\ Put(tasks, new, TRUE)[new] = TRUE
        /\ \A x \in DOMAIN tasks : x # new => Put(tasks, new, TRUE)[x] = tasks[x]
    BY <1>1, <1>3, PutFacts
  <2>a. tasks' = Delete(Put(tasks, new, TRUE), {k})
    BY <1>4, <1>5, <1>6
  <2>2. /\ DOMAIN tasks' = (DOMAIN tasks \cup {new}) \ {k}
        /\ \A x \in DOMAIN tasks' : tasks'[x] = Put(tasks, new, TRUE)[x]
    BY <2>1, <2>a DEF Delete, Restrict
  <2>3. DOMAIN due' = DOMAIN due \ {k} /\ \A x \in DOMAIN due' : due'[x] = due[x]
    BY <1>5 DEF Delete, Restrict
  <2> QED
    BY <1>1, <1>3, <1>6, <2>1, <2>2, <2>3 DEF new
<1>7. CASE ~Repeats(k)
  <2>a. tasks' = Delete(tasks, {k})
    BY <1>4, <1>5, <1>7
  <2>1. DOMAIN tasks' = DOMAIN tasks \ {k} /\ \A x \in DOMAIN tasks' : tasks'[x] = tasks[x]
    BY <2>a DEF Delete, Restrict
  <2>2. DOMAIN due' = DOMAIN due \ {k} /\ \A x \in DOMAIN due' : due'[x] = due[x]
    BY <1>5 DEF Delete, Restrict
  <2> QED
    BY <1>1, <1>3, <1>7, <2>1, <2>2 DEF new
<1> QED
  BY <1>6, <1>7

(* What a limit change does to the tasks: with no repeating task the       *)
(* contract gets one, a full epoch ahead ...                               *)
LEMMA RegularFacts ==
  ASSUME TypeOK, NEW c \in Contracts, ScheduleRegularRebalanceTask(c)
  PROVE  LET k == Key(HandleEpoch, height + EpochLength, c) IN
         /\ DOMAIN tasks' = DOMAIN tasks \cup {k}
         /\ tasks'[k]
         /\ \A x \in DOMAIN tasks : x # k => tasks'[x] = tasks[x]
         /\ k.type = HandleEpoch /\ k.height = height + EpochLength /\ k.contract = c
<1> DEFINE k == Key(HandleEpoch, height + EpochLength, c)
<1>0. height + EpochLength \in Nat
  BY EpochLengthAssumption DEF TypeOK
<1>1. k \in TaskKey /\ k.type = HandleEpoch /\ k.height = height + EpochLength /\ k.contract = c
  BY <1>0, KeyType DEF TaskType
<1> HIDE DEF k
<1>2. tasks' = Put(tasks, k, TRUE)
  BY DEF ScheduleRegularRebalanceTask, ScheduleRepeatingTask, k
<1>3. /\ DOMAIN tasks' = DOMAIN tasks \cup {k}
      /\ tasks'[k]
      /\ \A x \in DOMAIN tasks : x # k => tasks'[x] = tasks[x]
  BY <1>2 DEF Put
<1> QED
  BY <1>1, <1>3 DEF k

(* ... and otherwise a one shot for the current height, after all its      *)
(* epoch tasks were deleted when the limit is 0.                           *)
LEMMA LastFacts ==
  ASSUME TypeOK, NEW c \in Contracts, NEW amt \in Nat, ScheduleLastRebalance(c, amt)
  PROVE  LET k    == Key(HandleEpoch, height, c)
             kept == IF amt = 0 THEN DOMAIN tasks \ TasksOf(tasks, HandleEpoch, c)
                                ELSE DOMAIN tasks IN
         /\ DOMAIN tasks' = kept \cup {k}
         /\ \A x \in kept : tasks'[x] = tasks[x]
         /\ k \notin kept => ~tasks'[k]
         /\ k.type = HandleEpoch /\ k.height = height /\ k.contract = c
<1> DEFINE k == Key(HandleEpoch, height, c)
           s == IF amt = 0 THEN DeleteAllScheduledTasks(tasks, HandleEpoch, c) ELSE tasks
<1>1. IsTaskStore(tasks) /\ height \in Nat
  BY DEF TypeOK
<1>2. k.type = HandleEpoch /\ k.height = height /\ k.contract = c
  BY <1>1, KeyType DEF TaskType
<1>3. tasks' = ScheduleOneShotTask(s, HandleEpoch, c, height)
  BY DEF ScheduleLastRebalance
<1> HIDE DEF s
<1>4. tasks' = IF k \in DOMAIN s THEN s ELSE Put(s, k, FALSE)
  BY <1>3 DEF ScheduleOneShotTask
<1> HIDE DEF k
<1>5. /\ DOMAIN tasks' = DOMAIN s \cup {k}
      /\ \A x \in DOMAIN s : tasks'[x] = s[x]
      /\ k \notin DOMAIN s => ~tasks'[k]
  BY <1>4 DEF Put
<1>6. CASE amt = 0
  <2>1. s = Delete(tasks, TasksOf(tasks, HandleEpoch, c))
    BY <1>6 DEF s, DeleteAllScheduledTasks
  <2>2. /\ DOMAIN s = DOMAIN tasks \ TasksOf(tasks, HandleEpoch, c)
        /\ \A x \in DOMAIN s : s[x] = tasks[x]
    BY <1>1, <2>1, DeleteFacts
  <2> QED
    BY <1>2, <1>5, <1>6, <2>2 DEF k
<1>7. CASE amt # 0
  <2>1. s = tasks
    BY <1>7 DEF s
  <2> QED
    BY <1>2, <1>5, <1>7, <2>1 DEF k
<1> QED
  BY <1>6, <1>7

-----------------------------------------------------------------------------
(* Preservation *)

(* A fresh chain has no tasks. *)
LEMMA InitIInv == Init => IInv
<1> SUFFICES ASSUME Init PROVE IInv
  OBVIOUS
<1>1. TypeOK
  BY InitTypeOK
<1>2. tasks = EmptyStore /\ DOMAIN tasks = {} /\ phase = "deliver" /\ ActiveContracts(maxCap) = {}
  BY DEF Init, FreshChain, EmptyStore, ActiveContracts
<1> QED
  BY <1>1, <1>2 DEF IInv, NoStaleTasks, WithinEpoch, OneRepeatingTask, RepeatingTasks, TasksOf,
                    ActiveContractsRebalance, DueIsExact

(* A limit change: the only new entries are one repeating task for a       *)
(* contract that had none, or a one shot.                                  *)
LEMMA SetCapIInv ==
  ASSUME IInv, NEW c \in Contracts, NEW amt \in Caps, SetVirtualStakingMaxCap(c, amt)
  PROVE  /\ NoStaleTasks' /\ WithinEpoch' /\ OneRepeatingTask'
         /\ ActiveContractsRebalance' /\ DueIsExact'
<1> DEFINE next == Key(HandleEpoch, height + EpochLength, c)
           now  == Key(HandleEpoch, height, c)
<1>1. TypeOK /\ height' = height /\ phase = "deliver" /\ phase' = phase
  BY DEF IInv, SetVirtualStakingMaxCap
<1>2. height \in Nat /\ EpochLength \in Nat /\ amt \in Nat
  BY <1>1, EpochLengthAssumption, CapsAssumption DEF TypeOK
<1>3. DueIsExact'
  BY <1>1 DEF DueIsExact
<1>4. HandleEpoch # ValsetUpdate
  BY DEF HandleEpoch, ValsetUpdate
<1>5. /\ \A d \in ActiveContracts(maxCap') : d # c => d \in ActiveContracts(maxCap)
      /\ c \in ActiveContracts(maxCap') => amt > 0
      /\ ActiveContracts(maxCap') \subseteq Contracts
  BY <1>1 DEF SetVirtualStakingMaxCap, SetMaxCapLimit, ActiveContracts, TypeOK
<1>6. CASE ~HasScheduledTask(tasks, HandleEpoch, c, TRUE)
  <2>1. ScheduleRegularRebalanceTask(c)
    BY <1>6 DEF SetVirtualStakingMaxCap
  <2>2. /\ DOMAIN tasks' = DOMAIN tasks \cup {next}
        /\ tasks'[next]
        /\ \A x \in DOMAIN tasks : x # next => tasks'[x] = tasks[x]
        /\ next.type = HandleEpoch /\ next.height = height + EpochLength /\ next.contract = c
    BY <1>1, <2>1, RegularFacts
  <2> HIDE DEF next
  <2>3. NoStaleTasks' /\ WithinEpoch'
    BY <1>1, <1>2, <1>4, <2>2 DEF IInv, NoStaleTasks, WithinEpoch
  <2>4. RepeatingTasks(c) = {}
    BY <1>6 DEF HasScheduledTask, RepeatingTasks
  <2>5. RepeatingTasks(c)' = {next}
    BY <2>2, <2>4 DEF RepeatingTasks, TasksOf
  <2>6. \A d \in Contracts : d # c => RepeatingTasks(d)' = RepeatingTasks(d)
    BY <2>2 DEF RepeatingTasks, TasksOf
  <2>7. OneRepeatingTask'
    BY <2>5, <2>6 DEF IInv, OneRepeatingTask
  <2>8. ActiveContractsRebalance'
    BY <1>1, <1>2, <1>5, <2>2, <2>5, <2>6 DEF IInv, ActiveContractsRebalance
  <2> QED
    BY <1>3, <2>3, <2>7, <2>8
<1>7. CASE HasScheduledTask(tasks, HandleEpoch, c, TRUE)
  <2> DEFINE kept == IF amt = 0 THEN DOMAIN tasks \ TasksOf(tasks, HandleEpoch, c)
                                ELSE DOMAIN tasks
  <2>1. ScheduleLastRebalance(c, amt)
    BY <1>7 DEF SetVirtualStakingMaxCap
  <2>2. /\ DOMAIN tasks' = kept \cup {now}
        /\ \A x \in kept : tasks'[x] = tasks[x]
        /\ now \notin kept => ~tasks'[now]
        /\ now.type = HandleEpoch /\ now.height = height /\ now.contract = c
    BY <1>1, <1>2, <2>1, LastFacts
  <2> HIDE DEF now
  <2>3. kept \subseteq DOMAIN tasks /\ (amt > 0 => kept = DOMAIN tasks)
    BY <1>2
  <2>4. \A x \in DOMAIN tasks : x.contract # c => x \in kept
    BY DEF TasksOf
  <2> HIDE DEF kept
  <2>5. NoStaleTasks' /\ WithinEpoch'
    BY <1>1, <1>2, <1>4, <2>2, <2>3 DEF IInv, NoStaleTasks, WithinEpoch
  <2>6. \A d \in Contracts : RepeatingTasks(d)' \subseteq RepeatingTasks(d)
    BY <2>2, <2>3 DEF RepeatingTasks, TasksOf
  <2>7. OneRepeatingTask'
    BY <2>6 DEF IInv, OneRepeatingTask
  <2>8. \A d \in Contracts : d # c \/ amt > 0 => RepeatingTasks(d) \subseteq RepeatingTasks(d)'
    BY <2>2, <2>3, <2>4 DEF RepeatingTasks, TasksOf
  <2>9. \E k \in RepeatingTasks(c) : k.height <= height + EpochLength
    BY <1>7 DEF HasScheduledTask, RepeatingTasks, TasksOf, IInv, WithinEpoch
  <2>10. ASSUME EpochLength > 0, NEW d \in ActiveContracts(maxCap')
         PROVE  \E k \in RepeatingTasks(d)' : k.height <= height + EpochLength
    <3>1. CASE d = c
      BY <1>5, <2>8, <2>9, <2>10, <3>1
    <3>2. CASE d # c
      <4>1. \E k \in RepeatingTasks(d) : k.height <= height + EpochLength
        BY <1>5, <2>10, <3>2 DEF IInv, ActiveContractsRebalance
      <4> QED
        BY <1>5, <2>8, <3>2, <4>1
    <3> QED
      BY <3>1, <3>2
  <2>11. ActiveContractsRebalance'
    BY <1>1, <2>10 DEF ActiveContractsRebalance
  <2> QED
    BY <1>3, <2>5, <2>7, <2>11
<1> QED
  BY <1>6, <1>7

(* A valset operation: the new entries are one-shot reports.               *)
LEMMA SendAsyncIInv ==
  ASSUME IInv, NEW op \in Ops, sendAsync(op)
  PROVE  /\ NoStaleTasks' /\ WithinEpoch' /\ OneRepeatingTask'
         /\ ActiveContractsRebalance' /\ DueIsExact'
<1> DEFINE new == {Key(ValsetUpdate, height, c) : c \in ActiveContracts(maxCap)}
<1>1. TypeOK /\ height' = height /\ maxCap' = maxCap /\ phase = "deliver" /\ phase' = phase
  BY DEF IInv, sendAsync
<1>2. height \in Nat /\ EpochLength \in Nat
  BY <1>1, EpochLengthAssumption DEF TypeOK
<1>3. /\ DOMAIN tasks' = DOMAIN tasks \cup new
      /\ \A x \in DOMAIN tasks : tasks'[x] = tasks[x]
      /\ \A x \in DOMAIN tasks' \ DOMAIN tasks : ~tasks'[x]
  BY <1>1, ReportFacts DEF sendAsync
<1>4. \A x \in new : x.type = ValsetUpdate /\ x.height = height
  BY DEF Key
<1>5. HandleEpoch # ValsetUpdate
  BY DEF HandleEpoch, ValsetUpdate
<1> HIDE DEF new
<1>6. NoStaleTasks' /\ WithinEpoch'
  <2> SUFFICES ASSUME NEW k \in DOMAIN tasks'
               PROVE  /\ k.height >= height /\ k.height <= height + EpochLength
                      /\ k.type = ValsetUpdate => k.height = height /\ ~tasks'[k]
    BY <1>1 DEF NoStaleTasks, WithinEpoch
  <2>1. CASE k \in DOMAIN tasks
    BY <1>3, <2>1 DEF IInv, NoStaleTasks, WithinEpoch
  <2>2. CASE k \notin DOMAIN tasks
    BY <1>2, <1>3, <1>4, <2>2
  <2> QED
    BY <2>1, <2>2
<1>7. \A c \in Contracts : RepeatingTasks(c)' = RepeatingTasks(c)
  BY <1>3, <1>4, <1>5 DEF RepeatingTasks, TasksOf
<1>8. OneRepeatingTask' /\ ActiveContractsRebalance'
  <2>1. ActiveContracts(maxCap) \subseteq Contracts
    BY <1>1 DEF ActiveContracts, TypeOK
  <2> QED
    BY <1>1, <1>7, <2>1 DEF IInv, OneRepeatingTask, ActiveContractsRebalance
<1> QED
  BY <1>1, <1>6, <1>8 DEF DueIsExact

(* A round of either pass: the executed entry goes, a repeating one comes  *)
(* back one epoch ahead.                                                   *)
LEMMA ExecIInv ==
  ASSUME IInv, NEW k \in DOMAIN due, NEW fails \in BOOLEAN, ExecTask(k, fails),
         phase \in {"valset", "epoch"},
         UNCHANGED <<height, phase, maxCap>>
  PROVE  /\ NoStaleTasks' /\ WithinEpoch' /\ OneRepeatingTask'
         /\ ActiveContractsRebalance' /\ DueIsExact'
<1> DEFINE new == Key(k.type, height + EpochLength, k.contract)
<1>1. TypeOK /\ height \in Nat /\ EpochLength \in Nat
  BY EpochLengthAssumption DEF IInv, TypeOK
<1>2. /\ k \in TaskKey /\ new \in TaskKey
      /\ new.type = k.type /\ new.height = height + EpochLength /\ new.contract = k.contract
      /\ Repeats(k) => /\ DOMAIN tasks' = (DOMAIN tasks \cup {new}) \ {k}
                       /\ new \in DOMAIN tasks' => tasks'[new]
                       /\ \A x \in DOMAIN tasks' : x # new => tasks'[x] = tasks[x]
      /\ ~Repeats(k) => /\ DOMAIN tasks' = DOMAIN tasks \ {k}
                        /\ \A x \in DOMAIN tasks' : tasks'[x] = tasks[x]
      /\ DOMAIN due' = DOMAIN due \ {k}
      /\ \A x \in DOMAIN due' : due'[x] = due[x]
  BY <1>1, ExecFacts
<1> HIDE DEF new
<1>3. HandleEpoch # ValsetUpdate
  BY DEF HandleEpoch, ValsetUpdate
<1>4. k \in DOMAIN tasks /\ k.height = height /\ due[k] = tasks[k]
  BY <1>3 DEF IInv, DueIsExact, NoStaleTasks
<1>5. Repeats(k) => phase = "epoch" /\ k.type = HandleEpoch /\ tasks[k] /\ EpochLength > 0
  BY <1>1, <1>4 DEF IInv, DueIsExact, NoStaleTasks, Repeats
<1>6. Repeats(k) => new # k /\ new \in DOMAIN tasks' /\ tasks'[new] /\ new.height # height
  <2>1. Repeats(k) => height + EpochLength # height
    BY <1>1, <1>5
  <2> QED
    BY <1>2, <1>4, <2>1
<1>7. NoStaleTasks' /\ WithinEpoch'
  <2> SUFFICES ASSUME NEW x \in DOMAIN tasks'
               PROVE  /\ x.height >= height /\ x.height <= height + EpochLength
                      /\ x.type = ValsetUpdate => x.height = height /\ ~tasks'[x]
    BY DEF NoStaleTasks, WithinEpoch
  <2>1. CASE Repeats(k) /\ x = new
    BY <1>1, <1>2, <1>3, <1>5, <2>1
  <2>2. CASE ~(Repeats(k) /\ x = new)
    <3>1. x \in DOMAIN tasks /\ tasks'[x] = tasks[x]
      BY <1>2, <2>2
    <3> QED
      BY <3>1 DEF IInv, NoStaleTasks, WithinEpoch
  <2> QED
    BY <2>1, <2>2
<1>8. CASE Repeats(k)
  <2>1. k \in RepeatingTasks(k.contract) /\ k.contract \in Contracts
    BY <1>2, <1>4, <1>5, <1>8 DEF RepeatingTasks, TasksOf, TaskKey
  <2>2. RepeatingTasks(k.contract) = {k}
    BY <2>1 DEF IInv, OneRepeatingTask
  <2>3. RepeatingTasks(k.contract)' = {new}
    BY <1>2, <1>5, <1>6, <1>8, <2>2 DEF RepeatingTasks, TasksOf
  <2>4. \A d \in Contracts : d # k.contract => RepeatingTasks(d)' = RepeatingTasks(d)
    BY <1>2, <1>6, <1>8 DEF RepeatingTasks, TasksOf
  <2>5. OneRepeatingTask'
    BY <2>3, <2>4 DEF IInv, OneRepeatingTask
  <2>6. ActiveContracts(maxCap) \subseteq Contracts
    BY <1>1 DEF ActiveContracts, TypeOK
  <2>7. ActiveContractsRebalance'
    <3> SUFFICES ASSUME EpochLength > 0, NEW d \in ActiveContracts(maxCap)
                 PROVE  \E x \in RepeatingTasks(d)' : x.height <= height + EpochLength
      BY DEF ActiveContractsRebalance
    <3>1. CASE d = k.contract
      BY <1>1, <1>2, <2>3, <3>1
    <3>2. CASE d # k.contract
      BY <2>4, <2>6, <3>2 DEF IInv, ActiveContractsRebalance
    <3> QED
      BY <3>1, <3>2
  <2>8. DueIsExact'
    <3>1. phase = "epoch" /\ phase' = "epoch"
      BY <1>5, <1>8
    <3>2. DOMAIN due' = {x \in DOMAIN tasks' : x.type = HandleEpoch /\ x.height = height}
      BY <1>2, <1>6, <1>8, <3>1 DEF IInv, DueIsExact
    <3>3. \A x \in DOMAIN tasks' : x.type = HandleEpoch
      BY <1>2, <1>5, <1>8, <3>1 DEF IInv, DueIsExact
    <3>4. \A x \in DOMAIN due' : due'[x] = tasks'[x]
      BY <1>2, <1>6, <1>8, <3>1, <3>2 DEF IInv, DueIsExact
    <3> QED
      BY <3>1, <3>2, <3>3, <3>4 DEF DueIsExact
  <2> QED
    BY <1>7, <2>5, <2>7, <2>8
<1>9. CASE ~Repeats(k)
  <2>1. DOMAIN tasks' = DOMAIN tasks \ {k} /\ \A x \in DOMAIN tasks' : tasks'[x] = tasks[x]
    BY <1>2, <1>9
  <2>2. \A d \in Contracts : RepeatingTasks(d)' \subseteq RepeatingTasks(d)
    BY <2>1 DEF RepeatingTasks, TasksOf
  <2>3. EpochLength > 0 => ~tasks[k]
    BY <1>1, <1>4, <1>9 DEF Repeats
  <2>4. EpochLength > 0 => \A d \in Contracts : RepeatingTasks(d) \subseteq RepeatingTasks(d)'
    BY <2>1, <2>3 DEF RepeatingTasks, TasksOf
  <2>5. ActiveContracts(maxCap) \subseteq Contracts
    BY <1>1 DEF ActiveContracts, TypeOK
  <2>6. OneRepeatingTask' /\ ActiveContractsRebalance'
    BY <2>2, <2>4, <2>5 DEF IInv, OneRepeatingTask, ActiveContractsRebalance
  <2>7. DueIsExact'
    BY <1>2, <2>1 DEF IInv, DueIsExact
  <2> QED
    BY <1>7, <2>6, <2>7
<1> QED
  BY <1>8, <1>9

(* Every step keeps the invariant. *)
LEMMA NextIInv == IInv /\ [Next]_vars => IInv'
<1> SUFFICES ASSUME IInv, [Next]_vars PROVE IInv'
  OBVIOUS
<1> DEFINE Rest == /\ NoStaleTasks /\ WithinEpoch /\ OneRepeatingTask
                   /\ ActiveContractsRebalance /\ DueIsExact
<1>1. TypeOK' /\ TypeOK
  BY NextTypeOK DEF IInv
<1>2. height \in Nat /\ EpochLength \in Nat
  BY <1>1, EpochLengthAssumption DEF TypeOK
<1>3. IsTaskStore(tasks)
  BY <1>1 DEF TypeOK
<1>4. ASSUME UNCHANGED <<height, maxCap, tasks>>
      PROVE  NoStaleTasks' /\ WithinEpoch' /\ OneRepeatingTask' /\ ActiveContractsRebalance'
  BY <1>4 DEF IInv, NoStaleTasks, WithinEpoch, OneRepeatingTask, ActiveContractsRebalance,
              RepeatingTasks, TasksOf, ActiveContracts
<1>5. ASSUME NEW c \in Contracts, Instantiate(c) PROVE Rest'
  BY <1>4, <1>5 DEF Instantiate, IInv, DueIsExact
<1>6. ASSUME NEW c \in Contracts, NEW amt \in Caps, SetVirtualStakingMaxCap(c, amt) PROVE Rest'
  BY <1>6, SetCapIInv
<1>7. ASSUME NEW op \in Ops, sendAsync(op) PROVE Rest'
  BY <1>7, SendAsyncIInv
<1>8. ASSUME BeginEndBlock PROVE Rest'
  <2>1. NoStaleTasks' /\ WithinEpoch' /\ OneRepeatingTask' /\ ActiveContractsRebalance'
    BY <1>4, <1>8 DEF BeginEndBlock, store
  <2>2. /\ DOMAIN due' = {k \in DOMAIN tasks : k.type = ValsetUpdate /\ k.height <= height}
        /\ \A k \in DOMAIN due' : due'[k] = tasks[k]
    BY <1>8 DEF BeginEndBlock, DueTasks, Restrict
  <2>3. \A k \in DOMAIN tasks : k.type = ValsetUpdate => k.height <= height
    BY <1>2 DEF IInv, NoStaleTasks
  <2>4. DueIsExact'
    BY <1>8, <2>2, <2>3 DEF BeginEndBlock, store, DueIsExact
  <2> QED
    BY <2>1, <2>4
<1>9. ASSUME NEW k \in DOMAIN due, NEW built \in BOOLEAN, NEW fails \in BOOLEAN,
             SendValsetUpdate(k, built, fails)
      PROVE  Rest'
  BY <1>9, ExecIInv DEF SendValsetUpdate
<1>10. ASSUME ClearPipedValsetOperations PROVE Rest'
  <2>1. NoStaleTasks' /\ WithinEpoch' /\ OneRepeatingTask' /\ ActiveContractsRebalance'
    BY <1>4, <1>10 DEF ClearPipedValsetOperations
  <2>2. /\ DOMAIN due' = {k \in DOMAIN tasks : k.type = HandleEpoch /\ k.height <= height}
        /\ \A k \in DOMAIN due' : due'[k] = tasks[k]
    BY <1>10 DEF ClearPipedValsetOperations, DueTasks, Restrict
  <2>3. \A k \in DOMAIN tasks : k.height <= height <=> k.height = height
    BY <1>2, <1>3 DEF IInv, NoStaleTasks, IsTaskStore, TaskKey
  <2>4. \A k \in DOMAIN tasks : k.type = HandleEpoch
    <3>1. phase = "valset" /\ DOMAIN due = {}
      BY <1>10 DEF ClearPipedValsetOperations, PassDone, EmptyStore
    <3>2. \A k \in DOMAIN tasks : k.type # ValsetUpdate
      BY <3>1 DEF IInv, DueIsExact
    <3> QED
      BY <1>3, <3>2 DEF IsTaskStore, TaskKey, TaskType
  <2>5. DueIsExact'
    BY <1>10, <2>2, <2>3, <2>4 DEF ClearPipedValsetOperations, DueIsExact
  <2> QED
    BY <2>1, <2>5
<1>11. ASSUME NEW k \in DOMAIN due, NEW fails \in BOOLEAN, SendHandleEpoch(k, fails) PROVE Rest'
  BY <1>11, ExecIInv DEF SendHandleEpoch
<1>12. ASSUME Commit PROVE Rest'
  <2>1. phase = "epoch" /\ DOMAIN due = {} /\ phase' = "deliver" /\ height' = height + 1
    BY <1>12 DEF Commit, PassDone, EmptyStore
  <2>2. \A k \in DOMAIN tasks : k.height \in Nat /\ k.type = HandleEpoch /\ k.height # height
    BY <1>3, <2>1 DEF IInv, DueIsExact, IsTaskStore, TaskKey
  <2>3. maxCap' = maxCap /\ tasks' = tasks /\ due' = due
    BY <1>12 DEF Commit, store
  <2>4. HandleEpoch # ValsetUpdate
    BY DEF HandleEpoch, ValsetUpdate
  <2>5. NoStaleTasks' /\ WithinEpoch'
    BY <1>2, <2>1, <2>2, <2>3, <2>4 DEF IInv, NoStaleTasks, WithinEpoch
  <2>6. \A c \in Contracts : RepeatingTasks(c)' = RepeatingTasks(c)
    BY <2>3 DEF RepeatingTasks, TasksOf
  <2>7. OneRepeatingTask'
    BY <2>6 DEF IInv, OneRepeatingTask
  <2>8. ActiveContracts(maxCap) \subseteq Contracts
    BY <1>1 DEF ActiveContracts, TypeOK
  <2>9. \A c \in Contracts : \A k \in RepeatingTasks(c) : k.height \in Nat
    BY <2>2 DEF RepeatingTasks, TasksOf
  <2>10. ActiveContractsRebalance'
    <3> SUFFICES ASSUME EpochLength > 0, NEW c \in ActiveContracts(maxCap)
                 PROVE  \E k \in RepeatingTasks(c)' : k.height <= height' + EpochLength
      BY <2>3 DEF ActiveContractsRebalance
    <3>1. PICK k \in RepeatingTasks(c) : k.height <= height + EpochLength
      BY DEF IInv, ActiveContractsRebalance
    <3> QED
      BY <1>2, <2>1, <2>6, <2>8, <2>9, <3>1
  <2> QED
    BY <2>1, <2>5, <2>7, <2>10 DEF DueIsExact
<1>13. ASSUME Halt PROVE Rest'
  BY <1>4, <1>13 DEF Halt, PassDone, store, DueIsExact
<1>14. ASSUME UNCHANGED vars PROVE Rest'
  BY <1>4, <1>14 DEF vars, store, IInv, DueIsExact
<1>15. Rest'
  BY <1>5, <1>6, <1>7, <1>8, <1>9, <1>10, <1>11, <1>12, <1>13, <1>14
  DEF Next, Deliver, EndBlocker
<1> QED
  BY <1>1, <1>15 DEF IInv

(* The invariant of the scheduler. *)
LEMMA Invariance == Spec => []IInv
BY InitIInv, NextIInv, PTL DEF Spec

(* No task is ever left behind for a past block, however callbacks fail.   *)
THEOREM TasksAreNeverStale == Spec => []NoStaleTasks
<1>1. IInv => NoStaleTasks
  BY DEF IInv
<1> QED
  BY <1>1, Invariance, PTL

(* At most one repeating rebalance task per contract, whatever sequence of *)
(* limits governance sets.                                                 *)
THEOREM RepeatingTaskIsUnique == Spec => []OneRepeatingTask
<1>1. IInv => OneRepeatingTask
  BY DEF IInv
<1> QED
  BY <1>1, Invariance, PTL

(* A contract with a limit above zero always has its repeating rebalance   *)
(* task, due within one epoch, even when its callbacks fail.               *)
THEOREM ActiveContractsStayScheduled == Spec => []ActiveContractsRebalance
<1>1. IInv => ActiveContractsRebalance
  BY DEF IInv
<1> QED
  BY <1>1, Invariance, PTL


-----------------------------------------------------------------------------
(* What a block owes the contracts - reports and rebalances - is settled   *)
(* before its commit, whatever callbacks do.  The argument follows the     *)
(* history variables of Scheduler through the phases of one block, on top  *)
(* of the invariant above.                                                 *)

(* The response handler is going to see that c's callback failed.          *)
Failed(c) == \E r \in results : r.contract = c /\ r.execErr

(* A debt is the entry that will settle it: an operation owed to c is      *)
(* piped and c's report is scheduled, until it was sent or its callback    *)
(* failed.                                                                 *)
ReportsOwed ==
  /\ phase \in {"deliver", "valset"} =>
       \A c \in Contracts :
         /\ owed[c] \subseteq piped
         /\ \/ owed[c] \subseteq reported[c]
            \/ Key(ValsetUpdate, height, c) \in DOMAIN tasks
            \/ phase = "valset" /\ Failed(c)
  /\ phase = "epoch" =>
       piped = {} /\ (panicOnError => \A c \in Contracts : owed[c] \subseteq reported[c])

(* Nothing older than the block is piped.                                  *)
PipedIsFresh == piped \subseteq recorded /\ \A c \in Contracts : reported[c] \subseteq recorded

(* A contract is called for one entry of the second pass only ...          *)
ServedOnce ==
  /\ phase \in {"deliver", "valset"} => \A c \in Contracts : served[c] = 0
  /\ phase = "epoch" => \A k \in DOMAIN due : served[k.contract] = 0
  /\ \A c \in Contracts : served[c] <= 1

(* ... and a lowered limit has such an entry until it was called.          *)
LoweredScheduled ==
  /\ phase \in {"deliver", "valset"} =>
       \A c \in lowered : Key(HandleEpoch, height, c) \in DOMAIN tasks
  /\ phase = "epoch" =>
       \A c \in lowered : served[c] = 1 \/ Key(HandleEpoch, height, c) \in DOMAIN due

(* No re-scheduling ever fails, so the default handler never panics.       *)
NeverHalts ==
  /\ \A r \in results : ~r.rescheduleErr
  /\ ~panicOnError => phase # "halted"

BlockInv == ReportsOwed /\ PipedIsFresh /\ ServedOnce /\ LoweredScheduled /\ NeverHalts


-----------------------------------------------------------------------------
(* What the steps do to the entries the debts are recorded in              *)

(* A limit change deletes epoch entries of its own contract only.          *)
LEMMA SetCapKeeps ==
  ASSUME IInv, NEW c \in Contracts, NEW amt \in Caps, SetVirtualStakingMaxCap(c, amt)
  PROVE  /\ \A x \in DOMAIN tasks : x.type # HandleEpoch \/ x.contract # c => x \in DOMAIN tasks'
         /\ c \in lowered' => Key(HandleEpoch, height, c) \in DOMAIN tasks'
                              \/ (c \in lowered /\ DOMAIN tasks \subseteq DOMAIN tasks')
<1> DEFINE next == Key(HandleEpoch, height + EpochLength, c)
           now  == Key(HandleEpoch, height, c)
<1>1. TypeOK /\ height \in Nat /\ EpochLength \in Nat /\ amt \in Nat
  BY EpochLengthAssumption, CapsAssumption DEF IInv, TypeOK
<1>2. CASE ~HasScheduledTask(tasks, HandleEpoch, c, TRUE)
  <2>1. ScheduleRegularRebalanceTask(c)
    BY <1>2 DEF SetVirtualStakingMaxCap
  <2>2. DOMAIN tasks' = DOMAIN tasks \cup {next}
    BY <1>1, <2>1, RegularFacts
  <2>3. RepeatingTasks(c) = {}
    BY <1>2 DEF HasScheduledTask, RepeatingTasks
  <2>4. ASSUME c \in lowered', c \notin lowered PROVE EpochLength = 0
    <3>1. c \in DOMAIN maxCap /\ amt < maxCap[c] /\ maxCap[c] \in Nat
      BY <1>1, <2>4 DEF SetVirtualStakingMaxCap, GetMaxCapLimit, HasMaxCapLimit, TypeOK
    <3>2. c \in ActiveContracts(maxCap)
      BY <1>1, <3>1 DEF ActiveContracts
    <3> QED
      BY <1>1, <2>3, <3>2 DEF IInv, ActiveContractsRebalance
  <2>5. EpochLength = 0 => next = now
    BY <1>1
  <2> QED
    BY <2>2, <2>4, <2>5
<1>3. CASE HasScheduledTask(tasks, HandleEpoch, c, TRUE)
  <2> DEFINE kept == IF amt = 0 THEN DOMAIN tasks \ TasksOf(tasks, HandleEpoch, c)
                                ELSE DOMAIN tasks
  <2>1. ScheduleLastRebalance(c, amt)
    BY <1>3 DEF SetVirtualStakingMaxCap
  <2>2. DOMAIN tasks' = kept \cup {now}
    BY <1>1, <2>1, LastFacts
  <2> QED
    BY <2>2 DEF TasksOf
<1> QED
  BY <1>2, <1>3

(* A round of a pass deletes no entry but its own.                         *)
LEMMA ExecKeeps ==
  ASSUME IInv, NEW k \in DOMAIN due, NEW fails \in BOOLEAN, ExecTask(k, fails)
  PROVE  /\ k \in TaskKey
         /\ DOMAIN tasks \ {k} \subseteq DOMAIN tasks'
         /\ DOMAIN due' = DOMAIN due \ {k}
         /\ \A r \in results' \ results : ~r.rescheduleErr
<1> DEFINE new == Key(k.type, height + EpochLength, k.contract)
<1>1. TypeOK
  BY DEF IInv
<1>2. /\ k \in TaskKey
      /\ Repeats(k) => DOMAIN tasks' = (DOMAIN tasks \cup {new}) \ {k}
      /\ ~Repeats(k) => DOMAIN tasks' = DOMAIN tasks \ {k}
      /\ DOMAIN due' = DOMAIN due \ {k}
  BY ONLY <1>1, k \in DOMAIN due, fails \in BOOLEAN, ExecTask(k, fails), ExecFacts, SMTT(30)
<1>3. CanSchedule(height, NextRun)
  BY <1>1, EpochLengthAssumption DEF TypeOK, CanSchedule, NextRun
<1>4. \A r \in results' \ results : ~r.rescheduleErr
  <2> DEFINE err == Repeats(k) /\ ~CanSchedule(height, NextRun)
  <2>1. err = FALSE
    BY <1>3
  <2>2. results' = results \cup {[contract |-> k.contract, execErr |-> fails, rescheduleErr |-> err]}
    BY DEF ExecTask
  <2> HIDE DEF err
  <2> QED
    BY <2>1, <2>2
<1> QED
  BY <1>2, <1>4

(* While a pass runs, its entries are for the current height, one for each *)
(* contract.                                                               *)
LEMMA DueKeys ==
  ASSUME IInv, NEW k \in DOMAIN due
  PROVE  /\ phase = "valset" => k = Key(ValsetUpdate, height, k.contract)
         /\ phase = "epoch" => k = Key(HandleEpoch, height, k.contract)
<1>1. k \in TaskKey
  BY DEF IInv, TypeOK, IsTaskStore
<1>2. phase = "valset" => k.type = ValsetUpdate /\ k.height = height
  BY DEF IInv, DueIsExact, NoStaleTasks
<1>3. phase = "epoch" => k.type = HandleEpoch /\ k.height = height
  BY DEF IInv, DueIsExact
<1> QED
  BY <1>1, <1>2, <1>3 DEF TaskKey, Key

-----------------------------------------------------------------------------
(* Preservation, one lemma for each phase *)

(* A fresh chain owes nothing. *)
LEMMA InitBlockInv == Init => BlockInv
BY DEF Init, FreshChain, BlockInv, ReportsOwed, PipedIsFresh, ServedOnce, LoweredScheduled, NeverHalts

(* Messages, operations and the start of EndBlock.                         *)
LEMMA DeliverBlockInv ==
  ASSUME IInv, BlockInv, Deliver \/ BeginEndBlock
  PROVE  BlockInv'
<1>1. phase = "deliver" /\ phase' \in {"deliver", "valset"} /\ height' = height
  BY DEF Deliver, BeginEndBlock, Instantiate, SetVirtualStakingMaxCap, sendAsync
<1>2. results' = results /\ served' = served /\ reported' = reported
  BY DEF Deliver, BeginEndBlock, Instantiate, SetVirtualStakingMaxCap, sendAsync, history
<1>3. NeverHalts' /\ ServedOnce'
  BY <1>1, <1>2 DEF BlockInv, NeverHalts, ServedOnce
<1>4. ASSUME NEW c \in Contracts, NEW amt \in Caps, SetVirtualStakingMaxCap(c, amt)
      PROVE  ReportsOwed' /\ PipedIsFresh' /\ LoweredScheduled'
  <2>1. UNCHANGED <<piped, owed, reported, recorded>>
    BY <1>4 DEF SetVirtualStakingMaxCap
  <2>2. \A x \in DOMAIN tasks : x.type # HandleEpoch \/ x.contract # c => x \in DOMAIN tasks'
    BY <1>4, SetCapKeeps
  <2>3. c \in lowered' => Key(HandleEpoch, height, c) \in DOMAIN tasks'
                          \/ (c \in lowered /\ DOMAIN tasks \subseteq DOMAIN tasks')
    BY <1>4, SetCapKeeps
  <2>4. \A d \in Contracts : Key(ValsetUpdate, height, d) \in DOMAIN tasks
                               => Key(ValsetUpdate, height, d) \in DOMAIN tasks'
    BY <2>2 DEF Key, HandleEpoch, ValsetUpdate
  <2>5. \A d \in Contracts : d # c /\ Key(HandleEpoch, height, d) \in DOMAIN tasks
                               => Key(HandleEpoch, height, d) \in DOMAIN tasks'
    BY <2>2 DEF Key
  <2>6. lowered' \subseteq lowered \cup {c} /\ lowered \subseteq Contracts
    BY <1>4 DEF SetVirtualStakingMaxCap, IInv, TypeOK
  <2>7. ReportsOwed' /\ PipedIsFresh'
    BY <1>1, <2>1, <2>4 DEF BlockInv, ReportsOwed, PipedIsFresh
  <2>8. \A d \in lowered' : Key(HandleEpoch, height, d) \in DOMAIN tasks'
    BY <1>1, <2>3, <2>5, <2>6 DEF BlockInv, LoweredScheduled
  <2> QED
    BY <1>1, <2>7, <2>8 DEF LoweredScheduled
<1>5. ASSUME NEW op \in Ops, sendAsync(op)
      PROVE  ReportsOwed' /\ PipedIsFresh' /\ LoweredScheduled'
  <2> DEFINE all == {Key(ValsetUpdate, height, c) : c \in ActiveContracts(maxCap)}
  <2>0. TypeOK
    BY DEF IInv
  <2>1. DOMAIN tasks' = DOMAIN tasks \cup all
    BY <1>5, <2>0, ReportFacts DEF sendAsync
  <2>2. \A c \in ActiveContracts(maxCap) : Key(ValsetUpdate, height, c) \in DOMAIN tasks'
    BY <2>1
  <2> HIDE DEF all
  <2>3. piped' = piped \cup {op} /\ recorded' = recorded \cup {op} /\ lowered' = lowered
    BY <1>5 DEF sendAsync
  <2>4. \A c \in Contracts :
          owed'[c] = IF c \in ActiveContracts(maxCap) THEN owed[c] \cup {op} ELSE owed[c]
    BY <1>5 DEF sendAsync
  <2>5. \A c \in Contracts :
          /\ owed'[c] \subseteq piped'
          /\ owed'[c] \subseteq reported[c] \/ Key(ValsetUpdate, height, c) \in DOMAIN tasks'
    BY <1>1, <2>1, <2>2, <2>3, <2>4 DEF BlockInv, ReportsOwed
  <2>6. ReportsOwed'
    BY <1>1, <1>2, <2>5 DEF ReportsOwed
  <2>7. PipedIsFresh' /\ LoweredScheduled'
    BY <1>1, <1>2, <2>1, <2>3 DEF BlockInv, PipedIsFresh, LoweredScheduled
  <2> QED
    BY <2>6, <2>7
<1>6. ASSUME (\E c \in Contracts : Instantiate(c)) \/ BeginEndBlock
      PROVE  ReportsOwed' /\ PipedIsFresh' /\ LoweredScheduled'
  <2>1. UNCHANGED <<tasks, piped, history>>
    BY <1>6 DEF Instantiate, BeginEndBlock, store
  <2> QED
    BY <1>1, <2>1 DEF history, BlockInv, ReportsOwed, PipedIsFresh, LoweredScheduled
<1> QED
  BY <1>3, <1>4, <1>5, <1>6 DEF Deliver, BlockInv

(* The first pass, and the clearing of the memory store.                   *)
LEMMA ValsetBlockInv ==
  ASSUME IInv, BlockInv, NEW k \in DOMAIN due, NEW built \in BOOLEAN, NEW fails \in BOOLEAN,
             SendValsetUpdate(k, built, fails)
  PROVE  BlockInv'
<1>1. /\ phase = "valset" /\ phase' = "valset" /\ height' = height
      /\ ~built => fails
      /\ reported' = IF built THEN [reported EXCEPT ![k.contract] = @ \cup piped] ELSE reported
      /\ UNCHANGED <<piped, recorded, owed, lowered, served>>
  BY DEF SendValsetUpdate
<1>2. /\ k \in TaskKey
      /\ DOMAIN tasks \ {k} \subseteq DOMAIN tasks'
      /\ \A r \in results' \ results : ~r.rescheduleErr
  BY ExecKeeps DEF SendValsetUpdate
<1>3. k.contract \in Contracts /\ k = Key(ValsetUpdate, height, k.contract)
  BY <1>1, <1>2, DueKeys DEF TaskKey
<1>4. /\ reported'[k.contract] = IF built THEN reported[k.contract] \cup piped
                                           ELSE reported[k.contract]
      /\ \A c \in Contracts : c # k.contract => reported'[c] = reported[c]
  BY <1>1, <1>3 DEF IInv, TypeOK
<1>5. (fails => Failed(k.contract)') /\ \A c \in Contracts : Failed(c) => Failed(c)'
  <2> DEFINE err == Repeats(k) /\ ~CanSchedule(height, NextRun)
             new == [contract |-> k.contract, execErr |-> fails, rescheduleErr |-> err]
  <2>1. results' = results \cup {new}
    BY DEF SendValsetUpdate, ExecTask
  <2>2. new.contract = k.contract /\ new.execErr = fails
    OBVIOUS
  <2> HIDE DEF new
  <2> QED
    BY <2>1, <2>2 DEF Failed
<1>6. ReportsOwed'
  <2> SUFFICES ASSUME NEW c \in Contracts
               PROVE  \/ owed[c] \subseteq reported'[c]
                      \/ Key(ValsetUpdate, height, c) \in DOMAIN tasks'
                      \/ Failed(c)'
    BY <1>1 DEF BlockInv, ReportsOwed
  <2>1. CASE c = k.contract
    BY <1>1, <1>4, <1>5, <2>1 DEF BlockInv, ReportsOwed
  <2>2. CASE c # k.contract
    <3>1. Key(ValsetUpdate, height, c) # k
      BY <2>2 DEF Key
    <3> QED
      BY <1>1, <1>2, <1>4, <1>5, <2>2, <3>1 DEF BlockInv, ReportsOwed
  <2> QED
    BY <2>1, <2>2
<1>7. PipedIsFresh'
  <2>1. \A c \in Contracts : reported'[c] \subseteq recorded
    BY <1>4 DEF BlockInv, PipedIsFresh
  <2> QED
    BY <1>1, <2>1 DEF BlockInv, PipedIsFresh
<1>8. LoweredScheduled'
  <2>1. \A c \in lowered : Key(HandleEpoch, height, c) # k
    BY <1>3 DEF Key, HandleEpoch, ValsetUpdate
  <2> QED
    BY <1>1, <1>2, <2>1 DEF BlockInv, LoweredScheduled
<1>9. ServedOnce' /\ NeverHalts'
  BY <1>1, <1>2 DEF BlockInv, ServedOnce, NeverHalts
<1> QED
  BY <1>6, <1>7, <1>8, <1>9 DEF BlockInv

(* The piped operations are cleared when the response handler accepted the *)
(* results of every report.                                                *)
LEMMA ClearBlockInv ==
  ASSUME IInv, BlockInv, ClearPipedValsetOperations
  PROVE  BlockInv'
<1>1. /\ phase = "valset" /\ DOMAIN due = {} /\ phase' = "epoch" /\ piped' = {}
      /\ results' = {} /\ UNCHANGED <<height, tasks, recorded, owed, reported, lowered, served>>
  BY DEF ClearPipedValsetOperations, PassDone, EmptyStore, history
<1>2. \A c \in Contracts : Key(ValsetUpdate, height, c) \notin DOMAIN tasks
  <2>1. \A x \in DOMAIN tasks : x.type # ValsetUpdate
    BY <1>1 DEF IInv, DueIsExact
  <2> QED
    BY <2>1 DEF Key
<1>3. ReportsOwed'
  <2>1. panicOnError => \A r \in results : ~r.execErr
    BY DEF ClearPipedValsetOperations, ResponsesAccepted, HandlerPanics
  <2>2. UNCHANGED panicOnError
    BY DEF ClearPipedValsetOperations
  <2> QED
    BY <1>1, <1>2, <2>1, <2>2 DEF BlockInv, ReportsOwed, Failed
<1>4. DOMAIN due' = {x \in DOMAIN tasks : x.type = HandleEpoch /\ x.height <= height}
  BY DEF ClearPipedValsetOperations, DueTasks, Restrict
<1>5. LoweredScheduled'
  <2>1. \A c \in lowered : Key(HandleEpoch, height, c) \in DOMAIN tasks
    BY <1>1 DEF BlockInv, LoweredScheduled
  <2>2. height \in Nat
    BY DEF IInv, TypeOK
  <2>3. \A c \in lowered : Key(HandleEpoch, height, c) \in DOMAIN due'
    BY <1>4, <2>1, <2>2 DEF Key
  <2> QED
    BY <1>1, <2>3 DEF LoweredScheduled
<1>6. ServedOnce'
  <2>1. DOMAIN due' \subseteq DOMAIN tasks /\ \A x \in DOMAIN tasks : x.contract \in Contracts
    BY <1>4 DEF IInv, TypeOK, IsTaskStore, TaskKey
  <2> QED
    BY <1>1, <2>1 DEF BlockInv, ServedOnce
<1>7. PipedIsFresh' /\ NeverHalts'
  BY <1>1 DEF BlockInv, PipedIsFresh, NeverHalts
<1> QED
  BY <1>3, <1>5, <1>6, <1>7 DEF BlockInv

(* The second pass.                                                        *)
LEMMA EpochBlockInv ==
  ASSUME IInv, BlockInv, NEW k \in DOMAIN due, NEW fails \in BOOLEAN, SendHandleEpoch(k, fails)
  PROVE  BlockInv'
<1>1. /\ phase = "epoch" /\ phase' = "epoch" /\ height' = height
      /\ served' = [served EXCEPT ![k.contract] = @ + 1]
      /\ UNCHANGED <<panicOnError, piped, recorded, owed, reported, lowered>>
  BY DEF SendHandleEpoch
<1>2. /\ k \in TaskKey
      /\ DOMAIN due' = DOMAIN due \ {k}
      /\ \A r \in results' \ results : ~r.rescheduleErr
  BY ExecKeeps DEF SendHandleEpoch
<1>3. k.contract \in Contracts
  BY <1>2 DEF TaskKey
<1>4. \A x \in DOMAIN due : x = Key(HandleEpoch, height, x.contract)
  BY <1>1, DueKeys
<1>5. /\ served'[k.contract] = 1
      /\ \A c \in Contracts : c # k.contract => served'[c] = served[c]
  <2>1. served[k.contract] = 0
    BY <1>1 DEF BlockInv, ServedOnce
  <2> QED
    BY <1>1, <1>3, <2>1 DEF IInv, TypeOK
<1>6. ServedOnce'
  <2>1. \A c \in Contracts : served'[c] <= 1
    BY <1>5 DEF BlockInv, ServedOnce
  <2>2. ASSUME NEW x \in DOMAIN due' PROVE served'[x.contract] = 0
    <3>1. x \in DOMAIN due /\ x.contract # k.contract
      BY <1>2, <1>4, <2>2
    <3>2. x.contract \in Contracts
      BY <3>1 DEF IInv, TypeOK, IsTaskStore, TaskKey
    <3> QED
      BY <1>1, <1>5, <3>1, <3>2 DEF BlockInv, ServedOnce
  <2> QED
    BY <1>1, <2>1, <2>2 DEF ServedOnce
<1>7. LoweredScheduled'
  <2>1. lowered \subseteq Contracts
    BY DEF IInv, TypeOK
  <2>2. ASSUME NEW c \in lowered
        PROVE  served'[c] = 1 \/ Key(HandleEpoch, height, c) \in DOMAIN due'
    <3>1. CASE c = k.contract
      BY <1>5, <3>1
    <3>2. CASE c # k.contract
      <4>1. Key(HandleEpoch, height, c) # k
        BY <3>2 DEF Key
      <4> QED
        BY <1>1, <1>2, <1>5, <2>1, <3>2, <4>1 DEF BlockInv, LoweredScheduled
    <3> QED
      BY <3>1, <3>2
  <2> QED
    BY <1>1, <2>2 DEF LoweredScheduled
<1>8. ReportsOwed' /\ PipedIsFresh' /\ NeverHalts'
  BY <1>1, <1>2 DEF BlockInv, ReportsOwed, PipedIsFresh, NeverHalts
<1> QED
  BY <1>6, <1>7, <1>8 DEF BlockInv

(* Every step of a block keeps what it owes. *)
LEMMA NextBlockInv == IInv /\ BlockInv /\ [Next]_vars => BlockInv'
<1> SUFFICES ASSUME IInv, BlockInv, [Next]_vars PROVE BlockInv'
  OBVIOUS
<1>1. ASSUME Commit PROVE BlockInv'
  <2>1. phase = "epoch" /\ phase' = "deliver" /\ results' = {} /\ piped' = piped
    BY <1>1 DEF Commit, PassDone, store
  <2>2. piped' = {}
    BY <2>1 DEF BlockInv, ReportsOwed
  <2>3. /\ recorded' = {} /\ lowered' = {}
        /\ \A c \in Contracts : owed'[c] = {} /\ reported'[c] = {} /\ served'[c] = 0
    BY <1>1 DEF Commit, NewBlockHistory
  <2> QED
    BY <2>1, <2>2, <2>3
    DEF BlockInv, ReportsOwed, PipedIsFresh, ServedOnce, LoweredScheduled, NeverHalts
<1>2. ASSUME Halt PROVE BlockInv'
  <2>1. phase' = "halted" /\ UNCHANGED <<panicOnError, results, piped, recorded, reported, served>>
    BY <1>2 DEF Halt, store, history
  <2>2. \E r \in results : HandlerPanics(r)
    BY <1>2 DEF Halt, ResponsesAccepted
  <2>3. panicOnError
    BY <2>2 DEF BlockInv, NeverHalts, HandlerPanics
  <2> QED
    BY <2>1, <2>3
    DEF BlockInv, ReportsOwed, PipedIsFresh, ServedOnce, LoweredScheduled, NeverHalts
<1>3. ASSUME UNCHANGED vars PROVE BlockInv'
  BY <1>3 DEF vars, store, history, BlockInv, ReportsOwed, PipedIsFresh, ServedOnce,
              LoweredScheduled, NeverHalts, Failed
<1> QED
  BY <1>1, <1>2, <1>3, DeliverBlockInv, ValsetBlockInv, ClearBlockInv, EpochBlockInv
  DEF Next, EndBlocker

(* The invariant of a block. *)
LEMMA BlockInvariance == Spec => [](IInv /\ BlockInv)
<1>1. Init => IInv /\ BlockInv
  BY InitIInv, InitBlockInv
<1>2. (IInv /\ BlockInv) /\ [Next]_vars => (IInv /\ BlockInv)'
  BY NextIInv, NextBlockInv
<1> QED
  BY <1>1, <1>2, PTL DEF Spec

-----------------------------------------------------------------------------
(* The theorems *)

(* An operation stored while a contract had a limit is sent to it before   *)
(* the commit, whatever limits governance sets in between, unless the      *)
(* callback failed and the response handler is shown that error.           *)
THEOREM NoReportIsLostSilently == Spec => []MissedReportsAreErrors
<1>1. ASSUME IInv, BlockInv, PassDone("valset"), NEW c \in Contracts
      PROVE  owed[c] \subseteq reported[c] \/ Failed(c)
  <2>1. phase = "valset" /\ DOMAIN due = {}
    BY <1>1 DEF PassDone, EmptyStore
  <2>2. \A x \in DOMAIN tasks : x.type # ValsetUpdate
    BY <1>1, <2>1 DEF IInv, DueIsExact
  <2>3. Key(ValsetUpdate, height, c) \notin DOMAIN tasks
    BY <2>2 DEF Key
  <2> QED
    BY <1>1, <2>1, <2>3 DEF BlockInv, ReportsOwed
<1>2. BlockInv /\ panicOnError /\ phase = "epoch" =>
        \A c \in Contracts : owed[c] \subseteq reported[c]
  BY DEF BlockInv, ReportsOwed
<1>3. IInv /\ BlockInv => MissedReportsAreErrors
  BY <1>1, <1>2 DEF MissedReportsAreErrors, Failed
<1> QED
  BY <1>3, Invariance, BlockInvariance, PTL

(* No operation is reported again in a later block.                        *)
THEOREM NoReportIsRepeated == Spec => []ReportsAreFresh
<1>1. BlockInv => ReportsAreFresh
  BY DEF BlockInv, PipedIsFresh, ReportsAreFresh
<1> QED
  BY <1>1, BlockInvariance, PTL

(* handle_epoch is called at most once on a contract in a block.           *)
THEOREM OneCallPerBlock == Spec => []ServedOncePerBlock
<1>1. BlockInv => ServedOncePerBlock
  BY DEF BlockInv, ServedOnce, ServedOncePerBlock
<1> QED
  BY <1>1, BlockInvariance, PTL

(* A lowered limit reaches the contract in the block that lowered it.      *)
THEOREM LoweredLimitReachesContract == Spec => LoweredLimitIsServed
<1> DEFINE P == height' # height => \A c \in lowered : served[c] = 1
<1>1. IInv /\ BlockInv /\ [Next]_vars => [P]_vars
  <2> SUFFICES ASSUME IInv, BlockInv, [Next]_vars, height' # height, NEW c \in lowered
               PROVE  served[c] = 1
    OBVIOUS
  <2>1. Commit
    BY DEF Next, Deliver, EndBlocker, Instantiate, SetVirtualStakingMaxCap, sendAsync, BeginEndBlock,
           SendValsetUpdate, ClearPipedValsetOperations, SendHandleEpoch, Halt, vars
  <2>2. phase = "epoch" /\ DOMAIN due = {}
    BY <2>1 DEF Commit, PassDone, EmptyStore
  <2> QED
    BY <2>2 DEF BlockInv, LoweredScheduled
<1> QED
  BY <1>1, BlockInvariance, PTL DEF Spec, LoweredLimitIsServed

(* A limit of 0 ends the regular rebalances, for any positive epoch.       *)
THEOREM ZeroLimitEndsRebalances ==
  ASSUME EpochLength > 0 PROVE Spec => ZeroLimitStopsRebalances
<1> DEFINE P == \A c \in ActiveContracts(maxCap) \ ActiveContracts(maxCap') :
                  \A k \in TasksOf(tasks', HandleEpoch, c) : ~tasks'[k] /\ k.height = height
<1>1. IInv /\ [Next]_vars => [P]_vars
  <2> SUFFICES ASSUME IInv, [Next]_vars,
                      NEW c \in ActiveContracts(maxCap) \ ActiveContracts(maxCap'),
                      NEW k \in TasksOf(tasks', HandleEpoch, c)
               PROVE  ~tasks'[k] /\ k.height = height
    OBVIOUS
  <2>1. c \in Contracts /\ maxCap' # maxCap /\ TypeOK /\ height \in Nat
    BY DEF IInv, TypeOK, ActiveContracts
  <2>2. PICK d \in Contracts, amt \in Caps : SetVirtualStakingMaxCap(d, amt)
    BY <2>1 DEF Next, Deliver, EndBlocker, Instantiate, sendAsync, BeginEndBlock, SendValsetUpdate,
                ClearPipedValsetOperations, SendHandleEpoch, Commit, Halt, vars, store
  <2>3. d = c /\ amt = 0
    BY <2>2, CapsAssumption DEF SetVirtualStakingMaxCap, SetMaxCapLimit, ActiveContracts
  <2>4. HasScheduledTask(tasks, HandleEpoch, c, TRUE)
    BY DEF IInv, ActiveContractsRebalance, RepeatingTasks, HasScheduledTask
  <2>5. ScheduleLastRebalance(c, 0)
    BY <2>2, <2>3, <2>4 DEF SetVirtualStakingMaxCap
  <2> DEFINE now  == Key(HandleEpoch, height, c)
             kept == DOMAIN tasks \ TasksOf(tasks, HandleEpoch, c)
  <2>6. /\ DOMAIN tasks' = kept \cup {now}
        /\ now \notin kept => ~tasks'[now]
        /\ now.type = HandleEpoch /\ now.height = height /\ now.contract = c
    BY <2>1, <2>5, LastFacts
  <2>7. now \notin kept /\ k = now
    BY <2>6 DEF TasksOf
  <2> QED
    BY <2>6, <2>7
<1> QED
  BY <1>1, Invariance, PTL DEF Spec, ZeroLimitStopsRebalances

(* With the default handler no failing contract stops the chain.           *)
THEOREM FailuresAreTolerated == Spec => []FailingContractsDoNotHalt
<1>1. BlockInv => FailingContractsDoNotHalt
  BY DEF BlockInv, NeverHalts, FailingContractsDoNotHalt
<1> QED
  BY <1>1, BlockInvariance, PTL

(* With the strict handler a failed callback stops the block in the pass   *)
(* it happened in.                                                         *)
THEOREM StrictHandlerStopsBlock == Spec => StrictHandlerHalts
<1> DEFINE P == panicOnError /\ phase' \in {"epoch", "deliver"} =>
                  (phase = phase' \/ \A r \in results : ~r.execErr)
<1>1. [Next]_vars => [P]_vars
  <2> SUFFICES ASSUME [Next]_vars, panicOnError, phase' \in {"epoch", "deliver"}, phase # phase',
                      NEW r \in results
               PROVE  ~r.execErr
    OBVIOUS
  <2>1. ClearPipedValsetOperations \/ Commit
    BY DEF Next, Deliver, EndBlocker, Instantiate, SetVirtualStakingMaxCap, sendAsync, BeginEndBlock,
           SendValsetUpdate, SendHandleEpoch, Halt, vars
  <2>2. ~HandlerPanics(r)
    BY <2>1 DEF ClearPipedValsetOperations, Commit, ResponsesAccepted
  <2> QED
    BY <2>2 DEF HandlerPanics
<1> QED
  BY <1>1, PTL DEF Spec, StrictHandlerHalts

-----------------------------------------------------------------------------
(* The limits *)

(* The bound on the total is kept because every change is checked against  *)
(* the limits of all others; that only known contracts have a limit needs  *)
(* that whoever has a task has one.                                        *)
TasksHaveLimits == \A k \in DOMAIN tasks : k.contract \in DOMAIN maxCap

LimitsInv == IsFiniteSet(DOMAIN maxCap) /\ TasksHaveLimits /\ LimitsFitTotal

(* No limits, no sum. *)
LEMMA InitLimitsInv == Init => LimitsInv
<1> SUFFICES ASSUME Init PROVE LimitsInv
  OBVIOUS
<1>1. DOMAIN maxCap = {} /\ DOMAIN tasks = {}
  BY DEF Init, FreshChain, EmptyStore
<1>2. SumFunctionOnSet(maxCap, DOMAIN maxCap) = 0
  BY <1>1, SumEmpty
<1> QED
  BY <1>1, <1>2, FS_EmptySet, TotalContractsMaxCapAssumption
  DEF LimitsInv, TasksHaveLimits, LimitsFitTotal

(* The check of SetMaxCapLimit bounds the sum of the limits it writes.     *)
LEMMA SetCapFits ==
  ASSUME TypeOK, IsFiniteSet(DOMAIN maxCap), NEW c \in Contracts, NEW amt \in Nat,
         FitsTotal(maxCap, c, amt), maxCap' = SetMaxCapLimit(maxCap, c, amt)
  PROVE  /\ DOMAIN maxCap' = DOMAIN maxCap \cup {c}
         /\ IsFiniteSet(DOMAIN maxCap')
         /\ SumFunctionOnSet(maxCap', DOMAIN maxCap') <= TotalContractsMaxCap
<1> DEFINE others == DOMAIN maxCap \ {c}
<1>1. /\ DOMAIN maxCap' = DOMAIN maxCap \cup {c}
      /\ maxCap'[c] = amt
      /\ \A x \in others : maxCap'[x] = maxCap[x] /\ maxCap[x] \in Nat
  BY DEF SetMaxCapLimit, TypeOK
<1>2. IsFiniteSet(DOMAIN maxCap')
  BY <1>1, FS_AddElement
<1>3. IsFiniteSet(others) /\ DOMAIN maxCap' \ {c} = others
  BY <1>1, FS_Subset
<1>4. /\ SumFunctionOnSet(maxCap, others) \in Int
      /\ SumFunctionOnSet(maxCap, others) = SumFunctionOnSet(maxCap', others)
  BY <1>1, <1>3, SumFacts, SumSame
<1>5. SumFunctionOnSet(maxCap', DOMAIN maxCap') =
        maxCap'[c] + SumFunctionOnSet(maxCap', DOMAIN maxCap' \ {c})
  <2>1. \A x \in DOMAIN maxCap' : maxCap'[x] \in Int
    BY <1>1
  <2> QED
    BY <1>1, <1>2, <2>1, SumFacts
<1>6. SumFunctionOnSet(maxCap, others) + amt <= TotalContractsMaxCap
  BY DEF FitsTotal, UsedByOthers
<1> HIDE DEF others
<1>7. SumFunctionOnSet(maxCap', DOMAIN maxCap') = amt + SumFunctionOnSet(maxCap, others)
  BY <1>1, <1>3, <1>4, <1>5
<1> QED
  BY <1>1, <1>2, <1>4, <1>6, <1>7

(* Every step keeps the sum of the limits. *)
LEMMA NextLimitsInv == IInv /\ LimitsInv /\ [Next]_vars => LimitsInv'
<1> SUFFICES ASSUME IInv, LimitsInv, [Next]_vars PROVE LimitsInv'
  OBVIOUS
<1>0. TypeOK
  BY DEF IInv
<1>1. ASSUME NEW c \in Contracts, NEW amt \in Caps, SetVirtualStakingMaxCap(c, amt)
      PROVE  LimitsInv'
  <2>1. /\ FitsTotal(maxCap, c, amt) /\ maxCap' = SetMaxCapLimit(maxCap, c, amt)
        /\ deployed' = deployed /\ amt \in Nat
    BY <1>1, CapsAssumption DEF SetVirtualStakingMaxCap
  <2>2. /\ DOMAIN maxCap' = DOMAIN maxCap \cup {c}
        /\ IsFiniteSet(DOMAIN maxCap')
        /\ SumFunctionOnSet(maxCap', DOMAIN maxCap') <= TotalContractsMaxCap
    BY <1>0, <2>1, SetCapFits DEF LimitsInv
  <2>3. /\ c \in deployed
        /\ \A k \in DOMAIN tasks' : k \in DOMAIN tasks \/ k.contract = c
    <3>1. CASE HasScheduledTask(tasks, HandleEpoch, c, TRUE)
      <4>1. ScheduleLastRebalance(c, amt)
        BY <1>1, <3>1 DEF SetVirtualStakingMaxCap
      <4>2. \E k \in DOMAIN tasks : k.contract = c
        BY <3>1 DEF HasScheduledTask, TasksOf
      <4>3. c \in deployed
        BY <4>2 DEF LimitsInv, TasksHaveLimits, LimitsFitTotal
      <4> DEFINE now  == Key(HandleEpoch, height, c)
                 kept == IF amt = 0 THEN DOMAIN tasks \ TasksOf(tasks, HandleEpoch, c)
                                    ELSE DOMAIN tasks
      <4>a. DOMAIN tasks' = kept \cup {now} /\ now.contract = c
        BY <1>0, <2>1, <4>1, LastFacts
      <4>4. \A k \in DOMAIN tasks' : k \in DOMAIN tasks \/ k.contract = c
        BY <4>a
      <4> QED
        BY <4>3, <4>4
    <3>2. CASE ~HasScheduledTask(tasks, HandleEpoch, c, TRUE)
      <4>1. ScheduleRegularRebalanceTask(c)
        BY <1>1, <3>2 DEF SetVirtualStakingMaxCap
      <4> DEFINE next == Key(HandleEpoch, height + EpochLength, c)
      <4>a. DOMAIN tasks' = DOMAIN tasks \cup {next} /\ next.contract = c
        BY <1>0, <4>1, RegularFacts
      <4>2. \A k \in DOMAIN tasks' : k \in DOMAIN tasks \/ k.contract = c
        BY <4>a
      <4> QED
        BY <4>1, <4>2 DEF ScheduleRegularRebalanceTask
    <3> QED
      BY <3>1, <3>2
  <2> QED
    BY <2>1, <2>2, <2>3 DEF LimitsInv, TasksHaveLimits, LimitsFitTotal
<1>2. ASSUME maxCap' = maxCap, deployed \subseteq deployed',
             \A k \in DOMAIN tasks' : \/ k \in DOMAIN tasks
                                      \/ k.contract \in DOMAIN maxCap
      PROVE  LimitsInv'
  BY <1>2 DEF LimitsInv, TasksHaveLimits, LimitsFitTotal
<1>3. ASSUME NEW c \in Contracts, Instantiate(c) PROVE LimitsInv'
  BY <1>2, <1>3 DEF Instantiate
<1>4. ASSUME NEW op \in Ops, sendAsync(op) PROVE LimitsInv'
  <2>1. DOMAIN tasks' = DOMAIN tasks \cup {Key(ValsetUpdate, height, c) : c \in ActiveContracts(maxCap)}
    BY <1>0, <1>4, ReportFacts DEF sendAsync
  <2>2. \A k \in DOMAIN tasks' : k \in DOMAIN tasks \/ k.contract \in DOMAIN maxCap
    BY <2>1 DEF ActiveContracts, Key
  <2> QED
    BY <1>2, <1>4, <2>2 DEF sendAsync
<1>5. ASSUME NEW k \in DOMAIN due, NEW fails \in BOOLEAN, ExecTask(k, fails),
             phase \in {"valset", "epoch"}, maxCap' = maxCap, deployed' = deployed
      PROVE  LimitsInv'
  <2>1. k \in DOMAIN tasks
    BY <1>5 DEF IInv, DueIsExact
  <2>2. \A x \in DOMAIN tasks' : x \in DOMAIN tasks \/ x.contract = k.contract
    BY <1>0, <1>5, ExecFacts
  <2> QED
    BY <1>2, <1>5, <2>1, <2>2 DEF LimitsInv, TasksHaveLimits
<1>6. ASSUME UNCHANGED store PROVE LimitsInv'
  BY <1>2, <1>6 DEF store
<1>7. ASSUME BeginEndBlock \/ ClearPipedValsetOperations \/ Commit \/ Halt \/ UNCHANGED vars
      PROVE  LimitsInv'
  BY <1>2, <1>6, <1>7 DEF BeginEndBlock, ClearPipedValsetOperations, Commit, Halt, vars
<1> QED
  BY <1>1, <1>3, <1>4, <1>5, <1>7
  DEF Next, Deliver, EndBlocker, SendValsetUpdate, SendHandleEpoch

(* The invariant of the limits. *)
LEMMA LimitsInvariance == Spec => [](IInv /\ LimitsInv)
<1>1. Init => IInv /\ LimitsInv
  BY InitIInv, InitLimitsInv
<1>2. (IInv /\ LimitsInv) /\ [Next]_vars => (IInv /\ LimitsInv)'
  BY NextIInv, NextLimitsInv
<1> QED
  BY <1>1, <1>2, PTL DEF Spec

(* The limits never add up to more than the parameter allows, for any      *)
(* number of contracts and any order of changes.                           *)
THEOREM LimitsNeverExceedTotal == Spec => []LimitsFitTotal
<1>1. LimitsInv => LimitsFitTotal
  BY DEF LimitsInv
<1> QED
  BY <1>1, LimitsInvariance, PTL

-----------------------------------------------------------------------------
(* The refinement.  Both specifications are safety properties, so it is    *)
(* enough that initial states map to initial states and steps to steps or  *)
(* stuttering.  An epoch has at least one block (ValidateBasic of the      *)
(* parameters rejects 0).                                                  *)

(* IInv, and that nobody is called on request in a later block: the next   *)
(* block starts without requests.                                          *)
OneShotsAreNow == \A k \in DOMAIN tasks : ~tasks[k] => k.height = height

RInv == IInv /\ OneShotsAreNow

Now(c) == Key(HandleEpoch, height, c)

-----------------------------------------------------------------------------
(* The mapping *)

(* A key is determined by its three parts. *)
LEMMA KeyIsNow ==
  ASSUME TypeOK, NEW k \in DOMAIN tasks, k.type = HandleEpoch, k.height = height
  PROVE  k = Now(k.contract) /\ k.contract \in Contracts
BY DEF TypeOK, IsTaskStore, TaskKey, Now, Key

(* The key of c's rebalance in this block. *)
LEMMA NowFacts ==
  ASSUME TypeOK, NEW c \in Contracts
  PROVE  Now(c) \in TaskKey /\ Now(c).type = HandleEpoch /\ Now(c).height = height /\ Now(c).contract = c
<1>1. height \in Nat /\ HandleEpoch \in TaskType
  BY DEF TypeOK, TaskType
<1> QED
  BY <1>1 DEF Now, Key, TaskKey

(* The countdown is the distance to the only repeating task, a request the *)
(* one shot for the current height.                                        *)
BarIsExact ==
  \A c \in Contracts :
    /\ \A k \in RepeatingTasks(c) : countdownBar[c] = k.height - height
    /\ RepeatingTasks(c) = {} => countdownBar[c] = -1
    /\ c \in requestedBar <=> Now(c) \in DOMAIN tasks /\ ~tasks[Now(c)]
    /\ countdownBar[c] = 0 <=> Now(c) \in DOMAIN tasks /\ tasks[Now(c)]
    /\ countdownBar[c] = -1 <=> RepeatingTasks(c) = {}

(* The mapping is exact, as long as the repeating task is unique. *)
LEMMA BarFacts == RInv => BarIsExact
<1> SUFFICES ASSUME RInv, NEW c \in Contracts
             PROVE  /\ \A k \in RepeatingTasks(c) : countdownBar[c] = k.height - height
                    /\ RepeatingTasks(c) = {} => countdownBar[c] = -1
                    /\ c \in requestedBar <=> Now(c) \in DOMAIN tasks /\ ~tasks[Now(c)]
                    /\ countdownBar[c] = 0 <=> Now(c) \in DOMAIN tasks /\ tasks[Now(c)]
                    /\ countdownBar[c] = -1 <=> RepeatingTasks(c) = {}
  BY DEF BarIsExact
<1>0. TypeOK /\ height \in Nat
  BY DEF RInv, IInv, TypeOK
<1>1. RepeatingTasks(c) = {} => countdownBar[c] = -1
  BY DEF countdownBar
<1>2. ASSUME NEW k \in RepeatingTasks(c) PROVE countdownBar[c] = k.height - height
  <2>1. (CHOOSE x \in RepeatingTasks(c) : TRUE) = k
    BY DEF RInv, IInv, OneRepeatingTask
  <2> QED
    BY <2>1 DEF countdownBar
<1>3. ASSUME NEW k \in RepeatingTasks(c)
      PROVE  k \in DOMAIN tasks /\ k.type = HandleEpoch /\ k.contract = c /\ tasks[k]
             /\ k.height \in Nat /\ k.height >= height
  <2>1. k \in DOMAIN tasks /\ k.type = HandleEpoch /\ k.contract = c /\ tasks[k]
    BY DEF RepeatingTasks, TasksOf
  <2> QED
    BY <1>0, <2>1 DEF RInv, IInv, NoStaleTasks, TypeOK, IsTaskStore, TaskKey
<1>4. Now(c).type = HandleEpoch /\ Now(c).height = height /\ Now(c).contract = c
  BY <1>0, NowFacts
<1>5. c \in requestedBar <=> Now(c) \in DOMAIN tasks /\ ~tasks[Now(c)]
  <2>1. ASSUME c \in requestedBar PROVE Now(c) \in DOMAIN tasks /\ ~tasks[Now(c)]
    <3>1. PICK k \in DOMAIN tasks : k.type = HandleEpoch /\ k.contract = c /\ k.height = height /\ ~tasks[k]
      BY <2>1 DEF requestedBar, TasksOf
    <3> QED
      BY <1>0, <3>1, KeyIsNow
  <2>2. ASSUME Now(c) \in DOMAIN tasks, ~tasks[Now(c)] PROVE c \in requestedBar
    BY <1>4, <2>2 DEF requestedBar, TasksOf
  <2> QED
    BY <2>1, <2>2
<1>6. countdownBar[c] = 0 <=> Now(c) \in DOMAIN tasks /\ tasks[Now(c)]
  <2>1. ASSUME Now(c) \in DOMAIN tasks, tasks[Now(c)] PROVE countdownBar[c] = 0
    <3>1. Now(c) \in RepeatingTasks(c)
      BY <1>4, <2>1 DEF RepeatingTasks, TasksOf
    <3> QED
      BY <1>0, <1>2, <1>4, <3>1
  <2>2. ASSUME countdownBar[c] = 0 PROVE Now(c) \in DOMAIN tasks /\ tasks[Now(c)]
    <3>1. PICK k \in RepeatingTasks(c) : TRUE
      <4>1. RepeatingTasks(c) # {}
        BY <1>1, <2>2
      <4> QED
        BY <4>1
    <3>2. k.height = height
      BY <1>0, <1>2, <1>3, <2>2
    <3> QED
      BY <1>0, <1>3, <3>2, KeyIsNow
  <2> QED
    BY <2>1, <2>2
<1>7. countdownBar[c] = -1 => RepeatingTasks(c) = {}
  <2> SUFFICES ASSUME NEW k \in RepeatingTasks(c) PROVE countdownBar[c] # -1
    OBVIOUS
  <2> QED
    BY <1>0, <1>2, <1>3
<1> QED
  BY <1>1, <1>2, <1>5, <1>6, <1>7

(* The same after a step. *)
LEMMA BarFactsNext == (RInv => BarIsExact)'
BY BarFacts, PTL

(* The entries of a contract that a step leaves alone, and what that means *)
(* for the contract's countdown and request.                               *)
Untouched(c) ==
  \A x \in TaskKey : x.type = HandleEpoch /\ x.contract = c =>
    /\ x \in DOMAIN tasks' <=> x \in DOMAIN tasks
    /\ x \in DOMAIN tasks => tasks'[x] = tasks[x]

(* A contract whose entries are left alone. *)
LEMMA UntouchedFacts ==
  ASSUME TypeOK, TypeOK', height' = height, NEW c \in Contracts, Untouched(c)
  PROVE  /\ RepeatingTasks(c)' = RepeatingTasks(c)
         /\ countdownBar'[c] = countdownBar[c]
         /\ c \in requestedBar' <=> c \in requestedBar
<1>1. DOMAIN tasks \subseteq TaskKey /\ DOMAIN tasks' \subseteq TaskKey
  BY DEF TypeOK, IsTaskStore
<1>2. TasksOf(tasks', HandleEpoch, c) = TasksOf(tasks, HandleEpoch, c)
  BY <1>1 DEF TasksOf, Untouched
<1>3. \A k \in TasksOf(tasks, HandleEpoch, c) : tasks'[k] = tasks[k]
  BY <1>1 DEF TasksOf, Untouched
<1>4. RepeatingTasks(c)' = RepeatingTasks(c)
  BY <1>2, <1>3 DEF RepeatingTasks
<1>5. countdownBar'[c] = countdownBar[c]
  BY <1>4 DEF countdownBar
<1>6. c \in requestedBar' <=> c \in requestedBar
  BY <1>2, <1>3 DEF requestedBar
<1> QED
  BY <1>4, <1>5, <1>6

(* The mapped variables are a function and a set of contracts. *)
LEMMA BarTypes ==
  /\ countdownBar = [c \in Contracts |-> countdownBar[c]]
  /\ requestedBar \subseteq Contracts
BY DEF countdownBar, requestedBar

(* The same after a step. *)
LEMMA BarTypesNext ==
  /\ countdownBar' = [c \in Contracts |-> countdownBar'[c]]
  /\ requestedBar' \subseteq Contracts
BY DEF countdownBar, requestedBar

(* One point of the countdown, one member of the requests. *)
LEMMA PointUpdate ==
  ASSUME NEW f, NEW g, NEW c \in Contracts,
         f = [x \in Contracts |-> f[x]], g = [x \in Contracts |-> g[x]],
         \A x \in Contracts : x # c => g[x] = f[x]
  PROVE  g = [f EXCEPT ![c] = g[c]]
<1> DEFINE e == [f EXCEPT ![c] = g[c]]
<1>1. \A x \in Contracts : g[x] = e[x]
  OBVIOUS
<1>2. DOMAIN e = Contracts /\ e = [x \in Contracts |-> e[x]]
  OBVIOUS
<1> HIDE DEF e
<1>3. g = e
  BY <1>1, <1>2
<1> QED
  BY <1>3 DEF e

(* The same for the set of requests. *)
LEMMA PointMember ==
  ASSUME NEW f, NEW g, NEW c \in Contracts, f \subseteq Contracts, g \subseteq Contracts,
         \A x \in Contracts : x # c => (x \in g <=> x \in f)
  PROVE  g = IF c \in g THEN f \cup {c} ELSE f \ {c}
OBVIOUS

(* What a step does that touches the tasks of one contract only. *)
LEMMA BarChange ==
  ASSUME NEW c \in Contracts,
         \A d \in Contracts : d # c => /\ countdownBar'[d] = countdownBar[d]
                                       /\ d \in requestedBar' <=> d \in requestedBar
  PROVE  /\ countdownBar' = [countdownBar EXCEPT ![c] = countdownBar'[c]]
         /\ requestedBar' = IF c \in requestedBar' THEN requestedBar \cup {c} ELSE requestedBar \ {c}
<1> DEFINE f == countdownBar  g == countdownBar'
           r == requestedBar  q == requestedBar'
<1>1. /\ f = [x \in Contracts |-> f[x]] /\ g = [x \in Contracts |-> g[x]]
      /\ r \subseteq Contracts /\ q \subseteq Contracts
      /\ \A x \in Contracts : x # c => g[x] = f[x] /\ (x \in q <=> x \in r)
  BY BarTypes, BarTypesNext
<1> HIDE DEF f, g, r, q
<1>2. g = [f EXCEPT ![c] = g[c]]
  BY <1>1, PointUpdate
<1>3. q = IF c \in q THEN r \cup {c} ELSE r \ {c}
  BY <1>1, PointMember
<1> QED
  BY <1>2, <1>3 DEF f, g, r, q

-----------------------------------------------------------------------------
(* The invariant *)

(* A fresh chain has no one shot tasks. *)
LEMMA InitRInv == Init => RInv
BY InitIInv DEF RInv, OneShotsAreNow, Init, FreshChain, EmptyStore

(* Every step keeps one shot tasks in their block. *)
LEMMA NextRInv == RInv /\ [Next]_vars => RInv'
<1> SUFFICES ASSUME RInv, [Next]_vars PROVE OneShotsAreNow'
  BY NextIInv DEF RInv
<1>0. IInv /\ TypeOK
  BY DEF RInv, IInv
<1>1. ASSUME height' = height, \A k \in DOMAIN tasks' : ~tasks'[k] =>
                k.height = height \/ (k \in DOMAIN tasks /\ tasks'[k] = tasks[k])
      PROVE  OneShotsAreNow'
  BY <1>1 DEF RInv, OneShotsAreNow
<1>2. ASSUME NEW c \in Contracts, NEW amt \in Caps, SetVirtualStakingMaxCap(c, amt)
      PROVE  OneShotsAreNow'
  <2>1. height' = height /\ amt \in Nat
    BY <1>2, CapsAssumption DEF SetVirtualStakingMaxCap
  <2>2. CASE ScheduleRegularRebalanceTask(c)
    <3> DEFINE next == Key(HandleEpoch, height + EpochLength, c)
    <3>1. /\ DOMAIN tasks' = DOMAIN tasks \cup {next} /\ tasks'[next]
          /\ \A x \in DOMAIN tasks : x # next => tasks'[x] = tasks[x]
      BY <1>0, <2>2, RegularFacts
    <3> HIDE DEF next
    <3> QED
      BY <1>1, <2>1, <3>1
  <2>3. CASE ScheduleLastRebalance(c, amt)
    <3> DEFINE now  == Key(HandleEpoch, height, c)
               kept == IF amt = 0 THEN DOMAIN tasks \ TasksOf(tasks, HandleEpoch, c)
                                  ELSE DOMAIN tasks
    <3>1. /\ DOMAIN tasks' = kept \cup {now} /\ now.height = height
          /\ \A x \in kept : tasks'[x] = tasks[x]
      BY <1>0, <2>1, <2>3, LastFacts
    <3>2. kept \subseteq DOMAIN tasks
      OBVIOUS
    <3> HIDE DEF now, kept
    <3> QED
      BY <1>1, <2>1, <3>1, <3>2
  <2> QED
    BY <1>2, <2>2, <2>3 DEF SetVirtualStakingMaxCap
<1>3. ASSUME NEW op \in Ops, sendAsync(op) PROVE OneShotsAreNow'
  <2> DEFINE all == {Key(ValsetUpdate, height, c) : c \in ActiveContracts(maxCap)}
  <2>1. /\ DOMAIN tasks' = DOMAIN tasks \cup all /\ height' = height
        /\ \A x \in DOMAIN tasks : tasks'[x] = tasks[x]
    BY <1>0, <1>3, ReportFacts DEF sendAsync
  <2>2. \A x \in all : x.height = height
    BY DEF Key
  <2> HIDE DEF all
  <2> QED
    BY <1>1, <2>1, <2>2
<1>4. ASSUME NEW k \in DOMAIN due, NEW fails \in BOOLEAN, ExecTask(k, fails), height' = height
      PROVE  OneShotsAreNow'
  <2> DEFINE new == Key(k.type, height + EpochLength, k.contract)
  <2>1. /\ Repeats(k) => /\ DOMAIN tasks' = (DOMAIN tasks \cup {new}) \ {k}
                         /\ new \in DOMAIN tasks' => tasks'[new]
                         /\ \A x \in DOMAIN tasks' : x # new => tasks'[x] = tasks[x]
        /\ ~Repeats(k) => /\ DOMAIN tasks' = DOMAIN tasks \ {k}
                          /\ \A x \in DOMAIN tasks' : tasks'[x] = tasks[x]
    BY <1>0, <1>4, ExecFacts
  <2> HIDE DEF new
  <2>2. \A x \in DOMAIN tasks' : ~tasks'[x] => x \in DOMAIN tasks /\ tasks'[x] = tasks[x]
    <3>1. CASE Repeats(k)
      <4> SUFFICES ASSUME NEW x \in DOMAIN tasks', ~tasks'[x]
                   PROVE  x \in DOMAIN tasks /\ tasks'[x] = tasks[x]
        OBVIOUS
      <4>1. x # new
        <5> SUFFICES ASSUME x = new PROVE FALSE
          OBVIOUS
        <5> QED
          BY <2>1, <3>1
      <4> QED
        BY <2>1, <3>1, <4>1
    <3>2. CASE ~Repeats(k)
      BY <2>1, <3>2
    <3> QED
      BY <3>1, <3>2
  <2> QED
    BY <1>1, <1>4, <2>2
<1>5. ASSUME Commit PROVE OneShotsAreNow'
  <2>1. phase = "epoch" /\ DOMAIN due = {} /\ tasks' = tasks
    BY <1>5 DEF Commit, PassDone, EmptyStore, store
  <2>2. \A k \in DOMAIN tasks : k.height # height
    BY <1>0, <2>1 DEF IInv, DueIsExact
  <2> QED
    BY <2>1, <2>2 DEF RInv, OneShotsAreNow
<1>6. ASSUME tasks' = tasks, height' = height PROVE OneShotsAreNow'
  BY <1>1, <1>6
<1>7. ASSUME (\E c \in Contracts : Instantiate(c)) \/ BeginEndBlock \/ ClearPipedValsetOperations
             \/ Halt \/ UNCHANGED vars
      PROVE  OneShotsAreNow'
  <2>1. tasks' = tasks /\ height' = height
    BY <1>7 DEF Instantiate, BeginEndBlock, ClearPipedValsetOperations, Halt, vars, store
  <2> QED
    BY <1>6, <2>1
<1> QED
  BY <1>2, <1>3, <1>4, <1>5, <1>7 DEF Next, Deliver, EndBlocker, SendValsetUpdate, SendHandleEpoch

-----------------------------------------------------------------------------
(* Steps *)

(* A step that changes no epoch task is hidden, unless it closes the block. *)
LEMMA HiddenStep ==
  ASSUME TypeOK, TypeOK', height' = height, \A c \in Contracts : Untouched(c)
  PROVE  countdownBar' = countdownBar /\ requestedBar' = requestedBar
<1>1. \A c \in Contracts : countdownBar'[c] = countdownBar[c]
                            /\ (c \in requestedBar' <=> c \in requestedBar)
  BY UntouchedFacts
<1>2. countdownBar' = countdownBar
  BY <1>1, BarTypes, BarTypesNext
<1>3. requestedBar' = requestedBar
  BY <1>1, BarTypes, BarTypesNext
<1> QED
  BY <1>2, <1>3

(* A limit change enrolls a contract, requests a call or dismisses it.     *)
LEMMA SetCapStep ==
  ASSUME EpochLength > 0, RInv, RInv', NEW c \in Contracts, NEW amt \in Caps,
         SetVirtualStakingMaxCap(c, amt)
  PROVE  Service!Enroll(c) \/ Service!Request(c) \/ Service!Dismiss(c)
<1>0. /\ TypeOK /\ TypeOK' /\ height \in Nat /\ EpochLength \in Nat /\ amt \in Nat
      /\ BarIsExact /\ BarIsExact'
  BY BarFacts, BarFactsNext, EpochLengthAssumption, CapsAssumption DEF RInv, IInv, TypeOK
<1>1. height' = height /\ phase = "deliver" /\ phase' = "deliver"
  BY DEF SetVirtualStakingMaxCap
<1>2. Now(c).type = HandleEpoch /\ Now(c).height = height /\ Now(c).contract = c /\ Now(c)' = Now(c)
  BY <1>0, <1>1, NowFacts DEF Now
<1>3. ASSUME \A x \in TaskKey : x.contract # c =>
                /\ x \in DOMAIN tasks' <=> x \in DOMAIN tasks
                /\ x \in DOMAIN tasks => tasks'[x] = tasks[x]
      PROVE  \A d \in Contracts : d # c => /\ countdownBar'[d] = countdownBar[d]
                                           /\ d \in requestedBar' <=> d \in requestedBar
  <2> SUFFICES ASSUME NEW d \in Contracts, d # c
               PROVE  countdownBar'[d] = countdownBar[d] /\ (d \in requestedBar' <=> d \in requestedBar)
    OBVIOUS
  <2>1. Untouched(d)
    BY <1>3 DEF Untouched
  <2> QED
    BY <1>0, <1>1, <2>1, UntouchedFacts
<1>4. CASE ~HasScheduledTask(tasks, HandleEpoch, c, TRUE)
  <2> DEFINE next == Key(HandleEpoch, height + EpochLength, c)
  <2>1. RepeatingTasks(c) = {}
    BY <1>4 DEF HasScheduledTask, RepeatingTasks
  <2>2. ScheduleRegularRebalanceTask(c)
    BY <1>4 DEF SetVirtualStakingMaxCap
  <2>3. /\ DOMAIN tasks' = DOMAIN tasks \cup {next} /\ tasks'[next]
        /\ \A x \in DOMAIN tasks : x # next => tasks'[x] = tasks[x]
        /\ next.type = HandleEpoch /\ next.height = height + EpochLength /\ next.contract = c
    BY <1>0, <2>2, RegularFacts
  <2> HIDE DEF next
  <2>4. \A d \in Contracts : d # c => /\ countdownBar'[d] = countdownBar[d]
                                      /\ d \in requestedBar' <=> d \in requestedBar
    BY <1>3, <2>3
  <2>5. countdownBar'[c] = EpochLength
    <3>1. next \in RepeatingTasks(c)'
      BY <2>3 DEF RepeatingTasks, TasksOf
    <3>2. countdownBar'[c] = next.height - height
      BY <1>0, <1>1, <3>1 DEF BarIsExact
    <3> QED
      BY <1>0, <2>3, <3>2
  <2>6. c \in requestedBar' <=> c \in requestedBar
    <3>1. Now(c) # next
      BY <1>0, <1>2, <2>3
    <3> QED
      BY <1>0, <1>2, <2>3, <3>1 DEF BarIsExact
  <2>7. countdownBar[c] = -1
    BY <1>0, <2>1 DEF BarIsExact
  <2>8. countdownBar' = [countdownBar EXCEPT ![c] = EpochLength]
    BY <2>4, <2>5, BarChange
  <2>9. requestedBar' = requestedBar
    BY <2>4, <2>6, BarChange
  <2>10. Service!Enroll(c)
    BY <1>1, <2>7, <2>8, <2>9 DEF Service!Enroll, Service!Enrolled, Service!Off
  <2> QED
    BY <2>10
<1>5. CASE HasScheduledTask(tasks, HandleEpoch, c, TRUE)
  <2> DEFINE kept == IF amt = 0 THEN DOMAIN tasks \ TasksOf(tasks, HandleEpoch, c)
                                ELSE DOMAIN tasks
  <2>1. PICK r \in RepeatingTasks(c) : TRUE
    BY <1>5 DEF HasScheduledTask, RepeatingTasks
  <2>2. countdownBar[c] # -1
    BY <1>0, <2>1 DEF BarIsExact
  <2>3. /\ DOMAIN tasks' = kept \cup {Now(c)}
        /\ \A x \in kept : tasks'[x] = tasks[x]
        /\ Now(c) \notin kept => ~tasks'[Now(c)]
    BY <1>0, <1>5, LastFacts DEF Now, SetVirtualStakingMaxCap
  <2>4. \A x \in DOMAIN tasks : x.contract # c => x \in kept
    BY DEF TasksOf
  <2>5. kept \subseteq DOMAIN tasks
    OBVIOUS
  <2>6. \A d \in Contracts : d # c => /\ countdownBar'[d] = countdownBar[d]
                                      /\ d \in requestedBar' <=> d \in requestedBar
    <3> HIDE DEF kept
    <3> QED
      BY <1>2, <1>3, <2>3, <2>4, <2>5
  <2>7. CASE amt = 0
    <3>1. RepeatingTasks(c)' = {} /\ Now(c) \in DOMAIN tasks' /\ ~tasks'[Now(c)]
      BY <1>2, <2>3, <2>7 DEF RepeatingTasks, TasksOf
    <3>2. countdownBar'[c] = -1 /\ c \in requestedBar'
      BY <1>0, <1>2, <3>1 DEF BarIsExact
    <3>3. countdownBar' = [countdownBar EXCEPT ![c] = -1]
      BY <2>6, <3>2, BarChange
    <3>4. requestedBar' = requestedBar \cup {c}
      BY <2>6, <3>2, BarChange
    <3> QED
      BY <1>1, <2>2, <3>3, <3>4 DEF Service!Dismiss, Service!Enrolled, Service!Off
  <2>8. CASE amt # 0
    <3>1. kept = DOMAIN tasks
      BY <2>8
    <3> HIDE DEF kept
    <3>2. RepeatingTasks(c)' = RepeatingTasks(c)
      BY <2>3, <3>1 DEF RepeatingTasks, TasksOf
    <3>3. countdownBar'[c] = countdownBar[c]
      BY <1>1, <3>2 DEF countdownBar
    <3>4. c \in requestedBar' <=> countdownBar[c] # 0
      BY <1>0, <1>2, <2>3, <3>1 DEF BarIsExact
    <3>5. c \in requestedBar => countdownBar[c] # 0
      BY <1>0 DEF BarIsExact
    <3>6. countdownBar' = countdownBar
      BY <2>6, <3>3, BarTypes, BarChange
    <3>7. requestedBar' = IF countdownBar[c] = 0 THEN requestedBar ELSE requestedBar \cup {c}
      BY <2>6, <3>4, <3>5, BarChange
    <3> QED
      BY <1>1, <2>2, <3>6, <3>7 DEF Service!Request, Service!Enrolled, Service!Off
  <2> QED
    BY <2>7, <2>8
<1> QED
  BY <1>4, <1>5

(* An entry of the second pass is the call its contract waits for.         *)
LEMMA EpochStep ==
  ASSUME EpochLength > 0, RInv, RInv', NEW k \in DOMAIN due, NEW fails \in BOOLEAN,
         SendHandleEpoch(k, fails)
  PROVE  Service!Call(k.contract)
<1> DEFINE c   == k.contract
           new == Key(k.type, height + EpochLength, k.contract)
<1>0. /\ TypeOK /\ TypeOK' /\ height \in Nat /\ EpochLength \in Nat
      /\ BarIsExact /\ BarIsExact'
  BY BarFacts, BarFactsNext, EpochLengthAssumption DEF RInv, IInv, TypeOK
<1>1. height' = height /\ phase = "epoch" /\ phase' = "epoch" /\ ExecTask(k, fails)
  BY DEF SendHandleEpoch
<1>2. k \in DOMAIN tasks /\ k.type = HandleEpoch /\ k.height = height /\ due[k] = tasks[k]
  BY <1>1 DEF RInv, IInv, DueIsExact
<1>3. k = Now(c) /\ c \in Contracts /\ Now(c)' = Now(c)
  BY <1>0, <1>1, <1>2, KeyIsNow DEF Now
<1>4. /\ k \in TaskKey /\ new \in TaskKey
      /\ new.type = k.type /\ new.height = height + EpochLength /\ new.contract = k.contract
      /\ Repeats(k) => /\ DOMAIN tasks' = (DOMAIN tasks \cup {new}) \ {k}
                       /\ new \in DOMAIN tasks' => tasks'[new]
                       /\ \A x \in DOMAIN tasks' : x # new => tasks'[x] = tasks[x]
      /\ ~Repeats(k) => /\ DOMAIN tasks' = DOMAIN tasks \ {k}
                        /\ \A x \in DOMAIN tasks' : tasks'[x] = tasks[x]
  <2>1. TypeOK
    BY <1>0
  <2>2. ExecTask(k, fails)
    BY <1>1
  <2> QED BY ONLY <2>1, <2>2, k \in DOMAIN due, fails \in BOOLEAN, ExecFacts, ZenonT(40)
<1>5. new # k
  BY <1>0, <1>2, <1>4
<1> HIDE DEF new
<1>6. \A d \in Contracts : d # c => /\ countdownBar'[d] = countdownBar[d]
                                    /\ d \in requestedBar' <=> d \in requestedBar
  <2> SUFFICES ASSUME NEW d \in Contracts, d # c
               PROVE  countdownBar'[d] = countdownBar[d] /\ (d \in requestedBar' <=> d \in requestedBar)
    OBVIOUS
  <2>1. Untouched(d)
    BY <1>4 DEF Untouched
  <2> QED
    BY <1>0, <1>1, <2>1, UntouchedFacts
<1> HIDE DEF c
<1>7. c \notin requestedBar'
  BY <1>0, <1>3, <1>4 DEF BarIsExact
<1>8. requestedBar' = requestedBar \ {c}
  BY <1>3, <1>6, <1>7, BarChange
<1>9. CASE tasks[k]
  <2>1. Repeats(k)
    BY <1>0, <1>2, <1>9 DEF Repeats
  <2>2. new \in DOMAIN tasks' /\ tasks'[new]
    BY <1>4, <1>5, <2>1
  <2>3. new \in RepeatingTasks(c)'
    BY <1>2, <1>4, <2>2 DEF RepeatingTasks, TasksOf, c
  <2>4. countdownBar'[c] = new.height - height
    BY <1>0, <1>1, <1>3, <2>3 DEF BarIsExact
  <2>5. countdownBar'[c] = EpochLength /\ countdownBar[c] = 0
    BY <1>0, <1>2, <1>3, <1>4, <1>9, <2>4 DEF BarIsExact
  <2>6. countdownBar' = [countdownBar EXCEPT ![c] = EpochLength]
    BY <1>3, <1>6, <2>5, BarChange
  <2>7. Service!Call(c)
    BY <1>1, <1>8, <2>5, <2>6 DEF Service!Call, Service!MustCall
  <2> QED
    BY <2>7 DEF c
<1>10. CASE ~tasks[k]
  <2>1. ~Repeats(k)
    BY <1>2, <1>10 DEF Repeats
  <2>2. countdownBar[c] # 0 /\ c \in requestedBar
    BY <1>0, <1>2, <1>3, <1>10 DEF BarIsExact
  <2>3. RepeatingTasks(c)' = RepeatingTasks(c)
    BY <1>4, <1>10, <2>1 DEF RepeatingTasks, TasksOf
  <2>4. countdownBar'[c] = countdownBar[c]
    BY <1>1, <1>3, <2>3 DEF countdownBar
  <2>5. countdownBar' = [countdownBar EXCEPT ![c] = countdownBar[c]]
    BY <1>3, <1>6, <2>4, BarChange
  <2>6. Service!Call(c)
    BY <1>1, <1>8, <2>2, <2>5 DEF Service!Call, Service!MustCall
  <2> QED
    BY <2>6 DEF c
<1> QED
  BY <1>9, <1>10

(* The commit finds nobody waiting and moves every countdown.              *)
LEMMA CommitStep ==
  ASSUME RInv, RInv', Commit
  PROVE  Service!Tick
<1>0. TypeOK /\ TypeOK' /\ height \in Nat /\ BarIsExact /\ BarIsExact'
  BY BarFacts, BarFactsNext DEF RInv, IInv, TypeOK
<1>1. phase = "epoch" /\ DOMAIN due = {} /\ phase' = "deliver" /\ height' = height + 1 /\ tasks' = tasks
  BY DEF Commit, PassDone, EmptyStore, store
<1>2. \A k \in DOMAIN tasks : k.type = HandleEpoch /\ k.height # height
  BY <1>1 DEF RInv, IInv, DueIsExact
<1>3. \A k \in DOMAIN tasks : tasks[k]
  BY <1>2 DEF RInv, OneShotsAreNow
<1>4. \A c \in Contracts : Now(c) \notin DOMAIN tasks
  BY <1>0, <1>2, NowFacts
<1>5. requestedBar = {} /\ requestedBar' = {}
  BY <1>1, <1>3 DEF requestedBar, TasksOf
<1>6. \A c \in Contracts : countdownBar[c] # 0
  BY <1>0, <1>4 DEF BarIsExact
<1>7. ASSUME NEW c \in Contracts
      PROVE  countdownBar'[c] = IF countdownBar[c] # -1 THEN countdownBar[c] - 1 ELSE -1
  <2>1. RepeatingTasks(c)' = RepeatingTasks(c)
    BY <1>1 DEF RepeatingTasks
  <2>2. CASE RepeatingTasks(c) = {}
    BY <1>0, <2>1, <2>2 DEF BarIsExact
  <2>3. CASE RepeatingTasks(c) # {}
    <3>1. PICK k \in RepeatingTasks(c) : TRUE
      BY <2>3
    <3>2. k.height \in Nat
      BY <1>0 DEF RepeatingTasks, TasksOf, TypeOK, IsTaskStore, TaskKey
    <3>3. countdownBar[c] = k.height - height /\ countdownBar[c] # -1
      BY <1>0, <2>3 DEF BarIsExact
    <3>4. countdownBar'[c] = k.height - height'
      BY <1>0, <2>1 DEF BarIsExact
    <3>5. k.height - (height + 1) = (k.height - height) - 1
      BY <1>0, <3>2
    <3> QED
      BY <1>1, <3>3, <3>4, <3>5
  <2> QED
    BY <2>2, <2>3
<1>8. countdownBar' = [c \in Contracts |-> IF countdownBar[c] # -1 THEN countdownBar[c] - 1 ELSE -1]
  BY <1>7, BarTypesNext
<1> QED
  BY <1>1, <1>5, <1>6, <1>8 DEF Service!Tick, Service!MustCall, Service!Enrolled, Service!Off

(* Every step is a step of the service or changes nothing of it.           *)
LEMMA StepRefines ==
  ASSUME EpochLength > 0, RInv, RInv', [Next]_vars
  PROVE  [Service!Next]_(Service!vars)
<1>0. TypeOK /\ TypeOK'
  BY DEF RInv, IInv
<1>1. ASSUME height' = height, (phase' # "deliver") = (phase # "deliver"), \A c \in Contracts : Untouched(c)
      PROVE  UNCHANGED Service!vars
  BY <1>0, <1>1, HiddenStep DEF Service!vars
<1>2. ASSUME tasks' = tasks PROVE \A c \in Contracts : Untouched(c)
  BY <1>2 DEF Untouched
<1>3. ASSUME NEW c \in Contracts, NEW amt \in Caps, SetVirtualStakingMaxCap(c, amt)
      PROVE  Service!Next
  BY <1>3, SetCapStep DEF Service!Next
<1>4. ASSUME NEW op \in Ops, sendAsync(op) PROVE UNCHANGED Service!vars
  <2> DEFINE all == {Key(ValsetUpdate, height, c) : c \in ActiveContracts(maxCap)}
  <2>1. /\ DOMAIN tasks' = DOMAIN tasks \cup all /\ height' = height /\ phase' = phase
        /\ \A x \in DOMAIN tasks : tasks'[x] = tasks[x]
    BY <1>0, <1>4, ReportFacts DEF sendAsync
  <2>2. \A x \in all : x.type # HandleEpoch
    BY DEF Key, HandleEpoch, ValsetUpdate
  <2> HIDE DEF all
  <2>3. \A c \in Contracts : Untouched(c)
    BY <2>1, <2>2 DEF Untouched
  <2> QED
    BY <1>1, <2>1, <2>3
<1>5. ASSUME BeginEndBlock PROVE Service!Next
  <2>1. phase = "deliver" /\ phase' = "valset" /\ height' = height /\ tasks' = tasks
    BY <1>5 DEF BeginEndBlock, store
  <2>2. countdownBar' = countdownBar /\ requestedBar' = requestedBar
    BY <1>0, <1>2, <2>1, HiddenStep
  <2> QED
    BY <2>1, <2>2 DEF Service!Next, Service!Close
<1>6. ASSUME NEW k \in DOMAIN due, NEW built \in BOOLEAN, NEW fails \in BOOLEAN,
             SendValsetUpdate(k, built, fails)
      PROVE  UNCHANGED Service!vars
  <2>1. phase = "valset" /\ phase' = phase /\ height' = height /\ ExecTask(k, fails)
    BY <1>6 DEF SendValsetUpdate
  <2>2. k \in DOMAIN tasks /\ k.type = ValsetUpdate /\ due[k] = tasks[k]
    BY <2>1 DEF RInv, IInv, DueIsExact
  <2>3. ~Repeats(k)
    BY <2>2 DEF RInv, IInv, NoStaleTasks, Repeats
  <2>4. DOMAIN tasks' = DOMAIN tasks \ {k} /\ \A x \in DOMAIN tasks' : tasks'[x] = tasks[x]
    BY <1>0, <2>1, <2>3, ExecFacts
  <2>5. \A c \in Contracts : Untouched(c)
    BY <2>2, <2>4 DEF Untouched, HandleEpoch, ValsetUpdate
  <2> QED
    BY <1>1, <2>1, <2>5
<1>7. ASSUME NEW k \in DOMAIN due, NEW fails \in BOOLEAN, SendHandleEpoch(k, fails)
      PROVE  Service!Next
  <2>1. k.contract \in Contracts
    BY <1>0 DEF TypeOK, IsTaskStore, TaskKey
  <2> QED
    BY <1>7, <2>1, EpochStep DEF Service!Next
<1>8. ASSUME Commit PROVE Service!Next
  BY <1>8, CommitStep DEF Service!Next
<1>9. ASSUME (\E c \in Contracts : Instantiate(c)) \/ ClearPipedValsetOperations \/ Halt \/ UNCHANGED vars
      PROVE  UNCHANGED Service!vars
  <2>1. tasks' = tasks /\ height' = height /\ (phase' # "deliver") = (phase # "deliver")
    BY <1>9 DEF Instantiate, ClearPipedValsetOperations, Halt, PassDone, vars, store
  <2> QED
    BY <1>1, <1>2, <2>1
<1> QED
  BY <1>3, <1>4, <1>5, <1>6, <1>7, <1>8, <1>9 DEF Next, Deliver, EndBlocker

(* Initial states map to initial states. *)
LEMMA InitRefines == Init => Service!Init
<1> SUFFICES ASSUME Init PROVE Service!Init
  OBVIOUS
<1>1. DOMAIN tasks = {} /\ phase = "deliver"
  BY DEF Init, FreshChain, EmptyStore
<1>2. countdownBar = [c \in Contracts |-> -1] /\ requestedBar = {}
  BY <1>1 DEF countdownBar, requestedBar, RepeatingTasks, TasksOf
<1> QED
  BY <1>1, <1>2 DEF Service!Init, Service!Off

(* The scheduler implements the epoch service: a contract is called when   *)
(* its countdown runs out or it asked for a call, never otherwise, and no  *)
(* block is committed while one waits.                                     *)
THEOREM SchedulerImplementsService ==
  ASSUME EpochLength > 0 PROVE Spec => ImplementsEpochService
<1>1. Init => RInv
  BY InitRInv
<1>2. RInv /\ [Next]_vars => RInv'
  BY NextRInv
<1>3. RInv /\ RInv' /\ [Next]_vars => [Service!Next]_(Service!vars)
  BY StepRefines
<1>4. Init => Service!Init
  BY InitRefines
<1> QED
  BY <1>1, <1>2, <1>3, <1>4, PTL DEF Spec, ImplementsEpochService, Service!Spec
=============================================================================
