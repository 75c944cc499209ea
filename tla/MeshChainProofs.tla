--------------------------- MODULE MeshChainProofs --------------------------
(***************************************************************************)
(* The consumer chain as a whole, for any number of contracts, amounts,    *)
(* limits and failures: a block in which every call went well ends with    *)
(* each contract within its limit and all of them within the total, but    *)
(* for the stake that was left over from before a restart.  Every step but *)
(* a restart is a step of the scheduler or leaves it alone, so    *)
(* the invariants proved for Scheduler carry over.                         *)
(***************************************************************************)
EXTENDS MeshChain, SchedulerProofs

(* Stake above the limit is the business of a call: the one scheduled when *)
(* the limit was lowered, or the next one after a failure.                 *)
ExcessIsPending ==
  \A c \in Contracts :
    Removable(c) > Limit(c) => c \in missed \/ (c \in lowered /\ served[c] = 0)

(* Stake is in the amount of its contract, or older than the last restart. *)
StakeIsAccounted == \A c \in Contracts : stake[c] <= delegated[c] + leftover[c]

MeshInv == /\ IInv /\ BlockInv /\ LimitsInv
           /\ MeshTypeOK
           /\ NothingOutlivesItsLimit
           /\ ExcessIsPending
           /\ StakeIsAccounted

-----------------------------------------------------------------------------
(* A chain that starts, for the first time or from an export *)

Fresh ==
  /\ panicOnError \in BOOLEAN /\ height \in Nat /\ phase = "deliver" /\ deployed \subseteq Contracts
  /\ maxCap = [c \in {} |-> 0] /\ tasks = EmptyStore /\ piped = {}
  /\ due = EmptyStore /\ results = {} /\ recorded = {} /\ lowered = {}
  /\ owed = [c \in Contracts |-> {}] /\ reported = [c \in Contracts |-> {}]
  /\ served = [c \in Contracts |-> 0]

(* A chain that starts has nothing to settle. *)
LEMMA FreshInv == Fresh => IInv /\ BlockInv /\ LimitsInv
<1> SUFFICES ASSUME Fresh PROVE IInv /\ BlockInv /\ LimitsInv
  OBVIOUS
<1>1. TypeOK
  BY DEF Fresh, TypeOK, EmptyStore, IsTaskStore
<1>2. DOMAIN tasks = {} /\ DOMAIN maxCap = {} /\ ActiveContracts(maxCap) = {}
  BY DEF Fresh, EmptyStore, ActiveContracts
<1>3. IInv
  BY <1>1, <1>2 DEF Fresh, IInv, NoStaleTasks, WithinEpoch, OneRepeatingTask, RepeatingTasks, TasksOf,
                    ActiveContractsRebalance, DueIsExact
<1>4. BlockInv
  BY DEF Fresh, BlockInv, ReportsOwed, PipedIsFresh, ServedOnce, LoweredScheduled, NeverHalts
<1>5. SumFunctionOnSet(maxCap, DOMAIN maxCap) = 0
  BY <1>2, SumEmpty
<1>6. LimitsInv
  BY <1>2, <1>5, FS_EmptySet, TotalContractsMaxCapAssumption
  DEF LimitsInv, TasksHaveLimits, LimitsFitTotal
<1> QED
  BY <1>3, <1>4, <1>6

(* The same about the state after a restart. *)
LEMMA FreshInvNext == (Fresh => IInv /\ BlockInv /\ LimitsInv)'
BY FreshInv, PTL

(* The first start. *)
LEMMA MeshInitInv == MeshInit => MeshInv
<1> SUFFICES ASSUME MeshInit PROVE MeshInv
  OBVIOUS
<1>1. IInv /\ BlockInv /\ LimitsInv
  BY FreshInv DEF Fresh, MeshInit, FreshChain
<1>2. MeshTypeOK
  BY <1>1 DEF MeshInit, MeshTypeOK, IInv
<1>3. \A c \in Contracts : delegated[c] = 0 /\ stake[c] = 0 /\ Limit(c) = 0 /\ Removable(c) = 0
  BY DEF MeshInit, FreshChain, Limit, GetMaxCapLimit, HasMaxCapLimit, Removable, Lesser
<1>4. DOMAIN tasks = {}
  BY DEF MeshInit, FreshChain, EmptyStore
<1>5. NothingOutlivesItsLimit /\ ExcessIsPending
  BY <1>3, <1>4 DEF NothingOutlivesItsLimit, ExcessIsPending, TasksOf
<1>6. StakeIsAccounted
  BY <1>3 DEF MeshInit, StakeIsAccounted
<1> QED
  BY <1>1, <1>2, <1>5, <1>6 DEF MeshInv

-----------------------------------------------------------------------------
(* The ledger *)

(* Bonding changes both numbers of one contract by the same amount.        *)
LEMMA BondedFacts ==
  ASSUME MeshTypeOK, NEW c \in Contracts, NEW amt \in Int, Bonded(c, amt),
         delegated[c] + amt >= 0, stake[c] + amt >= 0
  PROVE  /\ delegated' \in [Contracts -> Nat] /\ stake' \in [Contracts -> Nat]
         /\ delegated'[c] = delegated[c] + amt /\ stake'[c] = stake[c] + amt
         /\ Lesser(delegated'[c], stake'[c]) = Lesser(delegated[c], stake[c]) + amt
         /\ Lesser(delegated'[c], stake'[c]) <= delegated'[c]
         /\ \A d \in Contracts : d # c => delegated'[d] = delegated[d] /\ stake'[d] = stake[d]
<1>1. delegated[c] \in Nat /\ stake[c] \in Nat
  BY DEF MeshTypeOK
<1>2. /\ delegated'[c] = delegated[c] + amt /\ stake'[c] = stake[c] + amt
      /\ \A d \in Contracts : d # c => delegated'[d] = delegated[d] /\ stake'[d] = stake[d]
  BY DEF Bonded, MeshTypeOK
<1>3. delegated[c] + amt \in Nat /\ stake[c] + amt \in Nat
  BY <1>1
<1>4. delegated' \in [Contracts -> Nat] /\ stake' \in [Contracts -> Nat]
  BY <1>3 DEF Bonded, MeshTypeOK
<1>5. /\ Lesser(delegated[c] + amt, stake[c] + amt) = Lesser(delegated[c], stake[c]) + amt
      /\ Lesser(delegated[c] + amt, stake[c] + amt) <= delegated[c] + amt
  BY <1>1 DEF Lesser
<1> QED
  BY <1>2, <1>4, <1>5

(* A limit is a natural number, also where none is set. *)
LEMMA LimitType ==
  ASSUME TypeOK, NEW c \in Contracts
  PROVE  Limit(c) \in Nat
BY DEF TypeOK, Limit, GetMaxCapLimit, HasMaxCapLimit

(* A call that succeeds leaves its contract within the limit.              *)
LEMMA CallSettles ==
  ASSUME MeshInv, NEW k \in DOMAIN due, HandleEpochOK(k)
  PROVE  LET c == k.contract IN
         /\ c \in Contracts
         /\ delegated' \in [Contracts -> Nat] /\ stake' \in [Contracts -> Nat]
         /\ Lesser(delegated'[c], stake'[c]) <= Limit(c)
         /\ delegated'[c] > 0 => HasMaxCapLimit(maxCap, c)
         /\ stake'[c] <= delegated'[c] + leftover[c]
         /\ \A d \in Contracts : d # c => delegated'[d] = delegated[d] /\ stake'[d] = stake[d]
<1> DEFINE c == k.contract
<1>1. c \in Contracts /\ MeshTypeOK /\ TypeOK
  BY DEF MeshInv, MeshTypeOK, TypeOK, IsTaskStore, TaskKey
<1>2. /\ delegated[c] \in Nat /\ stake[c] \in Nat /\ leftover[c] \in Nat /\ Limit(c) \in Nat
      /\ stake[c] <= delegated[c] + leftover[c]
  BY <1>1, LimitType DEF MeshTypeOK, MeshInv, StakeIsAccounted
<1>3. /\ Removable(c) = Lesser(delegated[c], stake[c])
      /\ Removable(c) \in Nat /\ Removable(c) <= delegated[c] /\ Removable(c) <= stake[c]
  BY <1>2 DEF Removable, Lesser
<1>4. delegated[c] > 0 => HasMaxCapLimit(maxCap, c)
  BY <1>1 DEF MeshInv, NothingOutlivesItsLimit
<1>5. ASSUME NEW amt \in 0 .. Removable(c), amt > 0 => CanUnbond(c, amt),
             Removable(c) - amt <= Limit(c), Bonded(c, -amt)
      PROVE  /\ delegated' \in [Contracts -> Nat] /\ stake' \in [Contracts -> Nat]
             /\ Lesser(delegated'[c], stake'[c]) <= Limit(c)
             /\ delegated'[c] > 0 => HasMaxCapLimit(maxCap, c)
             /\ stake'[c] <= delegated'[c] + leftover[c]
             /\ \A d \in Contracts : d # c => delegated'[d] = delegated[d] /\ stake'[d] = stake[d]
  <2>1. amt \in Nat /\ amt <= Removable(c) /\ -amt \in Int
    BY <1>3, <1>5
  <2>2. delegated[c] + (-amt) >= 0 /\ stake[c] + (-amt) >= 0
    BY <1>2, <1>3, <2>1
  <2> HIDE DEF c
  <2>3. /\ delegated' \in [Contracts -> Nat] /\ stake' \in [Contracts -> Nat]
        /\ delegated'[c] = delegated[c] + (-amt) /\ stake'[c] = stake[c] + (-amt)
        /\ Lesser(delegated'[c], stake'[c]) = Lesser(delegated[c], stake[c]) + (-amt)
        /\ \A d \in Contracts : d # c => delegated'[d] = delegated[d] /\ stake'[d] = stake[d]
    BY <1>1, <1>5, <2>1, <2>2, BondedFacts
  <2> QED
    BY <1>2, <1>3, <1>4, <1>5, <2>1, <2>3
<1>6. ASSUME NEW amt \in Amounts, CanBond(c, amt), Bonded(c, amt)
      PROVE  /\ delegated' \in [Contracts -> Nat] /\ stake' \in [Contracts -> Nat]
             /\ Lesser(delegated'[c], stake'[c]) <= Limit(c)
             /\ delegated'[c] > 0 => HasMaxCapLimit(maxCap, c)
             /\ stake'[c] <= delegated'[c] + leftover[c]
             /\ \A d \in Contracts : d # c => delegated'[d] = delegated[d] /\ stake'[d] = stake[d]
  <2>1. amt \in Nat
    BY AmountsAssumption
  <2>2. delegated[c] + amt >= 0 /\ stake[c] + amt >= 0
    BY <1>2, <2>1
  <2>3. HasMaxCapLimit(maxCap, c) /\ delegated[c] + amt <= Limit(c)
    BY <1>6 DEF CanBond
  <2> HIDE DEF c
  <2>4. /\ delegated' \in [Contracts -> Nat] /\ stake' \in [Contracts -> Nat]
        /\ delegated'[c] = delegated[c] + amt /\ stake'[c] = stake[c] + amt
        /\ Lesser(delegated'[c], stake'[c]) <= delegated'[c]
        /\ Lesser(delegated'[c], stake'[c]) = Lesser(delegated[c], stake[c]) + amt
        /\ \A d \in Contracts : d # c => delegated'[d] = delegated[d] /\ stake'[d] = stake[d]
    BY <1>1, <1>6, <2>1, <2>2, BondedFacts
  <2> QED
    BY <1>2, <1>3, <2>1, <2>3, <2>4
<1>7. \/ \E amt \in 0 .. Removable(c) :
             (amt > 0 => CanUnbond(c, amt)) /\ Removable(c) - amt <= Limit(c) /\ Bonded(c, -amt)
      \/ \E amt \in Amounts : CanBond(c, amt) /\ Bonded(c, amt)
  BY DEF HandleEpochOK
<1> QED
  BY <1>1, <1>5, <1>6, <1>7

-----------------------------------------------------------------------------
(* Preservation *)

(* Every step but a restart is a step of the scheduler or leaves it alone. *)
LEMMA MeshSteps ==
  ASSUME [MeshNext]_meshVars
  PROVE  [Next]_vars \/ RestartFromExport
<1>1. ASSUME NEW c \in Contracts, NEW amt \in Caps, SetMaxCap(c, amt) PROVE Next
  BY <1>1 DEF SetMaxCap, Next, Deliver
<1>2. ASSUME NEW k \in DOMAIN due, HandleEpochOK(k) \/ HandleEpochFails(k) PROVE Next
  BY <1>2 DEF HandleEpochOK, HandleEpochFails, Next, EndBlocker
<1>3. ASSUME NEW c \in Contracts, NEW amt \in Amounts, Bond(c, amt) \/ Unbond(c, amt) \/ Slash(c, amt)
      PROVE  UNCHANGED vars
  BY <1>3 DEF Bond, Unbond, Slash
<1>4. ASSUME NEW c \in Contracts, UndelegateMsg(c) PROVE UNCHANGED vars
  BY <1>4 DEF UndelegateMsg
<1>5. ASSUME UNCHANGED meshVars PROVE UNCHANGED vars
  BY <1>5 DEF meshVars
<1>6. BeginEndBlock \/ ClearPipedValsetOperations \/ Commit => Next
  BY DEF Next, EndBlocker
<1> QED
  BY <1>1, <1>2, <1>3, <1>4, <1>5, <1>6 DEF MeshNext, MeshEndBlocker

(* A restart from an export drops limits, tasks and amounts together. *)
LEMMA RestartInv ==
  ASSUME MeshInv, RestartFromExport
  PROVE  MeshInv'
<1>1. /\ phase' = "deliver" /\ height' = height + 1 /\ results' = {} /\ piped' = {}
      /\ maxCap' = [c \in {} |-> 0] /\ tasks' = EmptyStore /\ due' = EmptyStore
      /\ recorded' = {} /\ lowered' = {}
      /\ owed' = [c \in Contracts |-> {}] /\ reported' = [c \in Contracts |-> {}]
      /\ served' = [c \in Contracts |-> 0]
      /\ UNCHANGED <<panicOnError, deployed, stake>>
      /\ delegated' = [c \in Contracts |-> 0] /\ missed' = {} /\ leftover' = stake
  BY DEF RestartFromExport, PassDone, InitGenesis, NewBlockHistory
<1>2. panicOnError' \in BOOLEAN /\ height' \in Nat /\ deployed' \subseteq Contracts
  BY <1>1 DEF MeshInv, MeshTypeOK, TypeOK
<1>3. (IInv /\ BlockInv /\ LimitsInv)'
  BY <1>1, <1>2, FreshInvNext DEF Fresh
<1>4. MeshTypeOK'
  BY <1>1, <1>3 DEF MeshInv, MeshTypeOK, IInv
<1>5. ASSUME NEW c \in Contracts PROVE delegated'[c] = 0 /\ ~(Removable(c) > Limit(c))'
  BY <1>1 DEF Limit, GetMaxCapLimit, HasMaxCapLimit, Removable, Lesser, MeshInv, MeshTypeOK
<1>6. DOMAIN tasks' = {}
  BY <1>1 DEF EmptyStore
<1>7. (NothingOutlivesItsLimit /\ ExcessIsPending)'
  BY <1>5, <1>6 DEF NothingOutlivesItsLimit, ExcessIsPending, TasksOf
<1>8. StakeIsAccounted'
  BY <1>1 DEF StakeIsAccounted, MeshInv, MeshTypeOK
<1> QED
  BY <1>3, <1>4, <1>7, <1>8 DEF MeshInv

(* A step that leaves the scheduler alone and keeps c within its limit, if *)
(* it changes c's numbers, and all other numbers.                          *)
LEMMA LedgerStep ==
  ASSUME MeshInv, UNCHANGED vars, missed' = missed, NEW c \in Contracts,
         delegated' \in [Contracts -> Nat], stake' \in [Contracts -> Nat],
         delegated'[c] > delegated[c] => HasMaxCapLimit(maxCap, c),
         \/ Lesser(delegated'[c], stake'[c]) <= Limit(c)
         \/ Lesser(delegated'[c], stake'[c]) <= Lesser(delegated[c], stake[c]),
         leftover' \in [Contracts -> Nat], stake'[c] <= delegated'[c] + leftover'[c],
         \A d \in Contracts : d # c => delegated'[d] = delegated[d] /\ stake'[d] = stake[d]
                                       /\ leftover'[d] = leftover[d]
  PROVE  (MeshTypeOK /\ NothingOutlivesItsLimit /\ ExcessIsPending /\ StakeIsAccounted)'
<1>1. UNCHANGED <<maxCap, tasks, lowered, served>> /\ TypeOK /\ TypeOK'
  BY DEF vars, store, history, MeshInv, MeshTypeOK, TypeOK
<1>2. MeshTypeOK'
  BY <1>1 DEF MeshInv, MeshTypeOK
<1>3. NothingOutlivesItsLimit'
  <2>1. delegated[c] \in Nat /\ delegated'[c] \in Nat
    BY DEF MeshInv, MeshTypeOK
  <2>2. \A d \in Contracts : delegated'[d] > 0 => HasMaxCapLimit(maxCap, d)
    BY <2>1 DEF MeshInv, NothingOutlivesItsLimit
  <2> QED
    BY <1>1, <2>2 DEF MeshInv, NothingOutlivesItsLimit
<1>4. ASSUME NEW d \in Contracts, (Removable(d) > Limit(d))'
      PROVE  d \in missed \/ (d \in lowered /\ served[d] = 0)
  <2>1. /\ Limit(d)' = Limit(d) /\ Removable(d)' = Lesser(delegated'[d], stake'[d])
        /\ Removable(d) = Lesser(delegated[d], stake[d])
    BY <1>1 DEF Limit, Removable
  <2>2. Removable(d) \in Nat /\ Removable(d)' \in Nat /\ Limit(d) \in Nat
    BY <1>1, <2>1, LimitType DEF Lesser, MeshInv, MeshTypeOK
  <2>3. Removable(d) > Limit(d)
    BY <1>4, <2>1, <2>2
  <2> QED
    BY <2>3 DEF MeshInv, ExcessIsPending
<1>5. ExcessIsPending'
  BY <1>1, <1>4 DEF ExcessIsPending
<1>6. StakeIsAccounted'
  BY DEF MeshInv, StakeIsAccounted
<1> QED
  BY <1>2, <1>3, <1>5, <1>6

(* Bonds, unbonds, staking messages and slashes.                           *)
LEMMA MessageInv ==
  ASSUME MeshInv, NEW c \in Contracts, NEW amt \in Nat \ {0},
         Bond(c, amt) \/ Unbond(c, amt) \/ Slash(c, amt) \/ UndelegateMsg(c)
  PROVE  (MeshTypeOK /\ NothingOutlivesItsLimit /\ ExcessIsPending /\ StakeIsAccounted)'
<1>1. MeshTypeOK /\ TypeOK /\ amt \in Nat /\ amt > 0 /\ -amt \in Int
  BY DEF MeshInv, MeshTypeOK
<1>2. /\ delegated[c] \in Nat /\ stake[c] \in Nat /\ leftover[c] \in Nat /\ Limit(c) \in Nat
      /\ stake[c] <= delegated[c] + leftover[c]
  BY <1>1, LimitType DEF MeshTypeOK, MeshInv, StakeIsAccounted
<1>3. /\ UNCHANGED vars /\ missed' = missed
      /\ leftover' \in [Contracts -> Nat] /\ \A d \in Contracts : d # c => leftover'[d] = leftover[d]
      /\ leftover'[c] = IF UndelegateMsg(c) THEN 0 ELSE leftover[c]
  <2>1. CASE UndelegateMsg(c)
    BY <1>1, <2>1 DEF UndelegateMsg, MeshTypeOK
  <2>2. CASE ~UndelegateMsg(c)
    BY <1>1, <2>2 DEF Bond, Unbond, Slash, seen, MeshTypeOK
  <2> QED
    BY <2>1, <2>2
<1>4. CASE Bond(c, amt)
  <2>1. /\ HasMaxCapLimit(maxCap, c) /\ delegated[c] + amt <= Limit(c)
        /\ Bonded(c, amt) /\ delegated[c] + amt >= 0 /\ stake[c] + amt >= 0
    BY <1>1, <1>2, <1>4 DEF Bond, CanBond
  <2>2. /\ delegated' \in [Contracts -> Nat] /\ stake' \in [Contracts -> Nat]
        /\ delegated'[c] = delegated[c] + amt /\ stake'[c] = stake[c] + amt
        /\ Lesser(delegated'[c], stake'[c]) <= delegated'[c]
        /\ Lesser(delegated'[c], stake'[c]) = Lesser(delegated[c], stake[c]) + amt
        /\ \A d \in Contracts : d # c => delegated'[d] = delegated[d] /\ stake'[d] = stake[d]
    BY <1>1, <2>1, BondedFacts
  <2>3. Lesser(delegated[c], stake[c]) \in Nat
    BY <1>2 DEF Lesser
  <2>4. Lesser(delegated'[c], stake'[c]) <= Limit(c)
    BY <1>1, <1>2, <2>1, <2>2, <2>3
  <2>5. stake'[c] <= delegated'[c] + leftover'[c] /\ (delegated'[c] > delegated[c] => HasMaxCapLimit(maxCap, c))
    <3>1. leftover'[c] = leftover[c]
      BY <1>3, <1>4 DEF Bond, seen
    <3> QED
      BY <1>1, <1>2, <2>1, <2>2, <3>1
  <2> QED
    BY <1>3, <2>2, <2>4, <2>5, LedgerStep
<1>5. CASE Unbond(c, amt)
  <2>1. Bonded(c, -amt) /\ amt <= Lesser(delegated[c], stake[c])
    BY <1>5 DEF Unbond, CanUnbond, Removable
  <2>2. delegated[c] + (-amt) >= 0 /\ stake[c] + (-amt) >= 0 /\ Lesser(delegated[c], stake[c]) \in Nat
    BY <1>1, <1>2, <2>1 DEF Lesser
  <2>3. /\ delegated' \in [Contracts -> Nat] /\ stake' \in [Contracts -> Nat]
        /\ delegated'[c] = delegated[c] + (-amt) /\ stake'[c] = stake[c] + (-amt)
        /\ Lesser(delegated'[c], stake'[c]) = Lesser(delegated[c], stake[c]) + (-amt)
        /\ \A d \in Contracts : d # c => delegated'[d] = delegated[d] /\ stake'[d] = stake[d]
    BY <1>1, <2>1, <2>2, BondedFacts
  <2>4. ~(delegated'[c] > delegated[c]) /\ Lesser(delegated'[c], stake'[c]) <= Lesser(delegated[c], stake[c])
    BY <1>1, <1>2, <2>2, <2>3
  <2>5. stake'[c] <= delegated'[c] + leftover'[c]
    <3>1. leftover'[c] = leftover[c]
      BY <1>5 DEF Unbond, seen
    <3> QED
      BY <1>1, <1>2, <2>3, <3>1
  <2> QED
    BY <1>3, <2>3, <2>4, <2>5, LedgerStep
<1>6. CASE Slash(c, amt) \/ UndelegateMsg(c)
  <2>1. /\ stake' \in [Contracts -> Nat] /\ stake'[c] <= stake[c]
        /\ \A d \in Contracts : d # c => stake'[d] = stake[d]
    <3>1. CASE Slash(c, amt)
      <4>1. stake[c] - amt \in Nat /\ stake[c] - amt <= stake[c]
        BY <1>1, <1>2, <3>1 DEF Slash
      <4> QED
        BY <1>1, <3>1, <4>1 DEF Slash, MeshTypeOK
    <3>2. CASE UndelegateMsg(c)
      BY <1>1, <1>2, <3>2 DEF UndelegateMsg, MeshTypeOK
    <3> QED
      BY <1>6, <3>1, <3>2
  <2>2. delegated' = delegated /\ delegated \in [Contracts -> Nat]
    BY <1>1, <1>6 DEF Slash, UndelegateMsg, MeshTypeOK
  <2>3. ~(delegated'[c] > delegated[c]) /\ Lesser(delegated'[c], stake'[c]) <= Lesser(delegated[c], stake[c])
    BY <1>2, <2>1, <2>2 DEF Lesser
  <2>4. stake'[c] <= delegated'[c] + leftover'[c]
    <3>1. CASE Slash(c, amt)
      <4>1. leftover'[c] = leftover[c]
        BY <3>1 DEF Slash, seen
      <4>2. stake'[c] \in Nat
        BY <2>1
      <4> QED
        BY <1>2, <2>1, <2>2, <4>1, <4>2
    <3>2. CASE UndelegateMsg(c)
      <4>1. stake'[c] = 0 /\ leftover'[c] = 0
        BY <1>1, <3>2 DEF UndelegateMsg, MeshTypeOK
      <4> QED
        BY <1>2, <2>2, <4>1
    <3> QED
      BY <1>6, <3>1, <3>2
  <2> QED
    BY <1>3, <2>1, <2>2, <2>3, <2>4, LedgerStep
<1> QED
  BY <1>4, <1>5, <1>6

(* Calls.                                                                  *)
LEMMA CallInv ==
  ASSUME MeshInv, IInv', LimitsInv', NEW k \in DOMAIN due, HandleEpochOK(k) \/ HandleEpochFails(k)
  PROVE  (MeshTypeOK /\ NothingOutlivesItsLimit /\ ExcessIsPending /\ StakeIsAccounted)'
<1> DEFINE c == k.contract
<1>1. /\ UNCHANGED <<maxCap, lowered>>
      /\ served' = [served EXCEPT ![c] = @ + 1]
  BY DEF HandleEpochOK, HandleEpochFails, SendHandleEpoch
<1>2. /\ c \in Contracts /\ TypeOK /\ TypeOK' /\ missed \subseteq Contracts
      /\ delegated \in [Contracts -> Nat] /\ stake \in [Contracts -> Nat]
  BY DEF MeshInv, MeshTypeOK, IInv, TypeOK, IsTaskStore, TaskKey
<1>3. /\ missed' \subseteq Contracts /\ missed \ {c} \subseteq missed'
      /\ HandleEpochFails(k) => c \in missed'
      /\ leftover' = leftover /\ leftover \in [Contracts -> Nat]
  BY <1>2 DEF HandleEpochOK, HandleEpochFails, MeshInv, MeshTypeOK
<1>4. /\ delegated' \in [Contracts -> Nat] /\ stake' \in [Contracts -> Nat]
      /\ c \in missed' \/ Lesser(delegated'[c], stake'[c]) <= Limit(c)
      /\ delegated'[c] > 0 => HasMaxCapLimit(maxCap, c)
      /\ stake'[c] <= delegated'[c] + leftover[c]
      /\ \A d \in Contracts : d # c => delegated'[d] = delegated[d] /\ stake'[d] = stake[d]
  <2>1. CASE HandleEpochOK(k)
    BY <2>1, CallSettles
  <2>2. CASE HandleEpochFails(k)
    <3>1. UNCHANGED <<delegated, stake>>
      BY <2>2 DEF HandleEpochFails, ledger
    <3> QED
      BY <1>2, <1>3, <2>2, <3>1 DEF MeshInv, NothingOutlivesItsLimit, StakeIsAccounted
  <2> QED
    BY <2>1, <2>2
<1> HIDE DEF c
<1>5. MeshTypeOK'
  BY <1>2, <1>3, <1>4 DEF MeshTypeOK
<1>6. NothingOutlivesItsLimit'
  <2>1. \A d \in Contracts : delegated'[d] > 0 => HasMaxCapLimit(maxCap, d)
    BY <1>4 DEF MeshInv, NothingOutlivesItsLimit
  <2>2. \A d \in Contracts : TasksOf(tasks', HandleEpoch, d) # {} => HasMaxCapLimit(maxCap', d)
    BY DEF LimitsInv, TasksHaveLimits, TasksOf, HasMaxCapLimit
  <2> QED
    BY <1>1, <2>1, <2>2 DEF NothingOutlivesItsLimit
<1>7. ASSUME NEW d \in Contracts, (Removable(d) > Limit(d))'
      PROVE  d \in missed' \/ (d \in lowered' /\ served'[d] = 0)
  <2>1. Limit(d)' = Limit(d) /\ Removable(d)' = Lesser(delegated'[d], stake'[d]) /\ Limit(d) \in Nat
    BY <1>1, <1>2, LimitType DEF Limit, Removable
  <2>2. CASE d = c
    <3>1. Lesser(delegated'[d], stake'[d]) \in Nat
      BY <1>4 DEF Lesser
    <3> QED
      BY <1>4, <1>7, <2>1, <2>2, <3>1
  <2>3. CASE d # c
    <3>1. Removable(d) > Limit(d)
      BY <1>4, <1>7, <2>1, <2>3 DEF Removable
    <3>2. d \in missed \/ (d \in lowered /\ served[d] = 0)
      BY <3>1 DEF MeshInv, ExcessIsPending
    <3>3. served'[d] = served[d]
      BY <1>1, <1>2, <2>3 DEF TypeOK
    <3> QED
      BY <1>1, <1>3, <2>3, <3>2, <3>3
  <2> QED
    BY <2>2, <2>3
<1>8. StakeIsAccounted'
  BY <1>3, <1>4 DEF MeshInv, StakeIsAccounted
<1> QED
  BY <1>5, <1>6, <1>7, <1>8 DEF ExcessIsPending

(* A changed limit.                                                        *)
LEMMA SetMaxCapInv ==
  ASSUME MeshInv, IInv', LimitsInv', NEW c \in Contracts, NEW amt \in Caps, SetMaxCap(c, amt)
  PROVE  (MeshTypeOK /\ NothingOutlivesItsLimit /\ ExcessIsPending /\ StakeIsAccounted)'
<1>1. /\ phase = "deliver" /\ maxCap' = SetMaxCapLimit(maxCap, c, amt) /\ served' = served
      /\ lowered' = IF amt < GetMaxCapLimit(maxCap, c) THEN lowered \cup {c} ELSE lowered
      /\ UNCHANGED <<delegated, stake, missed, leftover>>
  BY DEF SetMaxCap, SetVirtualStakingMaxCap, ledger, seen
<1>2. TypeOK /\ TypeOK' /\ amt \in Nat
  BY CapsAssumption DEF MeshInv, IInv
<1>3. MeshTypeOK'
  BY <1>1, <1>2 DEF MeshInv, MeshTypeOK
<1>4. NothingOutlivesItsLimit'
  <2>1. DOMAIN maxCap \subseteq DOMAIN maxCap'
    BY <1>1 DEF SetMaxCapLimit
  <2>2. \A d \in Contracts : delegated'[d] > 0 => HasMaxCapLimit(maxCap', d)
    BY <1>1, <2>1 DEF MeshInv, NothingOutlivesItsLimit, HasMaxCapLimit
  <2>3. \A d \in Contracts : TasksOf(tasks', HandleEpoch, d) # {} => HasMaxCapLimit(maxCap', d)
    BY DEF LimitsInv, TasksHaveLimits, TasksOf, HasMaxCapLimit
  <2> QED
    BY <2>2, <2>3 DEF NothingOutlivesItsLimit
<1>5. ASSUME NEW d \in Contracts, (Removable(d) > Limit(d))'
      PROVE  d \in missed' \/ (d \in lowered' /\ served'[d] = 0)
  <2>1. /\ Removable(d)' = Removable(d) /\ served[d] = 0
        /\ Limit(d)' = IF d = c THEN amt ELSE Limit(d)
    BY <1>1 DEF Removable, Limit, GetMaxCapLimit, HasMaxCapLimit, SetMaxCapLimit, MeshInv, BlockInv, ServedOnce
  <2>2. Removable(d) \in Nat /\ Limit(d) \in Nat
    BY <1>2, LimitType DEF Removable, Lesser, MeshInv, MeshTypeOK
  <2>3. CASE d = c /\ amt < Limit(d)
    BY <1>1, <2>1, <2>3 DEF Limit
  <2>4. CASE ~(d = c /\ amt < Limit(d))
    <3>1. Removable(d) > Limit(d)
      BY <1>2, <1>5, <2>1, <2>2, <2>4
    <3> QED
      BY <1>1, <3>1 DEF MeshInv, ExcessIsPending
  <2> QED
    BY <2>3, <2>4
<1>6. StakeIsAccounted'
  BY <1>1 DEF MeshInv, StakeIsAccounted
<1> QED
  BY <1>3, <1>4, <1>5, <1>6 DEF ExcessIsPending

(* Every step of the chain keeps the invariant. *)
LEMMA MeshNextInv == MeshInv /\ [MeshNext]_meshVars => MeshInv'
<1> SUFFICES ASSUME MeshInv, [MeshNext]_meshVars, ~RestartFromExport PROVE MeshInv'
  BY RestartInv
<1>1. IInv' /\ BlockInv' /\ LimitsInv'
  BY MeshSteps, NextIInv, NextBlockInv, NextLimitsInv DEF MeshInv
<1> DEFINE Ledger == MeshTypeOK /\ NothingOutlivesItsLimit /\ ExcessIsPending /\ StakeIsAccounted
<1>2. ASSUME NEW c \in Contracts, NEW amt \in Caps, SetMaxCap(c, amt) PROVE Ledger'
  BY <1>1, <1>2, SetMaxCapInv
<1>3. ASSUME NEW c \in Contracts, NEW amt \in Amounts, Bond(c, amt) \/ Unbond(c, amt) \/ Slash(c, amt)
      PROVE  Ledger'
  BY <1>3, MessageInv, AmountsAssumption
<1>4. ASSUME NEW c \in Contracts, UndelegateMsg(c) PROVE Ledger'
  <2>1. 1 \in Nat \ {0}
    OBVIOUS
  <2> QED
    BY <1>4, <2>1, MessageInv
<1>5. ASSUME NEW k \in DOMAIN due, HandleEpochOK(k) \/ HandleEpochFails(k) PROVE Ledger'
  BY <1>1, <1>5, CallInv
<1>6. ASSUME UNCHANGED <<maxCap, tasks, delegated, stake, missed, leftover>>,
             \A c \in lowered : served[c] = 0 => c \in lowered' /\ served'[c] = 0
      PROVE  Ledger'
  <2>1. \A c \in Contracts : Removable(c)' = Removable(c) /\ Limit(c)' = Limit(c)
    BY <1>6 DEF Removable, Limit
  <2>2. MeshTypeOK'
    BY <1>1, <1>6 DEF MeshInv, MeshTypeOK, IInv
  <2>3. NothingOutlivesItsLimit'
    BY <1>6 DEF MeshInv, NothingOutlivesItsLimit
  <2>4. ExcessIsPending'
    BY <1>6, <2>1 DEF MeshInv, ExcessIsPending
  <2>5. StakeIsAccounted'
    BY <1>6 DEF MeshInv, StakeIsAccounted
  <2> QED
    BY <2>2, <2>3, <2>4, <2>5
<1>7. ASSUME BeginEndBlock \/ ClearPipedValsetOperations, UNCHANGED <<ledger, seen, counts>>
      PROVE  Ledger'
  BY <1>6, <1>7 DEF BeginEndBlock, ClearPipedValsetOperations, store, history, ledger, seen
<1>8. ASSUME Commit, UNCHANGED <<ledger, seen, counts>> PROVE Ledger'
  <2>1. phase = "epoch" /\ DOMAIN due = {} /\ maxCap' = maxCap /\ tasks' = tasks
    BY <1>8 DEF Commit, PassDone, EmptyStore, store
  <2>2. \A c \in lowered : served[c] # 0
    BY <2>1 DEF MeshInv, BlockInv, LoweredScheduled
  <2> QED
    BY <1>6, <1>8, <2>1, <2>2 DEF ledger, seen
<1>9. ASSUME UNCHANGED meshVars PROVE Ledger'
  BY <1>6, <1>9 DEF meshVars, vars, store, history, ledger, seen
<1> QED
  <2>1. Ledger'
    <3> HIDE DEF Ledger
    <3> QED
      BY <1>2, <1>3, <1>4, <1>5, <1>7, <1>8, <1>9 DEF MeshNext, MeshEndBlocker
  <2> QED
    BY <1>1, <2>1 DEF MeshInv

(* The invariant of the chain. *)
LEMMA MeshInvariance == MeshSpec => []MeshInv
BY MeshInitInv, MeshNextInv, PTL DEF MeshSpec

-----------------------------------------------------------------------------
(* The theorems *)

(* Amounts and stake never become negative, whatever is bonded, unbonded   *)
(* and slashed in which order.                                             *)
THEOREM MeshTypeCorrect == MeshSpec => []MeshTypeOK
<1>1. MeshInv => MeshTypeOK
  BY DEF MeshInv
<1> QED
  BY <1>1, MeshInvariance, PTL

(* Amounts, tasks and limits agree, across restarts from an export too.    *)
THEOREM StoreStaysConsistent == MeshSpec => []NothingOutlivesItsLimit
<1>1. MeshInv => NothingOutlivesItsLimit
  BY DEF MeshInv
<1> QED
  BY <1>1, MeshInvariance, PTL

(* A block ends with stake above a limit only after a failed call.         *)
LEMMA EndOfBlock ==
  ASSUME MeshInv, [MeshNext]_meshVars, height' # height, NEW c \in Contracts,
         stake[c] > Limit(c) + leftover[c]
  PROVE  c \in missed
<1>1. phase = "epoch" /\ DOMAIN due = {}
  <2>1. CASE RestartFromExport
    BY <2>1 DEF RestartFromExport, PassDone, EmptyStore
  <2>2. CASE [Next]_vars
    <3>1. Commit
      BY <2>2 DEF Next, Deliver, EndBlocker, Instantiate, SetVirtualStakingMaxCap, sendAsync, BeginEndBlock,
                  SendValsetUpdate, ClearPipedValsetOperations, SendHandleEpoch, Halt, vars
    <3> QED
      BY <3>1 DEF Commit, PassDone, EmptyStore
  <2> QED
    BY <2>1, <2>2, MeshSteps
<1>2. \A d \in lowered : served[d] # 0
  BY <1>1 DEF MeshInv, BlockInv, LoweredScheduled
<1>3. Removable(c) > Limit(c)
  <2>1. /\ delegated[c] \in Nat /\ stake[c] \in Nat /\ leftover[c] \in Nat /\ Limit(c) \in Nat
        /\ stake[c] <= delegated[c] + leftover[c]
    BY LimitType DEF MeshInv, MeshTypeOK, StakeIsAccounted
  <2> QED
    BY <2>1 DEF Removable, Lesser
<1> QED
  BY <1>2, <1>3 DEF MeshInv, ExcessIsPending

(* A block ends with a contract's stake above its limit, not counting what *)
(* was left over from before a restart, only if the latest handle_epoch    *)
(* call on it failed: however limits are moved between contracts while     *)
(* these bond and are slashed.                                             *)
THEOREM ExcessNeedsFailedCall == MeshSpec => ExcessMeansFailedCall
<1> DEFINE P == height' # height =>
                  \A c \in Contracts : stake[c] > Limit(c) + leftover[c] => c \in missed
<1>1. MeshInv /\ [MeshNext]_meshVars => [P]_meshVars
  BY EndOfBlock
<1> QED
  BY <1>1, MeshInvariance, PTL DEF MeshSpec, ExcessMeansFailedCall

(* A block in which every call went well ends with the stake of all        *)
(* contracts together within the total and what was left over from before  *)
(* a restart, for any finite number of contracts.                          *)
THEOREM StakeStaysWithinTotal ==
  ASSUME IsFiniteSet(Contracts) PROVE MeshSpec => StakeFitsTotal
<1> DEFINE P == height' # height /\ missed = {} =>
                  SumFunction(stake) <= TotalContractsMaxCap + SumFunction(leftover)
<1>1. MeshInv /\ [MeshNext]_meshVars => [P]_meshVars
  <2> SUFFICES ASSUME MeshInv, [MeshNext]_meshVars, height' # height, missed = {}
               PROVE  SumFunction(stake) <= TotalContractsMaxCap + SumFunction(leftover)
    OBVIOUS
  <2> DEFINE limits == [c \in Contracts |-> Limit(c)]
             Total(f, S) == SumFunctionOnSet(f, S)
  <2>1. /\ DOMAIN maxCap \subseteq Contracts /\ maxCap \in [DOMAIN maxCap -> Nat] /\ TypeOK
        /\ stake \in [Contracts -> Nat] /\ leftover \in [Contracts -> Nat]
    BY DEF MeshInv, MeshTypeOK, TypeOK
  <2>2. \A c \in Contracts : limits[c] \in Nat /\ (c \notin DOMAIN maxCap => limits[c] = 0)
    BY <2>1, LimitType DEF Limit, GetMaxCapLimit, HasMaxCapLimit
  <2>3. ASSUME NEW c \in Contracts PROVE stake[c] <= limits[c] + leftover[c]
    <3>1. ~(stake[c] > Limit(c) + leftover[c])
      BY EndOfBlock
    <3>2. Limit(c) \in Nat /\ stake[c] \in Nat /\ leftover[c] \in Nat
      BY <2>1, LimitType
    <3> QED
      BY <3>1, <3>2
  <2>4. IsFiniteSet(DOMAIN maxCap) /\ Total(maxCap, DOMAIN maxCap) <= TotalContractsMaxCap
    BY DEF MeshInv, LimitsInv, LimitsFitTotal
  <2>5. \A c \in DOMAIN maxCap : limits[c] = maxCap[c] /\ maxCap[c] \in Int
    BY <2>1 DEF Limit, GetMaxCapLimit, HasMaxCapLimit
  <2> HIDE DEF limits
  <2>6. Total(limits, Contracts) = Total(limits, DOMAIN maxCap)
    BY <2>1, <2>2, SumOfNonzero
  <2>7. Total(limits, DOMAIN maxCap) = Total(maxCap, DOMAIN maxCap)
    BY <2>4, <2>5, SumSame
  <2>8. Total(stake, Contracts) <= Total(limits, Contracts) + Total(leftover, Contracts)
    BY <2>1, <2>2, <2>3, SumOfTwo
  <2>9. Total(stake, Contracts) \in Int /\ Total(limits, Contracts) \in Int /\ Total(leftover, Contracts) \in Int
    BY <2>1, <2>2, SumFacts
  <2>10. SumFunction(stake) = Total(stake, Contracts) /\ SumFunction(leftover) = Total(leftover, Contracts)
    BY <2>1 DEF SumFunction
  <2> HIDE DEF Total
  <2> QED
    BY <2>4, <2>6, <2>7, <2>8, <2>9, <2>10, TotalContractsMaxCapAssumption
<1> QED
  BY <1>1, MeshInvariance, PTL DEF MeshSpec, StakeFitsTotal

=============================================================================
