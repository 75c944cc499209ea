----------------------------- MODULE MeshChain ------------------------------
(***************************************************************************)
(* The consumer side as a whole: governance sets limits, contracts bond    *)
(* and unbond virtual stake within them, the scheduler calls handle_epoch, *)
(* and the chain is restarted from an export now and then.                 *)
(*                                                                         *)
(* Scheduler gives the blocks and the tasks (validator set reports are     *)
(* left out: Ops is empty); the ledger of each contract is kept in whole   *)
(* tokens, as VirtualLedger has it, with the stake x/staking keeps for the *)
(* contract next to it.  demo/app/app.go builds the module with the        *)
(* default response handler.                                               *)
(***************************************************************************)
EXTENDS Scheduler

CONSTANTS
  Amounts,       \* amounts of bonds, unbonds and slashes
  MaxFailures,   \* bound: handle_epoch calls that fail
  MaxSlashes,    \* bound: slashes
  MaxRestarts    \* bound: restarts from an export

ASSUME AmountsAssumption == Amounts \subseteq Nat \ {0}
ASSUME BoundsAssumption  == /\ MaxFailures \in Nat /\ MaxSlashes \in Nat
                            /\ MaxRestarts \in Nat /\ Ops = {}

VARIABLES
  delegated,   \* total delegated amounts (KV store)
  stake,       \* stake[c]: worth of c's delegations at x/staking
  missed,      \* history: contracts whose latest handle_epoch call failed
  leftover,    \* history: leftover[c]: stake whose amount a restart dropped
  failures, slashes, restarts   \* counted against the bounds

ledger  == <<delegated, stake>>
counts  == <<failures, slashes, restarts>>
seen    == <<missed, leftover>>
meshVars == <<vars, ledger, seen, counts>>

MeshTypeOK ==
  /\ TypeOK
  /\ delegated \in [Contracts -> Nat]
  /\ stake \in [Contracts -> Nat]
  /\ missed \subseteq Contracts
  /\ leftover \in [Contracts -> Nat]

MeshInit ==
  /\ FreshChain(Contracts)
  /\ panicOnError = FALSE
  /\ delegated = [c \in Contracts |-> 0]
  /\ stake = [c \in Contracts |-> 0]
  /\ missed = {}
  /\ leftover = [c \in Contracts |-> 0]
  /\ failures = 0 /\ slashes = 0 /\ restarts = 0

Lesser(x, y) == IF x < y THEN x ELSE y

(* What c may still unbond: Undelegate wants both. *)
Removable(c) == Lesser(delegated[c], stake[c])
Limit(c)     == GetMaxCapLimit(maxCap, c)

-----------------------------------------------------------------------------
(* Messages of a contract *)

(* Variant: the limit is compared with the new amount only. *)
CanBond_AmountOnly(c, amt) == HasMaxCapLimit(maxCap, c) /\ amt <= Limit(c)

CanBond(c, amt) == HasMaxCapLimit(maxCap, c) /\ delegated[c] + amt <= Limit(c)

(* Variant: only the total delegated amount is compared. *)
CanUnbond_Unslashed(c, amt) == HasMaxCapLimit(maxCap, c) /\ amt <= delegated[c]

CanUnbond(c, amt) == HasMaxCapLimit(maxCap, c) /\ amt <= Removable(c)

Bonded(c, amt) ==
  /\ delegated' = [delegated EXCEPT ![c] = @ + amt]
  /\ stake' = [stake EXCEPT ![c] = @ + amt]

Bond(c, amt) ==
  /\ phase = "deliver"
  /\ CanBond(c, amt)
  /\ Bonded(c, amt)
  /\ UNCHANGED <<vars, seen, counts>>

Unbond(c, amt) ==
  /\ phase = "deliver"
  /\ CanUnbond(c, amt)
  /\ Bonded(c, -amt)
  /\ UNCHANGED <<vars, seen, counts>>

(* A staking message of the contract: IntegrityHandler passes it on when   *)
(* the contract has no limit.  It undelegates all it has.                  *)
UndelegateMsg(c) ==
  /\ phase = "deliver"
  /\ ~HasMaxCapLimit(maxCap, c)
  /\ stake[c] > 0
  /\ stake' = [stake EXCEPT ![c] = 0]
  /\ leftover' = [leftover EXCEPT ![c] = 0]
  /\ UNCHANGED <<vars, delegated, missed, counts>>

-----------------------------------------------------------------------------
(* Governance, blocks and slashing *)

SetMaxCap(c, amt) ==
  /\ SetVirtualStakingMaxCap(c, amt)
  /\ UNCHANGED <<ledger, seen, counts>>

(* The validators lose tokens; the total delegated amount is not touched. *)
Slash(c, amt) ==
  /\ phase = "deliver"
  /\ slashes < MaxSlashes
  /\ amt <= stake[c]
  /\ stake' = [stake EXCEPT ![c] = @ - amt]
  /\ slashes' = slashes + 1
  /\ UNCHANGED <<vars, delegated, seen, failures, restarts>>

(* handle_epoch succeeds: the contract (external) unbonds until nothing it *)
(* can unbond is above the limit, or bonds more.                           *)
HandleEpochOK(k) ==
  /\ SendHandleEpoch(k, FALSE)
  /\ LET c == k.contract IN
     /\ \/ \E amt \in 0 .. Removable(c) :
             /\ amt > 0 => CanUnbond(c, amt)
             /\ Removable(c) - amt <= Limit(c)
             /\ Bonded(c, -amt)
        \/ \E amt \in Amounts : CanBond(c, amt) /\ Bonded(c, amt)
     /\ missed' = missed \ {c}
  /\ UNCHANGED <<leftover, counts>>

(* handle_epoch fails, panics or runs out of gas: what it did is dropped. *)
HandleEpochFails(k) ==
  /\ failures < MaxFailures
  /\ SendHandleEpoch(k, TRUE)
  /\ missed' = missed \cup {k.contract}
  /\ failures' = failures + 1
  /\ UNCHANGED <<ledger, leftover, slashes, restarts>>

(* Variant: the amounts are exported and the limits are not. *)
InitGenesis_KeepsAmounts ==
  /\ maxCap' = [c \in {} |-> 0]
  /\ tasks' = EmptyStore
  /\ piped' = {}
  /\ UNCHANGED delegated

(* ExportGenesis writes the parameters and InitGenesis reads them: nothing *)
(* else of the module's stores is in the genesis file.                     *)
InitGenesis ==
  /\ maxCap' = [c \in {} |-> 0]
  /\ tasks' = EmptyStore
  /\ piped' = {}
  /\ delegated' = [c \in Contracts |-> 0]

(* The chain is stopped after a commit, exported and started again at the  *)
(* next height.  x/wasm and x/staking export their contracts and           *)
(* delegations, so the stake is still there and its amount is not.         *)
RestartFromExport ==
  /\ restarts < MaxRestarts
  /\ PassDone("epoch")
  /\ ResponsesAccepted
  /\ phase' = "deliver"
  /\ height' = height + 1
  /\ results' = {}
  /\ InitGenesis
  /\ NewBlockHistory
  /\ missed' = {}
  /\ leftover' = stake
  /\ restarts' = restarts + 1
  /\ UNCHANGED <<panicOnError, deployed, due, stake, failures, slashes>>

MeshEndBlocker ==
  \/ BeginEndBlock /\ UNCHANGED <<ledger, seen, counts>>
  \/ ClearPipedValsetOperations /\ UNCHANGED <<ledger, seen, counts>>
  \/ \E k \in DOMAIN due : HandleEpochOK(k)
  \/ \E k \in DOMAIN due : HandleEpochFails(k)
  \/ Commit /\ UNCHANGED <<ledger, seen, counts>>
  \/ RestartFromExport

MeshNext ==
  \/ \E c \in Contracts, amt \in Caps : SetMaxCap(c, amt)
  \/ \E c \in Contracts, amt \in Amounts : Bond(c, amt)
  \/ \E c \in Contracts, amt \in Amounts : Unbond(c, amt)
  \/ \E c \in Contracts : UndelegateMsg(c)
  \/ \E c \in Contracts, amt \in Amounts : Slash(c, amt)
  \/ MeshEndBlocker

MeshSpec == MeshInit /\ [][MeshNext]_meshVars

(* Blocks are made for ever; the end of a block is one call. *)
FairMeshSpec == MeshSpec /\ WF_meshVars(MeshEndBlocker)

-----------------------------------------------------------------------------
(* Properties *)

(* The stake of a contract is above its limit at the end of a block only   *)
(* because its latest handle_epoch call failed: however limits are moved   *)
(* between contracts while these bond and are slashed, a call that         *)
(* succeeds in the block of the change has brought the stake down.  Stake  *)
(* left over from before a restart comes on top: it is in nobody's amount, *)
(* and no limit holds it down.                                             *)
ExcessMeansFailedCall ==
  [][height' # height =>
       \A c \in Contracts : stake[c] > Limit(c) + leftover[c] => c \in missed]_meshVars

(* Only the limits are checked against the total, not the stake: at the    *)
(* end of a block in which every call went well, the stake of all          *)
(* contracts together fits the total as well, but for what was left over   *)
(* from before a restart.                                                  *)
StakeFitsTotal ==
  [][height' # height /\ missed = {} =>
       SumFunction(stake) <= TotalContractsMaxCap + SumFunction(leftover)]_meshVars

(* A contract left above its limit by a failed call is called again, as    *)
(* long as its limit is above zero: after the failures stop it comes down. *)
ExcessIsRetried ==
  \A c \in Contracts :
    (Removable(c) > Limit(c) /\ Limit(c) > 0 /\ EpochLength > 0
       /\ height + (MaxFailures - failures + 1) * EpochLength < MaxHeight)
      ~> (Removable(c) <= Limit(c) \/ Limit(c) = 0)

(* The three parts of the store never disagree, restarts included: an      *)
(* amount or a task belongs to a contract that has a limit, so whoever is  *)
(* called may unbond, and whoever has an amount is kept from staking       *)
(* messages.                                                               *)
NothingOutlivesItsLimit ==
  \A c \in Contracts :
    delegated[c] > 0 \/ TasksOf(tasks, HandleEpoch, c) # {} => HasMaxCapLimit(maxCap, c)

(* "staked virtual tokens are not bypassing the instant undelegate and     *)
(* burn mechanism": a contract's stake only shrinks when it unbonds (and the *)
(* tokens are burned) or is slashed, never to become liquid tokens.        *)
VirtualIsNeverReleased ==
  [][\A c \in Contracts : stake'[c] < stake[c] =>
       delegated'[c] < delegated[c] \/ slashes' > slashes]_meshVars
=============================================================================
