---------------------------- MODULE ValsetUpdates ---------------------------
(***************************************************************************)
(* Validator set changes on their way to the contracts.  In a block, the   *)
(* slashing and evidence modules punish validators (phase "begin"),        *)
(* transactions edit, unjail, stake and unstake (phase "deliver"), then    *)
(* staking's EndBlocker settles the active set, and this module's          *)
(* EndBlocker reports what was stored on the way (phase "report").         *)
(*                                                                         *)
(* How the callbacks are scheduled is the subject of Scheduler; here only  *)
(* the one shot tasks of the current block matter.                         *)
(***************************************************************************)
EXTENDS ShareMath, FiniteSets, Functions, FiniteSetsExt

CONSTANTS
  Contracts,
  Validators,
  MaxValidators,   \* size of the active set
  Stake,           \* stake of an operator on its own validator
  SlashAmounts,    \* tokens a slash may burn
  Adjusted,        \* contracts whose limit governance changes
  Edited,          \* validators whose commission changes
  MaxTokens,       \* bound: tokens of a validator
  MaxDilution      \* bound: shares per token, in multiples of Precision

ASSUME ValsetAssumption ==
  /\ MaxValidators \in Nat \ {0} /\ Stake \in Nat \ {0}
  /\ SlashAmounts \subseteq Nat \ {0}
  /\ Adjusted \subseteq Contracts /\ Edited \subseteq Validators
  /\ MaxDilution \in Nat \ {0} /\ MaxTokens \in Nat

VARIABLES
  phase,      \* "begin", "deliver" or "report"
  vals,       \* validators in the staking store
  dels,       \* dels[<<c, v>>]: shares of contract c, the rest are the operator's
  active,     \* contracts with a max cap limit above zero
  piped,      \* piped valset operations (memory store)
  scheduled,  \* contracts with a ValsetUpdate task for this block
  view,       \* view[c]: the active validators as contract c knows them
  told,       \* told[c]: the slashed entries of the report to c
  \* History, read by the properties only:
  synced,     \* contracts that were sent, and accepted, every report
  reported,   \* contracts whose callback ran in this block
  moved       \* validators whose shares changed since they were slashed

vars == <<phase, vals, dels, active, piped, scheduled, view, told, synced, reported, moved>>

Validator == [status : {"bonded", "unbonding", "unbonded"}, jailed : BOOLEAN,
              tombstoned : BOOLEAN, tokens : Nat, shares : Nat]

PipedValsetOperation ==
  {"bonded", "unbonded", "jailed", "tombstoned", "unjailed", "modified", "slashed"}

(* Slash info goes with slashed operations and with no other. *)
Operation == {o \in [op : PipedValsetOperation, val : Validators, burned : SlashAmounts \cup {0}] :
                o.op = "slashed" <=> o.burned > 0}

TypeOK ==
  /\ phase \in {"begin", "deliver", "report"}
  /\ DOMAIN vals \subseteq Validators /\ vals \in [DOMAIN vals -> Validator]
  /\ dels \in [Contracts \X Validators -> Nat]
  /\ active \subseteq Contracts
  /\ piped \subseteq Operation
  /\ scheduled \subseteq Contracts
  /\ view \in [Contracts -> SUBSET Validators]
  /\ \A c \in Contracts : told[c] \subseteq [val : Validators, burned : SlashAmounts, share : Nat]
  /\ synced \subseteq Contracts /\ reported \subseteq Contracts
  /\ moved \subseteq Validators

NewValidator == [status |-> "unbonded", jailed |-> FALSE, tombstoned |-> FALSE,
                 tokens |-> Stake, shares |-> Stake * Precision]

Bonded(vs) == {v \in DOMAIN vs : vs[v].status = "bonded"}

(* A chain with its first active set; every contract knows it. *)
Init ==
  /\ phase = "begin"
  /\ \E set \in kSubset(MaxValidators, Validators) :
       /\ vals = [v \in Validators |->
                   IF v \in set THEN [NewValidator EXCEPT !.status = "bonded"] ELSE NewValidator]
       /\ view = [c \in Contracts |-> set]
  /\ dels = [d \in Contracts \X Validators |-> 0]
  /\ active = Contracts
  /\ piped = {}
  /\ scheduled = {}
  /\ told = [c \in Contracts |-> {}]
  /\ synced = Contracts
  /\ reported = {}
  /\ moved = {}

-----------------------------------------------------------------------------
(* sendAsync and its callers *)

Op(op, v) == [op |-> op, val |-> v, burned |-> 0]

(* Stores the operations of one step and schedules the reports. *)
sendAsync(ops) ==
  /\ piped' = piped \cup ops
  /\ scheduled' = IF ops = {} THEN scheduled ELSE scheduled \cup active
  /\ synced' = IF ops = {} THEN synced ELSE synced \cap (active \cup scheduled)

NothingSent == UNCHANGED <<piped, scheduled, synced>>

(* Variant: the slash info is missing. *)
Slashed_NoInfo(v, burned) == [op |-> "slashed", val |-> v, burned |-> 0]

(* ScheduleSlashed: sent after the tokens were burned, with the amount. *)
Slashed(v, burned) == [op |-> "slashed", val |-> v, burned |-> burned]

-----------------------------------------------------------------------------
(* Phase "begin": x/slashing and x/evidence through the decorators *)

(* Bounds on the exchange rate and the tokens of a validator. *)
WithinBounds(shares, tokens) ==
  tokens <= MaxTokens /\ shares <= tokens * MaxDilution * Precision

CanSlash(v, amt) == amt <= vals[v].tokens /\ WithinBounds(vals[v].shares, vals[v].tokens - amt)

Burn(v, amt) == [vals EXCEPT ![v].tokens = @ - amt, ![v].jailed = TRUE]

(* Slash of StakingDecorator: x/staking calls BeforeValidatorModified, then *)
(* burns, then the decorator sends the amount.                             *)
SlashOps(v, burned) == {Op("modified", v), Slashed(v, burned)}

(* Downtime: Slash and Jail of StakingDecorator. *)
SlashDowntime(v, amt) ==
  /\ phase = "begin"
  /\ v \in Bonded(vals)
  /\ ~vals[v].jailed
  /\ CanSlash(v, amt)
  /\ vals' = Burn(v, amt)
  /\ sendAsync(SlashOps(v, amt) \cup {Op("jailed", v)})
  /\ UNCHANGED <<phase, dels, active, view, told, reported, moved>>

(* Double sign: Slash, Jail unless jailed, Tombstone of the decorators. *)
SlashDoubleSign(v, amt) ==
  /\ phase = "begin"
  /\ v \in DOMAIN vals
  /\ vals[v].status # "unbonded"
  /\ ~vals[v].tombstoned
  /\ CanSlash(v, amt)
  /\ vals' = [Burn(v, amt) EXCEPT ![v].tombstoned = TRUE]
  /\ sendAsync(SlashOps(v, amt) \cup {Op("tombstoned", v)}
               \cup (IF vals[v].jailed THEN {} ELSE {Op("jailed", v)}))
  /\ UNCHANGED <<phase, dels, active, view, told, reported, moved>>

EndBeginBlock ==
  /\ phase = "begin"
  /\ phase' = "deliver"
  /\ UNCHANGED <<vals, dels, active, piped, scheduled, view, told, synced, reported, moved>>

-----------------------------------------------------------------------------
(* Phase "deliver": transactions *)

(* The commission of a validator changes: BeforeValidatorModified. *)
EditValidator(v) ==
  /\ phase = "deliver"
  /\ v \in DOMAIN vals
  /\ sendAsync({Op("modified", v)})
  /\ UNCHANGED <<phase, vals, dels, active, view, told, reported, moved>>

OperatorShares(v) ==
  vals[v].shares - SumFunctionOnSet(dels, {d \in DOMAIN dels : d[2] = v})

(* Unjail of StakingDecorator.  A validator jailed in this block has to    *)
(* wait, and it needs a stake of its own.                                  *)
Unjail(v) ==
  /\ phase = "deliver"
  /\ v \in DOMAIN vals
  /\ vals[v].jailed /\ ~vals[v].tombstoned
  /\ Op("jailed", v) \notin piped
  /\ OperatorShares(v) > 0
  /\ vals' = [vals EXCEPT ![v].jailed = FALSE]
  /\ sendAsync({Op("unjailed", v)})
  /\ UNCHANGED <<phase, dels, active, view, told, reported, moved>>

WasSlashed(v)  == \E o \in piped : o.op = "slashed" /\ o.val = v
SharesMoved(v) == moved' = IF WasSlashed(v) THEN moved \cup {v} ELSE moved

(* A contract bonds a token (bound: one delegation of one token). *)
Bond(c, v) ==
  /\ phase = "deliver"
  /\ c \in active
  /\ v \in DOMAIN vals /\ ~InvalidExRate(vals[v])
  /\ WithinBounds(vals[v].shares, vals[v].tokens) /\ vals[v].tokens < MaxTokens
  /\ dels[<<c, v>>] = 0
  /\ LET issued == IssuedShares(vals[v], 1)
     IN  /\ vals' = [vals EXCEPT ![v].tokens = @ + 1, ![v].shares = @ + issued]
         /\ dels' = [dels EXCEPT ![<<c, v>>] = issued]
  /\ SharesMoved(v)
  /\ NothingSent
  /\ UNCHANGED <<phase, active, view, told, reported>>

(* The validator without some of its shares; staking removes an unbonded   *)
(* validator with its last share.                                          *)
WithoutShares(v, shares) ==
  LET left == [vals[v] EXCEPT !.tokens = @ - RemovedTokens(vals[v], shares), !.shares = @ - shares]
  IN  IF left.status = "unbonded" /\ left.shares = 0
        THEN Restrict(vals, DOMAIN vals \ {v})
        ELSE [vals EXCEPT ![v] = left]

Unbond(c, v) ==
  /\ phase = "deliver"
  /\ dels[<<c, v>>] > 0
  /\ vals' = WithoutShares(v, dels[<<c, v>>])
  /\ dels' = [dels EXCEPT ![<<c, v>>] = 0]
  /\ SharesMoved(v)
  /\ NothingSent
  /\ UNCHANGED <<phase, active, view, told, reported>>

(* An operator takes out its own stake: staking jails the validator by     *)
(* itself, not through StakingDecorator.                                   *)
UnbondSelf(v) ==
  /\ phase = "deliver"
  /\ v \in DOMAIN vals
  /\ OperatorShares(v) > 0
  /\ LET left == WithoutShares(v, OperatorShares(v))
     IN  vals' = [x \in DOMAIN left |-> IF x = v THEN [left[v] EXCEPT !.jailed = TRUE] ELSE left[x]]
  /\ SharesMoved(v)
  /\ NothingSent
  /\ UNCHANGED <<phase, dels, active, view, told, reported>>

(* An operator without stake stakes again; a removed validator comes back. *)
BondSelf(v) ==
  /\ phase = "deliver"
  /\ v \in DOMAIN vals =>
       /\ OperatorShares(v) = 0 /\ ~InvalidExRate(vals[v])
       /\ WithinBounds(vals[v].shares, vals[v].tokens) /\ vals[v].tokens + Stake <= MaxTokens
  /\ vals' = IF v \notin DOMAIN vals
               THEN [x \in DOMAIN vals \cup {v} |-> IF x = v THEN NewValidator ELSE vals[x]]
               ELSE [vals EXCEPT ![v].tokens = @ + Stake,
                                 ![v].shares = @ + IssuedShares(vals[v], Stake)]
  /\ SharesMoved(v)
  /\ NothingSent
  /\ UNCHANGED <<phase, dels, active, view, told, reported>>

(* Governance sets a limit to or from 0. *)
ToggleLimit(c) ==
  /\ phase = "deliver"
  /\ active' = IF c \in active THEN active \ {c} ELSE active \cup {c}
  /\ UNCHANGED <<phase, vals, dels, piped, scheduled, view, told, synced, reported, moved>>

-----------------------------------------------------------------------------
(* Staking's EndBlocker *)

Eligible == {v \in DOMAIN vals : ~vals[v].jailed /\ vals[v].tokens > 0}

(* The validators with the most tokens. *)
IsTop(set) ==
  /\ Cardinality(set) = Min({MaxValidators, Cardinality(Eligible)})
  /\ \A v \in set, w \in Eligible \ set : vals[v].tokens >= vals[w].tokens

(* Variant: the hook ignores validators that leave the active set. *)
ValsetHooks_BondedOnly(old, new) == {Op("bonded", v) : v \in new \ old}

(* AfterValidatorBonded and AfterValidatorBeginUnbonding. *)
ValsetHooks(old, new) == {Op("bonded", v) : v \in new \ old} \cup {Op("unbonded", v) : v \in old \ new}

(* The new active set, and the unbonding validators that are mature.       *)
StakingEndBlocker(set, mature) ==
  /\ phase = "deliver"
  /\ set \subseteq Eligible /\ IsTop(set)
  /\ mature \subseteq {v \in DOMAIN vals \ set : vals[v].status = "unbonding"}
  /\ phase' = "report"
  /\ LET gone == {v \in mature : vals[v].shares = 0}
         status(v) == IF v \in set THEN "bonded"
                      ELSE IF v \in mature THEN "unbonded"
                      ELSE IF vals[v].status = "bonded" THEN "unbonding"
                      ELSE vals[v].status
     IN  vals' = [v \in DOMAIN vals \ gone |-> [vals[v] EXCEPT !.status = status(v)]]
  /\ sendAsync(ValsetHooks(Bonded(vals), set))
  /\ UNCHANGED <<dels, active, view, told, reported, moved>>

-----------------------------------------------------------------------------
(* Phase "report" *)

(* ValsetUpdateReport and the callback of EndBlocker fail when a validator *)
(* they have to look up is gone.                                           *)
ReportFails ==
  \E o \in piped : o.op \in {"bonded", "modified", "slashed"} /\ o.val \notin DOMAIN vals

Reported(op) == {o.val : o \in {p \in piped : p.op = op}}

(* Variant: the share of the tokens instead of the share of the shares. *)
DelegatorSlashAmount_ByTokens(c, v, burned) ==
  IF vals[v].tokens = 0 THEN 0
  ELSE RoundedQuo(RoundedQuo(dels[<<c, v>>], vals[v].tokens) * burned, Precision)

(* The burned amount times the contract's share of the validator, both     *)
(* rounded half to even.                                                   *)
DelegatorSlashAmount(c, v, burned) ==
  IF vals[v].shares = 0 THEN 0
  ELSE RoundedQuo(RoundedQuo(dels[<<c, v>>] * Precision, vals[v].shares) * burned, Precision)

SlashedEntries(c) ==
  {[val |-> o.val, burned |-> o.burned, share |-> DelegatorSlashAmount(c, o.val, o.burned)] :
     o \in {p \in piped : p.op = "slashed"}}

ReportDone(c) ==
  /\ phase = "report"
  /\ c \in scheduled \ reported
  /\ reported' = reported \cup {c}
  /\ UNCHANGED <<phase, active, piped, scheduled>>

(* The contract is sent the report and accepts it. *)
SendReport(c) ==
  /\ ~ReportFails
  /\ view' = [view EXCEPT ![c] = (@ \cup Reported("bonded")) \ Reported("unbonded")]
  /\ told' = [told EXCEPT ![c] = SlashedEntries(c)]
  /\ UNCHANGED synced

(* In its callback, a contract may unbond from validators it was told of. *)
SendValsetUpdate(c) ==
  /\ ReportDone(c)
  /\ SendReport(c)
  /\ UNCHANGED <<vals, dels, moved>>

SendValsetUpdateUnbond(c, v) ==
  /\ ReportDone(c)
  /\ SendReport(c)
  /\ dels[<<c, v>>] > 0
  /\ vals' = WithoutShares(v, dels[<<c, v>>])
  /\ dels' = [dels EXCEPT ![<<c, v>>] = 0]
  /\ SharesMoved(v)

(* The contract returns an error: the report is not sent again. *)
RejectValsetUpdate(c) ==
  /\ ReportDone(c)
  /\ ~ReportFails
  /\ synced' = synced \ {c}
  /\ UNCHANGED <<vals, dels, view, told, moved>>

(* There is no report, for any contract. *)
FailValsetUpdate(c) ==
  /\ ReportDone(c)
  /\ ReportFails
  /\ synced' = synced \ {c}
  /\ UNCHANGED <<vals, dels, view, told, moved>>

(* Variant: the memory store is kept. *)
ClearPipedValsetOperations_Kept ==
  /\ phase = "report"
  /\ reported = scheduled
  /\ phase' = "begin"
  /\ scheduled' = {}
  /\ told' = [c \in Contracts |-> {}]
  /\ reported' = {}
  /\ moved' = {}
  /\ UNCHANGED <<vals, dels, active, piped, view, synced>>

(* All callbacks ran: the store is cleared and the block committed. *)
ClearPipedValsetOperations ==
  /\ phase = "report"
  /\ reported = scheduled
  /\ phase' = "begin"
  /\ piped' = {}
  /\ scheduled' = {}
  /\ told' = [c \in Contracts |-> {}]
  /\ reported' = {}
  /\ moved' = {}
  /\ UNCHANGED <<vals, dels, active, view, synced>>

Next ==
  \/ \E v \in Validators, amt \in SlashAmounts : SlashDowntime(v, amt) \/ SlashDoubleSign(v, amt)
  \/ EndBeginBlock
  \/ \E v \in Edited : EditValidator(v)
  \/ \E v \in Validators : Unjail(v) \/ UnbondSelf(v) \/ BondSelf(v)
  \/ \E c \in Contracts, v \in Validators : Bond(c, v) \/ Unbond(c, v)
  \/ \E c \in Adjusted : ToggleLimit(c)
  \/ \E set, mature \in SUBSET Validators : StakingEndBlocker(set, mature)
  \/ \E c \in Contracts : SendValsetUpdate(c) \/ RejectValsetUpdate(c) \/ FailValsetUpdate(c)
  \/ \E c \in Contracts, v \in Validators : SendValsetUpdateUnbond(c, v)
  \/ ClearPipedValsetOperations

Spec == Init /\ [][Next]_vars

-----------------------------------------------------------------------------
(* Properties *)

(* Reports carry changes by type, not by time, and only what changed.  A   *)
(* contract that was sent and accepted all of them knows the active set at *)
(* every commit, through jailing, removal, edits and limit changes.        *)
SyncedContractsKnowTheValset ==
  phase = "begin" /\ piped = {} => \A c \in synced : view[c] = Bonded(vals)

(* "Conflicting events as Bonded/ Unbonded are not supposed to happen      *)
(* within the same block".                                                 *)
NoConflictingEvents ==
  /\ Reported("bonded") \cap Reported("unbonded") = {}
  /\ Reported("tombstoned") \cap Reported("unjailed") = {}

(* A contract is told its part of a slash, up to the rounding of the ratio *)
(* and of the amount, when nobody moved stake of that validator since:     *)
(* neither a transaction nor the callback of a contract that was told      *)
(* before.                                                                 *)
Distance(a, b) == IF a < b THEN b - a ELSE a - b

SlashReportsAreFair ==
  \A c \in Contracts : \A s \in told[c] :
    s.val \notin moved =>
      LET shares == vals[s.val].shares
      IN  2 * Precision * Distance(s.share * shares, dels[<<c, s.val>>] * s.burned)
            <= shares * (Precision + s.burned)

(* "store them in the mem db and async send to all registered contracts in *)
(* the end blocker": no contract misses a report that it would accept.     *)
ReportsReachContracts == phase = "report" /\ scheduled # {} => ~ReportFails

(* "capture all jail/ unjail events": a validator that loses its place    *)
(* because it was jailed is reported as jailed.                            *)
JailingIsReported ==
  \A v \in Reported("unbonded") \cap DOMAIN vals :
    vals[v].jailed => v \in Reported("jailed")
=============================================================================
