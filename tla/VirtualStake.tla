---------------------------- MODULE VirtualStake ----------------------------
(***************************************************************************)
(* Virtual staking: contracts with a max cap limit bond and unbond staking *)
(* tokens that are minted and burned on the way.  Every action is one      *)
(* message, one governance decision or one step of the staking module; a   *)
(* message that fails reverts and is not a step, except where               *)
(* keeper.Delegate itself has committed before it returns an error.        *)
(***************************************************************************)
EXTENDS Staking, MaxCaps

CONSTANTS
  Contracts,       \* the accounts that are contracts
  Caps,            \* limits governance may set
  Funds,           \* native tokens an account owns at the start
  Stake,           \* stake of Founder on every validator, at the start
  Founder,         \* an account that is not a contract
  Direct,          \* accounts for which other Go code calls the keeper directly
  SupportsOffset   \* TRUE: the bank keeps the supply offset (Osmosis SDK)

ASSUME ContractsAssumption == Contracts \subseteq Accounts /\ Founder \in Accounts \ Contracts
ASSUME FundsAssumption     == Funds \in [Accounts -> Nat] /\ Stake \in Nat \ {0}
ASSUME CapAmountAssumption == Caps \subseteq Nat
ASSUME WiringAssumption    == Direct \subseteq Contracts /\ SupportsOffset \in BOOLEAN

VARIABLES
  maxCap,      \* max cap limits (KV store)
  delegated,   \* total delegated amounts (KV store)
  offset,      \* the supply offset of the bond denom
  slashed      \* history: tokens burned by slashing

vars == <<stakingVars, maxCap, delegated, offset, slashed>>

TypeOK ==
  /\ StakingTypeOK
  /\ DOMAIN maxCap \subseteq Contracts /\ maxCap \in [DOMAIN maxCap -> Nat]
  /\ delegated \in [Contracts -> Nat]
  /\ offset \in Int
  /\ slashed \in Nat

InitialSupply == SumFunction(Funds) + Stake * Cardinality(Validators)

Init ==
  /\ vals = [v \in Validators |->
               [status |-> "bonded", tokens |-> Stake, shares |-> Stake * Precision]]
  /\ dels = [d \in Accounts \X Validators |->
               IF d[1] = Founder THEN Stake * Precision ELSE 0]
  /\ liquid = Funds
  /\ unbonding = [a \in Accounts |-> 0]
  /\ pool = [p \in Pools |->
               IF p = "bonded" THEN Stake * Cardinality(Validators) ELSE 0]
  /\ supply = InitialSupply
  /\ maxCap = [c \in {} |-> 0]
  /\ delegated = [c \in Contracts |-> 0]
  /\ offset = 0
  /\ slashed = 0

AddSupplyOffset(amt) == offset' = IF SupportsOffset THEN offset + amt ELSE offset

-----------------------------------------------------------------------------
(* Governance *)

SetCap(c, amt) ==
  /\ FitsTotal(maxCap, c, amt)
  /\ maxCap' = SetMaxCapLimit(maxCap, c, amt)
  /\ UNCHANGED <<stakingVars, delegated, offset, slashed>>

-----------------------------------------------------------------------------
(* keeper.Delegate and keeper.Undelegate *)

(* Variant: the amount alone is compared with the limit. *)
WithinMaxCap_AmountOnly(c, amt) == amt <= GetMaxCapLimit(maxCap, c)

WithinMaxCap(c, amt) == delegated[c] + amt <= GetMaxCapLimit(maxCap, c)

(* The tokens are minted and bonded. *)
Delegate(c, v, amt) ==
  /\ CanDelegate(v)
  /\ WithinMaxCap(c, amt)
  /\ DelegateTo(c, v, amt)
  /\ supply' = supply + amt
  /\ AddSupplyOffset(-amt)
  /\ delegated' = [delegated EXCEPT ![c] = @ + amt]
  /\ UNCHANGED <<liquid, unbonding, maxCap, slashed>>

(* Staking refuses the minted tokens: its error is returned after the      *)
(* cached store was written, so they stay with the contract.               *)
DelegateFails(c, v, amt) ==
  /\ v \in DOMAIN vals
  /\ InvalidExRate(vals[v])
  /\ WithinMaxCap(c, amt)
  /\ supply' = supply + amt
  /\ AddSupplyOffset(-amt)
  /\ liquid' = [liquid EXCEPT ![c] = @ + amt]
  /\ delegated' = [delegated EXCEPT ![c] = @ + amt]
  /\ UNCHANGED <<vals, dels, unbonding, pool, maxCap, slashed>>

(* Variant: always taken from the pool of the not bonded tokens. *)
InstantUndelegate_NotBonded(c, v, shares) ==
  /\ UnbondFrom(c, v, shares)
  /\ pool' = [pool EXCEPT !["notBonded"] = @ - RemovedTokens(vals[v], shares)]

(* Unbond, paid out at once from the pool that held the tokens before. *)
InstantUndelegate(c, v, shares) ==
  /\ UnbondFrom(c, v, shares)
  /\ pool' = [pool EXCEPT ![PoolOf(vals[v])] = @ - RemovedTokens(vals[v], shares)]

(* Variants: nothing is burned; the requested amount is booked. *)
BurnUnbonded_NoBurn(c, amt, returned) ==
  /\ supply' = supply
  /\ AddSupplyOffset(returned)
  /\ delegated' = [delegated EXCEPT ![c] = @ - returned]
  /\ UNCHANGED liquid

BurnUnbonded_Requested(c, amt, returned) ==
  /\ supply' = supply - returned
  /\ AddSupplyOffset(returned)
  /\ delegated' = [delegated EXCEPT ![c] = @ - amt]
  /\ UNCHANGED liquid

(* The returned tokens are burned; rounding may return less than amt. *)
BurnUnbonded(c, amt, returned) ==
  /\ supply' = supply - returned
  /\ AddSupplyOffset(returned)
  /\ delegated' = [delegated EXCEPT ![c] = @ - returned]
  /\ UNCHANGED liquid

(* Variant: the delegation alone bounds the amount. *)
CanUndelegate_NoTotal(c, v, amt) == ValidUnbondAmount(c, v, amt)

CanUndelegate(c, v, amt) == delegated[c] >= amt /\ ValidUnbondAmount(c, v, amt)

(* Without a delegation at v nothing happens, and nothing is reported. *)
Undelegate(c, v, amt) ==
  /\ CanUndelegate(c, v, amt)
  /\ LET shares == SharesFromTokens(vals[v], amt)
     IN  /\ InstantUndelegate(c, v, shares)
         /\ BurnUnbonded(c, amt, RemovedTokens(vals[v], shares))
  /\ UNCHANGED <<unbonding, maxCap, slashed>>

-----------------------------------------------------------------------------
(* Messages of a contract: IntegrityHandler, then wasmd's own handlers,    *)
(* then CustomMsgHandler.                                                  *)

(* Variants: a limit above zero is required. *)
IntegrityHandlerRejects_Active(c) == GetMaxCapLimit(maxCap, c) > 0
IsAuthorized_Active(c) == GetMaxCapLimit(maxCap, c) > 0

(* Staking and stargate messages of a contract with any limit. *)
IntegrityHandlerRejects(c) == HasMaxCapLimit(maxCap, c)

IsAuthorized(c) == HasMaxCapLimit(maxCap, c)

(* The VM reverts a message whose handler returned an error; a direct      *)
(* caller of the keeper is not authorized by anyone and gets the error.    *)
handleBondMsg(c, v, amt) ==
  /\ c \in Direct \/ IsAuthorized(c)
  /\ Delegate(c, v, amt) \/ (c \in Direct /\ DelegateFails(c, v, amt))

handleUnbondMsg(c, v, amt) ==
  /\ c \in Direct \/ IsAuthorized(c)
  /\ Undelegate(c, v, amt)

MayStake(a) == a \in Contracts => ~IntegrityHandlerRejects(a)

DelegateMsg(a, v, amt) ==
  /\ MayStake(a)
  /\ StakingDelegate(a, v, amt)
  /\ UNCHANGED <<maxCap, delegated, offset, slashed>>

UndelegateMsg(a, v, amt) ==
  /\ MayStake(a)
  /\ StakingUndelegate(a, v, amt)
  /\ UNCHANGED <<maxCap, delegated, offset, slashed>>

-----------------------------------------------------------------------------
(* Steps of the staking module *)

StakingCompletes(a) ==
  /\ CompleteUnbonding(a)
  /\ UNCHANGED <<maxCap, delegated, offset, slashed>>

StakingSlashes(v, amt) ==
  /\ Slash(v, amt)
  /\ slashed' = slashed + amt
  /\ UNCHANGED <<maxCap, delegated, offset>>

StakingRanks(v, status) ==
  /\ ChangeStatus(v, status)
  /\ UNCHANGED <<maxCap, delegated, offset, slashed>>

Next ==
  \/ \E c \in Contracts, amt \in Caps : SetCap(c, amt)
  \/ \E c \in Contracts, v \in Validators, amt \in Amounts :
       handleBondMsg(c, v, amt) \/ handleUnbondMsg(c, v, amt)
  \/ \E a \in Accounts, v \in Validators, amt \in Amounts :
       DelegateMsg(a, v, amt) \/ UndelegateMsg(a, v, amt)
  \/ \E a \in Accounts : StakingCompletes(a)
  \/ \E v \in Validators, amt \in Amounts : StakingSlashes(v, amt)
  \/ \E v \in Validators, status \in Status : StakingRanks(v, status)

Spec == Init /\ [][Next]_vars

-----------------------------------------------------------------------------
(* Properties *)

(* Minting, bonding, unbonding and burning leave no token behind: the      *)
(* supply is what the accounts and the pools hold, and each pool holds the *)
(* tokens of its validators and unbonding entries, whatever status the     *)
(* validator had when an instant undelegation drew on it.                  *)
PoolsMatch ==
  /\ supply = SumFunction(liquid) + pool["bonded"] + pool["notBonded"]
  /\ pool["bonded"] = Tokens(Restrict(vals, {v \in DOMAIN vals : vals[v].status = "bonded"}))
  /\ pool["notBonded"] = SumFunction(unbonding)
       + Tokens(Restrict(vals, {v \in DOMAIN vals : vals[v].status # "bonded"}))

(* The offset is exactly the virtual stake that is accounted for (the      *)
(* vanilla bank keeps none), also when rounding returned fewer tokens than *)
(* a contract asked for.                                                   *)
OffsetIsVirtual == offset = IF SupportsOffset THEN -SumFunction(delegated) ELSE 0

(* Bonding and unbonding never change the supply net of virtual stake:     *)
(* only slashing does.                                                     *)
SupplyNeutral == supply - SumFunction(delegated) = InitialSupply - slashed

(* "staked virtual tokens are not bypassing the instant undelegate and     *)
(* burn mechanism": while a contract has a limit, even one of 0, nothing   *)
(* it or anyone else does adds to what it can spend now or after the       *)
(* unbonding time.  (A failed Delegate of a direct caller does, see        *)
(* FailedDelegateMintsNothing.)                                            *)
VirtualNeverLiquid ==
  [][\A c \in DOMAIN maxCap \ Direct :
       liquid'[c] + unbonding'[c] <= liquid[c] + unbonding[c]]_vars

(* What a contract has at a validator, in whole tokens. *)
Worth(c, v) ==
  IF dels[<<c, v>>] = 0 THEN 0 ELSE (dels[<<c, v>>] * vals[v].tokens) \div vals[v].shares

(* "contracts with a limit 0 tokens may need to instant undelegate":       *)
(* virtual stake can always leave.  After any limit change, slash and      *)
(* rounding, a contract may unbond all that its delegation is worth, up to *)
(* what it has delegated.                                                  *)
StakeCanLeave ==
  \A c \in Contracts, v \in DOMAIN vals :
    LET amt == IF Worth(c, v) < delegated[c] THEN Worth(c, v) ELSE delegated[c]
    IN  amt > 0 => IsAuthorized(c) /\ CanUndelegate(c, v, amt)

(* A Delegate that fails mints nothing: the supply only grows together     *)
(* with the stake of a validator.                                          *)
FailedDelegateMintsNothing == [][supply' > supply => vals' # vals]_vars

(* Virtual staking implements the ledger of VirtualLedger.                 *)
Ledger == INSTANCE VirtualLedger WITH
  limit   <- [c \in Contracts |-> GetMaxCapLimit(maxCap, c)],
  virtual <- delegated,
  native  <- supply - SumFunction(delegated)

ImplementsVirtualLedger == Ledger!Spec
=============================================================================
