------------------------------ MODULE Staking -------------------------------
(***************************************************************************)
(* The environment of virtual staking: the parts of x/staking and x/bank   *)
(* (Cosmos SDK v0.47, outside src/) that x/meshsecurity calls or depends   *)
(* on.  All tokens are of the bond denom.                                  *)
(***************************************************************************)
EXTENDS ShareMath, Functions, FiniteSets

CONSTANTS
  Accounts,     \* every delegator: contracts and ordinary users
  Validators,
  Amounts       \* token amounts a caller may name

ASSUME AmountsAssumption == Amounts \subseteq Nat \ {0}

VARIABLES
  vals,       \* vals[v] for the validators in the store
  dels,       \* dels[<<a, v>>]: delegation shares, 0 for no delegation
  liquid,     \* spendable balance
  unbonding,  \* tokens in unbonding delegations
  pool,       \* balances of the bonded and the not bonded pool
  supply      \* total supply of the bank module

stakingVars == <<vals, dels, liquid, unbonding, pool, supply>>

Status    == {"bonded", "unbonding", "unbonded"}
Validator == [status : Status, tokens : Nat, shares : Nat]
Pools     == {"bonded", "notBonded"}

StakingTypeOK ==
  /\ DOMAIN vals \subseteq Validators
  /\ vals \in [DOMAIN vals -> Validator]
  /\ dels \in [Accounts \X Validators -> Nat]
  /\ liquid \in [Accounts -> Nat]
  /\ unbonding \in [Accounts -> Nat]
  /\ pool \in [Pools -> Nat]
  /\ supply \in Nat

-----------------------------------------------------------------------------
PoolOf(val) == IF val.status = "bonded" THEN "bonded" ELSE "notBonded"

(* ValidateUnbondAmount: the shares that stand for amt. *)
ValidUnbondAmount(a, v, amt) ==
  /\ v \in DOMAIN vals
  /\ dels[<<a, v>>] > 0
  /\ vals[v].tokens > 0
  /\ SharesFromTokens(vals[v], amt) <= dels[<<a, v>>]

-----------------------------------------------------------------------------
(* Keeper methods *)

CanDelegate(v) == v \in DOMAIN vals /\ ~InvalidExRate(vals[v])

DelegateTo(a, v, amt) ==
  LET issued == IssuedShares(vals[v], amt)
  IN  /\ vals' = [vals EXCEPT ![v].tokens = @ + amt, ![v].shares = @ + issued]
      /\ dels' = [dels EXCEPT ![<<a, v>>] = @ + issued]
      /\ pool' = [pool EXCEPT ![PoolOf(vals[v])] = @ + amt]

(* Unbond: an unbonded validator goes with its last share. *)
UnbondFrom(a, v, shares) ==
  LET left == [vals[v] EXCEPT !.tokens = @ - RemovedTokens(vals[v], shares),
                              !.shares = @ - shares]
  IN  /\ dels' = [dels EXCEPT ![<<a, v>>] = @ - shares]
      /\ vals' = IF left.status = "unbonded" /\ left.shares = 0
                   THEN Restrict(vals, DOMAIN vals \ {v})
                   ELSE [vals EXCEPT ![v] = left]

(* MsgDelegate and MsgUndelegate of account a. *)
StakingDelegate(a, v, amt) ==
  /\ CanDelegate(v)
  /\ liquid[a] >= amt
  /\ DelegateTo(a, v, amt)
  /\ liquid' = [liquid EXCEPT ![a] = @ - amt]
  /\ UNCHANGED <<unbonding, supply>>

StakingUndelegate(a, v, amt) ==
  /\ ValidUnbondAmount(a, v, amt)
  /\ LET shares   == SharesFromTokens(vals[v], amt)
         returned == RemovedTokens(vals[v], shares)
     IN  /\ UnbondFrom(a, v, shares)
         /\ unbonding' = [unbonding EXCEPT ![a] = @ + returned]
         /\ pool' = [p \in Pools |->
               pool[p] - (IF p = PoolOf(vals[v]) THEN returned ELSE 0)
                       + (IF p = "notBonded" THEN returned ELSE 0)]
  /\ UNCHANGED <<liquid, supply>>

(* The unbonding time of a's entries is over. *)
CompleteUnbonding(a) ==
  /\ unbonding[a] > 0
  /\ liquid' = [liquid EXCEPT ![a] = @ + unbonding[a]]
  /\ pool' = [pool EXCEPT !["notBonded"] = @ - unbonding[a]]
  /\ unbonding' = [unbonding EXCEPT ![a] = 0]
  /\ UNCHANGED <<vals, dels, supply>>

(* A validator that is not unbonded is slashed: the tokens are burned. *)
Slash(v, amt) ==
  /\ v \in DOMAIN vals
  /\ vals[v].status # "unbonded"
  /\ vals[v].tokens >= amt
  /\ vals' = [vals EXCEPT ![v].tokens = @ - amt]
  /\ pool' = [pool EXCEPT ![PoolOf(vals[v])] = @ - amt]
  /\ supply' = supply - amt
  /\ UNCHANGED <<dels, liquid, unbonding>>

(* Staking's EndBlocker moves a validator into or out of the active set    *)
(* and its tokens between the pools.                                       *)
ChangeStatus(v, status) ==
  /\ v \in DOMAIN vals
  /\ <<vals[v].status, status>> \in
       {<<"unbonded", "bonded">>, <<"unbonding", "bonded">>,
        <<"bonded", "unbonding">>, <<"unbonding", "unbonded">>}
  /\ status = "bonded" => vals[v].tokens > 0
  /\ vals' = IF status = "unbonded" /\ vals[v].shares = 0
               THEN Restrict(vals, DOMAIN vals \ {v})
               ELSE [vals EXCEPT ![v].status = status]
  /\ LET moved == IF PoolOf(vals[v]) = PoolOf([status |-> status])
                    THEN 0 ELSE vals[v].tokens
         to    == PoolOf([status |-> status])
     IN  pool' = [p \in Pools |-> IF p = to THEN pool[p] + moved ELSE pool[p] - moved]
  /\ UNCHANGED <<dels, liquid, unbonding, supply>>

(* The tokens of all validators. *)
Tokens(vs) == SumFunction([v \in DOMAIN vs |-> vs[v].tokens])
=============================================================================
