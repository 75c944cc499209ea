--------------------------- MODULE VirtualLedger ----------------------------
(***************************************************************************)
(* What virtual staking promises to the chain, without validators, shares  *)
(* and pools: each contract has an account of virtual stake that grows     *)
(* only up to its limit, limits share one total, and the native supply     *)
(* changes by slashing alone.                                              *)
(***************************************************************************)
EXTENDS Integers, Functions

CONSTANTS Contracts, Caps, Amounts, TotalContractsMaxCap, InitialSupply

VARIABLES
  limit,     \* limit[c], 0 when none was ever set
  virtual,   \* virtual[c]: virtual stake on c's account
  native     \* supply without virtual stake

ledger == <<limit, virtual, native>>

Init ==
  /\ limit = [c \in Contracts |-> 0]
  /\ virtual = [c \in Contracts |-> 0]
  /\ native = InitialSupply

SetLimit(c, amt) ==
  /\ limit' = [limit EXCEPT ![c] = amt]
  /\ SumFunction(limit') <= TotalContractsMaxCap
  /\ UNCHANGED <<virtual, native>>

(* A limit that was lowered does not recall what is above it. *)
Bond(c, amt) ==
  /\ virtual[c] + amt <= limit[c]
  /\ virtual' = [virtual EXCEPT ![c] = @ + amt]
  /\ UNCHANGED <<limit, native>>

Unbond(c, amt) ==
  /\ amt <= virtual[c]
  /\ virtual' = [virtual EXCEPT ![c] = @ - amt]
  /\ UNCHANGED <<limit, native>>

(* Slashed tokens are not told apart: native ones pay for virtual ones. *)
Slash(amt) ==
  /\ native' = native - amt
  /\ UNCHANGED <<limit, virtual>>

Next ==
  \/ \E c \in Contracts, amt \in Caps : SetLimit(c, amt)
  \/ \E c \in Contracts, amt \in Amounts : Bond(c, amt)
  \/ \E c \in Contracts : \E amt \in 1 .. virtual[c] : Unbond(c, amt)
  \/ \E amt \in Amounts : Slash(amt)

Spec == Init /\ [][Next]_ledger
=============================================================================
