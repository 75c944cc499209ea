------------------------------ MODULE MaxCaps -------------------------------
(***************************************************************************)
(* The max cap limits: one KV entry per contract, kept by keeper.go.       *)
(* limits is a function from the contracts that ever had a limit set to    *)
(* the limit; an entry is overwritten, never removed, so a limit of 0      *)
(* stays an entry.  Amounts are in the bond denom (other denoms are        *)
(* rejected before anything is stored).                                    *)
(***************************************************************************)
EXTENDS Integers, FiniteSets, Functions

CONSTANT TotalContractsMaxCap   \* module parameter

ASSUME TotalContractsMaxCapAssumption == TotalContractsMaxCap \in Nat

HasMaxCapLimit(limits, c) == c \in DOMAIN limits

GetMaxCapLimit(limits, c) == IF HasMaxCapLimit(limits, c) THEN limits[c] ELSE 0

(* The contracts IterateMaxCapLimit reports with an amount above zero. *)
ActiveContracts(limits) == {c \in DOMAIN limits : limits[c] > 0}

UsedByOthers(limits, c) == SumFunctionOnSet(limits, DOMAIN limits \ {c})

(* Variant: the limits of the other contracts are not counted. *)
FitsTotal_OwnOnly(limits, c, amt) == amt <= TotalContractsMaxCap

(* The check made by SetMaxCapLimit before it persists. *)
FitsTotal(limits, c, amt) == UsedByOthers(limits, c) + amt <= TotalContractsMaxCap

SetMaxCapLimit(limits, c, amt) ==
  [x \in DOMAIN limits \cup {c} |-> IF x = c THEN amt ELSE limits[x]]

=============================================================================
