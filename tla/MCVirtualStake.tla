--------------------------- MODULE MCVirtualStake ---------------------------
(* Two contracts, one of which owns a native token, and one staker. *)
EXTENDS VirtualStake

CONSTANTS c1, c2, n, v1

MCFunds == [a \in Accounts |-> IF a = c1 THEN 1 ELSE 0]
=============================================================================
