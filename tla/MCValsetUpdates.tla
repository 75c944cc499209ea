-------------------------- MODULE MCValsetUpdates ---------------------------
(* Two validators compete for one place in the active set. *)
EXTENDS ValsetUpdates

CONSTANTS c1, c2, v1, v2
=============================================================================
