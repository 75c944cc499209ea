---------------------------- MODULE MCMeshChain -----------------------------
(* Two contracts that share a total of two tokens. *)
EXTENDS MeshChain

CONSTANTS c1, c2
=============================================================================
