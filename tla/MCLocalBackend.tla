--------------------------- MODULE MCLocalBackend ---------------------------
(* LocalBackend on one simulated node. *)
EXTENDS LocalBackend, TLC

CONSTANTS n1

OneSlot == n1 :> 1
=============================================================================
