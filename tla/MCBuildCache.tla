---------------------------- MODULE MCBuildCache ----------------------------
(* BuildCache with three runners on one node. *)
EXTENDS BuildCache

CONSTANTS w1, w2, w3
=============================================================================
