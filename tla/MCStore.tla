------------------------------ MODULE MCStore ------------------------------
(* Store with one regression of two suites, one of which is retried. *)
EXTENDS Store, TLC

CONSTANTS g1, a1, b1, b2

TwoFirst == g1 :> {a1, b1}
OneLater == g1 :> {b2}
=============================================================================
