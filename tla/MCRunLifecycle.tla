--------------------------- MODULE MCRunLifecycle ---------------------------
(* RunLifecycle on small instances. *)
EXTENDS RunLifecycle, TLC

CONSTANTS s1, s2

OneSuiteOneAttempt == s1 :> 1
OneSuiteTwoAttempts == s1 :> 2
OneSuiteThreeAttempts == s1 :> 3
TwoSuitesOneAttempt == s1 :> 1 @@ s2 :> 1
TwoSuitesTwoAndOne == s1 :> 2 @@ s2 :> 1

Symmetry == Permutations(RunIds) \union Permutations(Handlers)
=============================================================================
