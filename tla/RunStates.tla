------------------------------ MODULE RunStates ------------------------------
(***************************************************************************)
(* The states a run (one attempt of one suite) and a regression can be in, *)
(* and the two classifications every part of the master relies on: which   *)
(* run states are verdicts, and which verdicts earn another attempt.       *)
(***************************************************************************)

\* Verdicts a runner can report or the master can reach on its own.
Verdict == {"passed", "failed", "errored", "timeout", "canceled"}

RunState == {"queued", "dispatched", "running"} \union Verdict

\* An attempt the backend is believed to be working on.
InFlight == {"dispatched", "running"}

Terminal(s) == s \in Verdict

Retryable(s) == s \in {"failed", "errored", "timeout"}

RegVerdict == {"passed", "failed", "errored"}

\* A regression whose rollup the control loop no longer refreshes.
RegFinal == RegVerdict \union {"canceled"}

RegState == {"pending", "running"} \union RegFinal
==============================================================================
