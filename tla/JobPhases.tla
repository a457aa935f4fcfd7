----------------------------- MODULE JobPhases -----------------------------
(***************************************************************************)
(* What the control loop takes for granted of a backend's polls, without   *)
(* the processes and goroutines behind them: a run that was dispatched is  *)
(* known from then on, runs until its task has ended, and ends once, as    *)
(* the task did.  A poll may lag behind the task, never run ahead of it or *)
(* contradict it.  LocalBackend implements it.                             *)
(***************************************************************************)

CONSTANTS Runs   \* runs that may be dispatched

VARIABLES
  task,   \* task[r]: what there is of the newest launch of r
  phase   \* phase[r]: what Poll says of r

vars == <<task, phase>>

Init ==
  /\ task = [r \in Runs |-> "none"]
  /\ phase = [r \in Runs |-> "unknown"]

\* Dispatch has returned.  A short task may be over by then; a run that is
\* dispatched again is the run of its new task only.
Launch(r) ==
  /\ \E t \in {"runs", "passed", "broke"} : task' = [task EXCEPT ![r] = t]
  /\ phase' = [phase EXCEPT ![r] = "running"]

\* The task exits with status 0, or otherwise, or is killed.
Ends(r) ==
  /\ task[r] = "runs"
  /\ \E t \in {"passed", "broke"} : task' = [task EXCEPT ![r] = t]
  /\ UNCHANGED phase

\* From now on a poll tells how the task ended.
Tells(r) ==
  /\ phase[r] = "running" /\ task[r] \in {"passed", "broke"}
  /\ phase' = [phase EXCEPT ![r] = IF task[r] = "passed" THEN "complete" ELSE "failed"]
  /\ UNCHANGED task

Next == \E r \in Runs : Launch(r) \/ Ends(r) \/ Tells(r)

Spec == Init /\ [][Next]_vars
=============================================================================
