---------------------------- MODULE LocalBackend ----------------------------
(***************************************************************************)
(* The local backend: the master runs each attempt as a child process of   *)
(* its own and counts the slots of simulated nodes.  The scheduler's       *)
(* goroutine dispatches, one run at a time; a goroutine per child waits    *)
(* for its exit; handlers stop runs.  Steps are the critical sections of   *)
(* the backend's lock and the system calls in between.                     *)
(***************************************************************************)
EXTENDS RunnerAttempt, Naturals

CONSTANTS
  Runs,       \* runs the scheduler dispatches, some of them again
  Nodes,
  Slots,      \* Slots[n]: slots of node n
  NoRun, NoProc,
  Signals     \* which signals reach runners: "kill" (Stop), "term"

ASSUME NothingAssumption == NoRun \notin Runs /\ NoProc \notin Procs
ASSUME SlotsAssumption == Slots \in [Nodes -> Nat]
\* Without a node nothing is ever dispatched.
ASSUME NodesAssumption == Nodes # {}
ASSUME SignalsAssumption == Signals \subseteq {"kill", "term"}

VARIABLES
  child,     \* child[i]: the run and the node process i was started for, who waits
  procs,     \* LocalBackend.procs: the process a run was last started as
  nodeUse,   \* LocalBackend.nodeUse
  dispatch,  \* the Dispatch the scheduler is in
  stopping   \* the process that a Stop looked up and is about to kill

backend == <<child, procs, nodeUse, dispatch, stopping>>
vars == <<runner, child, procs, nodeUse, dispatch, stopping>>

-----------------------------------------------------------------------------

(* wait: where the goroutine is that waits for the child's exit.            *)
Child == [run: Runs \union {NoRun}, node: Nodes,
          wait: {"none", "waiting", "released", "done"}]

Idle == [pc |-> "idle"]

TypeOK ==
  /\ runner \in [Procs -> Runner]
  /\ child \in [Procs -> Child]
  /\ procs \in [Runs -> Procs \union {NoProc}]
  /\ nodeUse \in [Nodes -> Nat]
  /\ dispatch \in {Idle} \union [pc: {"claimed", "started"}, run: Runs, node: Nodes,
                                 proc: Procs]
  /\ stopping \in Procs \union {NoProc}

Init ==
  /\ runner = [i \in Procs |-> NoRunner]
  /\ child = [i \in Procs |-> [run |-> NoRun, node |-> CHOOSE n \in Nodes : TRUE,
                               wait |-> "none"]]
  /\ procs = [r \in Runs |-> NoProc]
  /\ nodeUse = [n \in Nodes |-> 0]
  /\ dispatch = Idle
  /\ stopping = NoProc

-----------------------------------------------------------------------------
(* Dispatch                                                                 *)

HasSlot(n) == nodeUse[n] < Slots[n]

Fresh == {i \in Procs : runner[i].pc = "none"}

(* claim.  On a full node the launch fails and the scheduler tries later.   *)
Claim(r, n) ==
  /\ dispatch.pc = "idle" /\ Fresh # {}
  /\ HasSlot(n)
  /\ nodeUse' = [nodeUse EXCEPT ![n] = @ + 1]
  /\ dispatch' = [pc |-> "claimed", run |-> r, node |-> n, proc |-> CHOOSE i \in Fresh : TRUE]
  /\ UNCHANGED <<runner, child, procs, stopping>>

\* Mutant: the slot of a child that did not start is kept.
ReleaseNever(n) == UNCHANGED nodeUse

Release(n) == nodeUse' = [nodeUse EXCEPT ![n] = IF @ > 0 THEN @ - 1 ELSE @]

(* No log file, or cmd.Start fails.                                         *)
StartFails ==
  /\ dispatch.pc = "claimed"
  /\ Release(dispatch.node)
  /\ dispatch' = Idle
  /\ UNCHANGED <<runner, child, procs, stopping>>

Start ==
  /\ dispatch.pc = "claimed"
  /\ LET i == dispatch.proc IN
     /\ runner' = [runner EXCEPT ![i].pc = "setup"]
     /\ child' = [child EXCEPT ![i] = [run |-> dispatch.run, node |-> dispatch.node,
                                       wait |-> "none"]]
  /\ dispatch' = [dispatch EXCEPT !.pc = "started"]
  /\ UNCHANGED <<procs, nodeUse, stopping>>

\* Mutant: the node is recorded where the process belongs.
RegisterNode ==
  /\ dispatch.pc = "started"
  /\ procs' = [procs EXCEPT ![dispatch.run] = dispatch.node]
  /\ child' = [child EXCEPT ![dispatch.proc].wait = "waiting"]
  /\ dispatch' = Idle
  /\ UNCHANGED <<runner, nodeUse, stopping>>

(* A run dispatched again loses track of its earlier process, whose         *)
(* goroutine still releases its slot.                                       *)
Register ==
  /\ dispatch.pc = "started"
  /\ procs' = [procs EXCEPT ![dispatch.run] = dispatch.proc]
  /\ child' = [child EXCEPT ![dispatch.proc].wait = "waiting"]
  /\ dispatch' = Idle
  /\ UNCHANGED <<runner, nodeUse, stopping>>

(* The goroutine that waits: first the slot, then, once more under the      *)
(* lock, what Poll looks at.                                                *)
WaitReleases(i) ==
  /\ child[i].wait = "waiting" /\ ~Alive(i)
  /\ Release(child[i].node)
  /\ child' = [child EXCEPT ![i].wait = "released"]
  /\ UNCHANGED <<runner, procs, dispatch, stopping>>

\* Mutant: the end is recorded with the run, whose process may be another one.
WaitRecordsOfRun(i) ==
  /\ child[i].wait = "released"
  /\ child' = [child EXCEPT ![i].wait = "done", ![procs[child[i].run]].wait = "done"]
  /\ UNCHANGED <<runner, procs, nodeUse, dispatch, stopping>>

WaitRecords(i) ==
  /\ child[i].wait = "released"
  /\ child' = [child EXCEPT ![i].wait = "done"]
  /\ UNCHANGED <<runner, procs, nodeUse, dispatch, stopping>>

-----------------------------------------------------------------------------
(* Poll and Stop                                                            *)

Poll(r) ==
  LET i == procs[r] IN
  CASE i = NoProc -> "unknown"
    [] i # NoProc /\ child[i].wait # "done" -> "running"
    [] OTHER -> IF runner[i].pc = "exited" /\ ExitStatus(runner[i]) = 0
                THEN "complete" ELSE "failed"

(* Stop looks the process up under the lock and signals it after.           *)
StopLooksUp(r) ==
  /\ "kill" \in Signals
  /\ stopping = NoProc
  /\ procs[r] # NoProc /\ child[procs[r]].wait # "done"
  /\ stopping' = procs[r]
  /\ UNCHANGED <<runner, child, procs, nodeUse, dispatch>>

StopKills(i) ==
  /\ i = stopping
  /\ runner' = Killed(i)
  /\ stopping' = NoProc
  /\ UNCHANGED <<child, procs, nodeUse, dispatch>>

(* A process manager's SIGTERM.                                             *)
Term(i) ==
  /\ "term" \in Signals
  /\ Terminate(i)
  /\ UNCHANGED backend

RunnerRuns(i) == RunnerStep(i) /\ UNCHANGED backend

Next ==
  \/ \E r \in Runs, n \in Nodes : Claim(r, n)
  \/ StartFails \/ Start \/ Register
  \/ \E i \in Procs : WaitReleases(i) \/ WaitRecords(i) \/ StopKills(i) \/ Term(i)
  \/ \E r \in Runs : StopLooksUp(r)
  \/ \E i \in Procs : RunnerRuns(i)

Spec == Init /\ [][Next]_vars

(* Runners and the goroutines that wait for them go on, the clock passes    *)
(* deadlines; nothing is asked of the suites, or of what they leave behind. *)
Fairness ==
  \A i \in Procs :
    /\ WF_vars(Execute(i) /\ UNCHANGED backend)
    /\ WF_vars(Progress(i) /\ UNCHANGED backend)
    /\ WF_vars(DeadlinePasses(i) /\ UNCHANGED backend)
    /\ WF_vars(KillSuite(i) /\ UNCHANGED backend)
    /\ WF_vars(WaitReleases(i))
    /\ WF_vars(WaitRecords(i))

FairSpec == Spec /\ Fairness

-----------------------------------------------------------------------------
(* Properties                                                               *)

(* What the backend counts is what is there: each slot in use is that of    *)
(* one launch under way or of one child not yet waited for, however often a *)
(* run is dispatched, and no node has more of them than slots.              *)
SlotsAccounted ==
  \A n \in Nodes :
    LET launching == IF dispatch.pc # "idle" /\ dispatch.node = n THEN {dispatch.proc} ELSE {}
        waiting == {i \in Procs : child[i].wait = "waiting" /\ child[i].node = n}
    IN  /\ nodeUse[n] = Cardinality(launching \union waiting)
        /\ nodeUse[n] <= Slots[n]

SuitesOn(n) == {i \in Procs : /\ runner[i].suite = "running" \/ runner[i].held
                              /\ child[i].node = n}

(* What the slots are for: no more suites run on a node than it has slots,  *)
(* from launch until the suite and what it started in the background have   *)
(* ended.  A stop voids it: the suite lives on uncounted.                   *)
SuitesFitSlots ==
  (\A i \in Procs : runner[i].pc # "killed") =>
    \A n \in Nodes : Cardinality(SuitesOn(n)) <= Slots[n]

(* A poll that says complete speaks of a suite that passed, also when the   *)
(* runner's own report was lost: the exit status is all that is left then.  *)
PollSpeaksTrue ==
  \A r \in Runs :
    Poll(r) = "complete" =>
      runner[procs[r]].suite = "clean" /\ runner[procs[r]].tests = "pass"

(* How the process that a run was last started as is doing.                 *)
Task(r) ==
  LET i == procs[r] IN
  CASE i = NoProc                    -> "none"
    [] i # NoProc /\ Alive(i)        -> "runs"
    [] OTHER -> IF runner[i].pc = "exited" /\ ExitStatus(runner[i]) = 0
                THEN "passed" ELSE "broke"

Jobs == INSTANCE JobPhases WITH task  <- [r \in Runs |-> Task(r)],
                                phase <- [r \in Runs |-> Poll(r)]

(* What polls say of a run, in whatever order its processes end and are     *)
(* waited for, is what the control loop takes for granted: running until    *)
(* the newest process has ended, then for good how that one ended.          *)
PollsFollowTasks == Jobs!Spec

(* The suite's process is gone, a descendant has the runner's pipe open:    *)
(* the deadline kills nobody any more.                                      *)
PipeHeld(i) == /\ runner[i].pc = "suite" /\ runner[i].suite # "running"
               /\ runner[i].held

(* Every child is waited for in the end and its slot comes back, also when  *)
(* the suite hangs, the master cannot be reached, or a stop comes late.     *)
(* Only a process that the suite left behind can prevent that, by holding   *)
(* the suite's output for good (runSuite: no WaitDelay).                    *)
SlotsComeBack ==
  \A i \in Procs :
    (child[i].wait = "waiting" ~> child[i].wait = "done") \/ <>[]PipeHeld(i)

(* "Kill the whole process group: the runner may have an Eclipse child."    *)
StopTakesSuite ==
  \A i \in Procs : runner[i].pc = "killed" => runner[i].suite # "running"
=============================================================================
