------------------------- MODULE LocalBackendProofs -------------------------
(***************************************************************************)
(* What the local backend and its runners guarantee for every number of    *)
(* processes, runs, nodes and slots, and whatever signals come.            *)
(*                                                                         *)
(*   RunnerSound   what a runner's suite, progress and posts can be at     *)
(*                 each point of Execute; PassIsGenuine and FinishedIsLast *)
(*                 follow                                                  *)
(*   Launching     how a process and the Dispatch that starts it agree     *)
(*   SlotsHeld     SlotsAccounted, and that the holders are finitely many: *)
(*                 the processes ever started need not be                  *)
(*   ProcessesKnown  whose process is whose: PollsFollowTasks rests on it  *)
(***************************************************************************)
EXTENDS LocalBackend, FiniteSetTheorems, TLAPS

RunnerSound(i) ==
  /\ runner[i].pc = "none" => runner[i] = NoRunner
  /\ runner[i].pc \in {"setup", "build"} =>
       runner[i].suite = "none" /\ runner[i].progress = "off"
  /\ runner[i].suite = "running" => runner[i].pc \in {"suite", "killed"}
  /\ runner[i].held => runner[i].pc = "suite"
  /\ runner[i].pc \in {"report", "exit", "exited", "killed"} =>
       runner[i].progress \in {"off", "gone"}
  /\ runner[i].pc \notin {"report", "exit", "exited"} => runner[i].verdict = "none"
  /\ runner[i].verdict = "passed" => runner[i].suite = "clean" /\ runner[i].tests = "pass"
  /\ runner[i].said = "finished" => runner[i].pc \in {"exit", "exited", "killed"}

RunnersSound == \A i \in Procs : RunnerSound(i)

(* A process is nobody's, being started, waited for, or has ended.          *)
ProcessSound(i) ==
  /\ runner[i].pc = "none" => child[i].wait = "none"
  /\ runner[i].pc # "none" /\ child[i].wait = "none" =>
       dispatch.pc = "started" /\ dispatch.proc = i
  /\ child[i].wait \in {"released", "done"} => runner[i].pc \in {"exited", "killed"}

DispatchSound ==
  /\ dispatch.pc # "idle" => child[dispatch.proc].wait = "none"
  /\ dispatch.pc = "claimed" => runner[dispatch.proc].pc = "none"
  /\ dispatch.pc = "started" =>
       /\ runner[dispatch.proc].pc # "none"
       /\ child[dispatch.proc].node = dispatch.node

Launching == (\A i \in Procs : ProcessSound(i)) /\ DispatchSound

Launched(n) == {i \in Procs : /\ dispatch.pc # "idle" /\ dispatch.node = n
                              /\ dispatch.proc = i}
Waited(n) == {i \in Procs : child[i].wait = "waiting" /\ child[i].node = n}
Held(n) == Launched(n) \union Waited(n)

SlotsHeld ==
  \A n \in Nodes : /\ IsFiniteSet(Held(n)) /\ nodeUse[n] = Cardinality(Held(n))
                   /\ nodeUse[n] <= Slots[n]

Inv == TypeOK /\ RunnersSound /\ Launching /\ SlotsHeld

(* A run's process was started for it, and is waited for; so no two runs    *)
(* have one process.                                                        *)
ProcessesKnown ==
  /\ \A r \in Runs : procs[r] # NoProc =>
       child[procs[r]].run = r /\ child[procs[r]].wait # "none"
  /\ dispatch.pc = "started" => child[dispatch.proc].run = dispatch.run

-----------------------------------------------------------------------------
(* The runner                                                               *)

LEMMA PostsTyped ==
  ASSUME NEW context, NEW event, NEW said, NEW x \in Posts(context, event, said)
  PROVE  x \in {event, said}
BY DEF Posts

(* A step of runner i is one of its record.                                 *)
Moves(i) == /\ runner' \in [Procs -> Runner]
            /\ \A j \in Procs \ {i} : runner'[j] = runner[j]

SuiteState == {"none", "running", "clean", "dirty", "killed"}

LEMMA RunnerFields ==
  ASSUME NEW x \in Runner, NEW v \in {"finished", "interim"}
  PROVE  /\ [x EXCEPT !.pc = "exit"] \in Runner
         /\ [x EXCEPT !.pc = "exited"] \in Runner
         /\ [x EXCEPT !.pc = "killed"] \in Runner
         /\ \A c \in {"live", "canceled"} : [x EXCEPT !.ctx = c] \in Runner
         /\ \A c \in Context : [x EXCEPT !.suiteCtx = c] \in Runner
         /\ \A p \in {"off", "idle"} : [x EXCEPT !.progress = p] \in Runner
         /\ [x EXCEPT !.posted = "none"] \in Runner
         /\ [x EXCEPT !.said = v] \in Runner
         /\ \A suite \in SuiteState : [x EXCEPT !.suite = suite] \in Runner
         /\ \A held \in BOOLEAN : [x EXCEPT !.held = held] \in Runner
BY DEF Runner, Context, SuiteState

LEMMA Written ==
  ASSUME runner \in [Procs -> Runner], NEW i \in Procs, NEW rec \in Runner,
         runner' = [runner EXCEPT ![i] = rec]
  PROVE  Moves(i) /\ runner'[i] = rec
BY DEF Moves

(* What the steps of a runner keep, one lemma per goroutine of it.          *)
LEMMA ExecuteSound ==
  ASSUME runner \in [Procs -> Runner], NEW i \in Procs, RunnerSound(i), Execute(i)
  PROVE  Moves(i) /\ RunnerSound(i)' /\ (runner[i].said = "finished" => runner'[i].said = "finished")
<1>1. CASE Setup(i)
  BY <1>1, PostsTyped DEF Setup, Moves, Runner, RunnerSound
<1>2. CASE PrepareBuild(i)
  BY <1>2 DEF PrepareBuild, Moves, Runner, RunnerSound
<1>3. CASE SuiteReturns(i)
  BY <1>3 DEF SuiteReturns, Moves, Runner, RunnerSound
<1>4. CASE Judge(i)
  BY <1>4 DEF Judge, VerdictOf, Classify, Moves, Runner, RunnerSound
<1>5. CASE Report(i)
  <2>1. PICK said \in Posts(runner[i].ctx, "finished", runner[i].said) :
          runner' = [runner EXCEPT ![i].pc = "exit", ![i].said = said]
    BY <1>5 DEF Report
  <2>2. said \in {"finished", runner[i].said}
    BY PostsTyped
  <2> DEFINE rec == [runner[i] EXCEPT !.pc = "exit", !.said = said]
  <2>3. said \in {"finished", "interim"}
    BY <2>2 DEF Runner
  <2>4. rec \in Runner
    BY <2>3, RunnerFields
  <2>5. runner' = [runner EXCEPT ![i] = rec]
    BY <2>1 DEF Runner
  <2>6. Moves(i) /\ runner'[i] = rec
    BY <2>4, <2>5, Written
  <2>. QED BY <1>5, <2>2, <2>6 DEF Report, RunnerSound, Runner
<1>6. CASE Exit(i)
  <2> DEFINE rec == [runner[i] EXCEPT !.pc = "exited", !.ctx = "live", !.suiteCtx = "live",
                                      !.progress = "off", !.posted = "none"]
  <2>1. rec \in Runner
    BY RunnerFields DEF Context
  <2>2. runner' = [runner EXCEPT ![i] = rec]
    BY <1>6 DEF Exit, Runner
  <2>3. Moves(i) /\ runner'[i] = rec
    BY <2>1, <2>2, Written
  <2>. QED BY <1>6, <2>3 DEF Exit, RunnerSound, Runner
<1>. QED BY <1>1, <1>2, <1>3, <1>4, <1>5, <1>6 DEF Execute

LEMMA ProgressSound ==
  ASSUME runner \in [Procs -> Runner], NEW i \in Procs, RunnerSound(i), Progress(i)
  PROVE  Moves(i) /\ RunnerSound(i)' /\ (runner[i].said = "finished" => runner'[i].said = "finished")
<1>1. CASE ProgressTicks(i)
  BY <1>1 DEF ProgressTicks, Moves, Runner, RunnerSound
<1>2. CASE ProgressPosts(i)
  <2>1. PICK said \in Posts(runner[i].suiteCtx, "interim", runner[i].said) :
          runner' = [runner EXCEPT ![i].progress = "idle", ![i].said = said]
    BY <1>2 DEF ProgressPosts
  <2>2. said \in {"interim", runner[i].said}
    BY PostsTyped
  <2> DEFINE rec == [runner[i] EXCEPT !.progress = "idle", !.said = said]
  <2>3. said \in {"finished", "interim"}
    BY <2>2 DEF Runner
  <2>4. rec \in Runner
    BY <2>3, RunnerFields
  <2>5. runner' = [runner EXCEPT ![i] = rec]
    BY <2>1 DEF Runner
  <2>6. Moves(i) /\ runner'[i] = rec
    BY <2>4, <2>5, Written
  <2>. QED BY <1>2, <2>2, <2>6 DEF ProgressPosts, RunnerSound, Runner, Alive
<1>3. CASE ProgressStops(i)
  BY <1>3 DEF ProgressStops, Moves, Runner, RunnerSound, Alive
<1>. QED BY <1>1, <1>2, <1>3 DEF Progress

LEMMA SuiteSound ==
  ASSUME runner \in [Procs -> Runner], NEW i \in Procs, RunnerSound(i),
         \/ SuiteWrites(i) \/ SuiteExits(i) \/ SuiteForks(i) \/ HolderEnds(i)
         \/ DeadlinePasses(i) \/ KillSuite(i) \/ Terminate(i)
  PROVE  Moves(i) /\ RunnerSound(i)' /\ (runner[i].said = "finished" => runner'[i].said = "finished")
<1>1. CASE SuiteWrites(i)
  <2>1. PICK tests \in {"pass", "fail"} : runner' = [runner EXCEPT ![i].tests = tests]
    BY <1>1 DEF SuiteWrites
  <2>2. /\ Alive(i) /\ (runner[i].suite = "running" \/ runner[i].held)
        /\ runner[i].pc = "suite"
    BY <1>1 DEF SuiteWrites, RunnerSound, Alive
  <2> DEFINE rec == [runner[i] EXCEPT !.tests = tests]
  <2>3. rec \in Runner
    BY DEF Runner
  <2>4. runner' = [runner EXCEPT ![i] = rec]
    BY <2>1 DEF Runner
  <2>5. Moves(i) /\ runner'[i] = rec
    BY <2>3, <2>4, Written
  <2>6. runner[i] \in Runner
    OBVIOUS
  <2>. QED BY <2>2, <2>5, <2>6 DEF RunnerSound, Runner
<1>2. CASE SuiteExits(i)
  BY <1>2 DEF SuiteExits, Moves, Runner, RunnerSound, Alive, Context
<1>3. CASE DeadlinePasses(i)
  BY <1>3 DEF DeadlinePasses, Moves, Runner, RunnerSound, Alive, Context
<1>4. CASE KillSuite(i)
  BY <1>4 DEF KillSuite, Moves, Runner, RunnerSound, Alive, Context
<1>5. CASE Terminate(i)
  <2> DEFINE next == IF runner[i].suiteCtx = "live" THEN "canceled" ELSE runner[i].suiteCtx
             rec == [runner[i] EXCEPT !.ctx = "canceled", !.suiteCtx = next]
  <2>1. rec \in Runner
    <3>1. runner[i] \in Runner /\ [runner[i] EXCEPT !.ctx = "canceled"] \in Runner
      BY RunnerFields
    <3>2. next \in Context
      BY DEF Runner, Context
    <3>. QED BY <3>1, <3>2, RunnerFields
  <2>2. runner' = [runner EXCEPT ![i] = rec]
    BY <1>5 DEF Terminate, Runner
  <2>3. Moves(i) /\ runner'[i] = rec
    BY <2>1, <2>2, Written
  <2>. QED BY <1>5, <2>3 DEF Terminate, RunnerSound, Runner, Alive
<1>6. CASE SuiteForks(i) \/ HolderEnds(i)
  <2>1. PICK held \in BOOLEAN : runner' = [runner EXCEPT ![i].held = held]
    BY <1>6 DEF SuiteForks, HolderEnds
  <2>2. runner[i].pc = "suite"
    BY <1>6 DEF SuiteForks, HolderEnds, RunnerSound, Alive
  <2> DEFINE rec == [runner[i] EXCEPT !.held = held]
  <2>3. runner[i] \in Runner /\ rec \in Runner
    BY RunnerFields
  <2>4. runner' = [runner EXCEPT ![i] = rec]
    BY <2>1 DEF Runner
  <2>5. Moves(i) /\ runner'[i] = rec
    BY <2>3, <2>4, Written
  <2>. QED BY <2>2, <2>3, <2>5 DEF RunnerSound, Runner
<1>. QED BY <1>1, <1>2, <1>3, <1>4, <1>5, <1>6

LEMMA KilledSound ==
  ASSUME runner \in [Procs -> Runner], NEW i \in Procs, RunnerSound(i), runner' = Killed(i)
  PROVE  Moves(i) /\ RunnerSound(i)' /\ (runner[i].said = "finished" => runner'[i].said = "finished")
<1>1. CASE Alive(i)
  <2> DEFINE rec == [NoRunner EXCEPT !.pc = "killed", !.suite = runner[i].suite,
                                     !.said = runner[i].said]
  <2>1. rec \in Runner
    <3>1. NoRunner \in Runner
      BY DEF NoRunner, Runner, Context
    <3>2. runner[i].suite \in SuiteState /\ runner[i].said \in {"finished", "interim"}
      BY DEF Runner, SuiteState
    <3>. QED BY <3>1, <3>2, RunnerFields
  <2>2. /\ rec.pc = "killed" /\ rec.progress = "off" /\ rec.verdict = "none" /\ ~rec.held
        /\ rec.suite = runner[i].suite /\ rec.said = runner[i].said
    BY DEF NoRunner
  <2>3. runner' = [runner EXCEPT ![i] = rec]
    BY <1>1 DEF Killed
  <2>4. Moves(i) /\ runner'[i] = rec
    BY <2>1, <2>3, Written
  <2>. HIDE DEF rec
  <2>. QED BY <1>1, <2>2, <2>4 DEF RunnerSound, Alive
<1>2. CASE ~Alive(i)
  BY <1>2 DEF Killed, Moves, RunnerSound
<1>. QED BY <1>1, <1>2

(* A process that is not there yet, or not any more, stays so.              *)
LEMMA LifeMoves ==
  ASSUME runner \in [Procs -> Runner], NEW i \in Procs,
         RunnerStep(i) \/ Terminate(i) \/ runner' = Killed(i)
  PROVE  /\ runner'[i].pc = "none" <=> runner[i].pc = "none"
         /\ ~Alive(i) => runner'[i].pc = runner[i].pc /\ runner'[i].verdict = runner[i].verdict
<1>. USE DEF Alive, Runner
<1>1. CASE Execute(i)
  <2>1. CASE Setup(i)
    BY <2>1 DEF Setup
  <2>2. CASE PrepareBuild(i)
    BY <2>2 DEF PrepareBuild
  <2>3. CASE SuiteReturns(i) \/ Judge(i)
    BY <2>3 DEF SuiteReturns, Judge
  <2>4. CASE Report(i)
    BY <2>4 DEF Report
  <2>5. CASE Exit(i)
    BY <2>5 DEF Exit
  <2>. QED BY <1>1, <2>1, <2>2, <2>3, <2>4, <2>5 DEF Execute
<1>2. CASE Progress(i)
  <2>1. CASE ProgressTicks(i)
    BY <2>1 DEF ProgressTicks
  <2>2. CASE ProgressPosts(i)
    BY <2>2 DEF ProgressPosts
  <2>3. CASE ProgressStops(i)
    BY <2>3 DEF ProgressStops
  <2>. QED BY <1>2, <2>1, <2>2, <2>3 DEF Progress
<1>3. CASE SuiteWrites(i) \/ SuiteExits(i) \/ SuiteForks(i) \/ HolderEnds(i)
  BY <1>3 DEF SuiteWrites, SuiteExits, SuiteForks, HolderEnds
<1>4. CASE DeadlinePasses(i) \/ KillSuite(i)
  BY <1>4 DEF DeadlinePasses, KillSuite
<1>5. CASE Terminate(i)
  BY <1>5 DEF Terminate
<1>6. CASE runner' = Killed(i)
  BY <1>6 DEF Killed, NoRunner
<1>. QED BY <1>1, <1>2, <1>3, <1>4, <1>5, <1>6 DEF RunnerStep

(* Whatever moves a process that was started.                               *)
LEMMA RunnerMoves ==
  ASSUME runner \in [Procs -> Runner], NEW i \in Procs, RunnerSound(i),
         RunnerStep(i) \/ Terminate(i) \/ runner' = Killed(i)
  PROVE  Moves(i) /\ RunnerSound(i)' /\ (runner[i].said = "finished" => runner'[i].said = "finished")
BY ExecuteSound, ProgressSound, SuiteSound, KilledSound DEF RunnerStep

-----------------------------------------------------------------------------
(* The backend's steps                                                      *)

Steps(i) == RunnerStep(i) \/ Terminate(i) \/ runner' = Killed(i)

(* A step of the backend or of somebody's runner.                           *)
LEMMA StepKinds ==
  ASSUME TypeOK, [Next]_vars
  PROVE  \/ \E r \in Runs, n \in Nodes : Claim(r, n)
         \/ StartFails \/ Start \/ Register
         \/ \E i \in Procs : WaitReleases(i) \/ WaitRecords(i)
         \/ UNCHANGED runner /\ UNCHANGED <<child, procs, nodeUse, dispatch>>
                              /\ stopping' \in Procs \union {NoProc}
         \/ \E i \in Procs : /\ Steps(i) /\ UNCHANGED <<child, procs, nodeUse, dispatch>>
                            /\ stopping' \in Procs \union {NoProc}
<1>1. ASSUME NEW i \in Procs, StopKills(i) \/ Term(i) \/ RunnerRuns(i)
      PROVE  /\ Steps(i) /\ UNCHANGED <<child, procs, nodeUse, dispatch>>
             /\ stopping' \in Procs \union {NoProc}
  BY <1>1 DEF StopKills, Term, RunnerRuns, Steps, backend, TypeOK
<1>2. ASSUME NEW r \in Runs, StopLooksUp(r)
      PROVE  /\ UNCHANGED runner /\ UNCHANGED <<child, procs, nodeUse, dispatch>>
             /\ stopping' \in Procs \union {NoProc}
  BY <1>2 DEF StopLooksUp, TypeOK
<1>3. CASE UNCHANGED vars
  BY <1>3 DEF vars, TypeOK
<1>. QED BY <1>1, <1>2, <1>3 DEF Next

LEMMA RunnersStep ==
  ASSUME TypeOK, RunnersSound, Launching, [Next]_vars
  PROVE  /\ runner' \in [Procs -> Runner] /\ RunnersSound'
         /\ \A i \in Procs : runner[i].said = "finished" => runner'[i].said = "finished"
<1>. USE DEF RunnersSound
<1>1. CASE UNCHANGED runner
  BY <1>1 DEF RunnerSound, TypeOK
<1>2. CASE Start
  <2>1. PICK i \in Procs : i = dispatch.proc /\ runner[i].pc = "none" /\ runner[i] = NoRunner
    BY <1>2 DEF Start, Launching, ProcessSound, DispatchSound, TypeOK, Idle, RunnerSound
  <2> DEFINE rec == [NoRunner EXCEPT !.pc = "setup"]
  <2>2. rec \in Runner
    BY DEF NoRunner, Runner, Context
  <2>3. runner' = [runner EXCEPT ![i] = rec]
    BY <1>2, <2>1 DEF Start, TypeOK
  <2>4. Moves(i) /\ runner'[i] = rec
    BY <2>1, <2>2, <2>3, Written DEF TypeOK
  <2>5. /\ rec.pc = "setup" /\ rec.progress = "off" /\ rec.verdict = "none"
        /\ rec.suite = "none" /\ ~rec.held /\ rec.said = "interim" /\ NoRunner.said = "interim"
    BY DEF NoRunner
  <2>. HIDE DEF rec
  <2>6. RunnerSound(i)'
    BY <2>4, <2>5 DEF RunnerSound
  <2>. QED BY <2>1, <2>4, <2>5, <2>6 DEF Moves, RunnerSound
<1>3. ASSUME NEW i \in Procs, Steps(i)
      PROVE  /\ runner' \in [Procs -> Runner] /\ RunnersSound'
             /\ \A j \in Procs : runner[j].said = "finished" => runner'[j].said = "finished"
  <2>1. Moves(i) /\ RunnerSound(i)' /\ (runner[i].said = "finished" => runner'[i].said = "finished")
    BY <1>3, RunnerMoves DEF Steps, TypeOK
  <2>. QED BY <2>1 DEF Moves, RunnerSound
<1>4. StartFails \/ Register \/ (\E r \in Runs, n \in Nodes : Claim(r, n))
        \/ (\E i \in Procs : WaitReleases(i) \/ WaitRecords(i)) => UNCHANGED runner
  BY DEF StartFails, Register, Claim, WaitReleases, WaitRecords
<1>. QED BY <1>1, <1>2, <1>3, <1>4, StepKinds

LEMMA TypeStep ==
  ASSUME TypeOK, RunnersSound, Launching, [Next]_vars PROVE TypeOK'
<1>0. runner' \in [Procs -> Runner]
  BY RunnersStep
<1>. USE <1>0, SlotsAssumption DEF TypeOK
<1>1. ASSUME NEW r \in Runs, NEW n \in Nodes, Claim(r, n) PROVE TypeOK'
  BY <1>1 DEF Claim, Fresh
<1>2. CASE StartFails
  <2>1. dispatch.node \in Nodes
    BY <1>2 DEF StartFails, Idle
  <2>2. nodeUse' \in [Nodes -> Nat]
    BY <1>2, <2>1 DEF StartFails, Release
  <2>. QED BY <1>2, <2>2 DEF StartFails
<1>3. CASE Start
  BY <1>3 DEF Start, Idle, Child
<1>4. CASE Register
  BY <1>4 DEF Register, Idle, Child
<1>5. ASSUME NEW i \in Procs, WaitReleases(i) PROVE TypeOK'
  BY <1>5 DEF WaitReleases, Release, Child
<1>6. ASSUME NEW i \in Procs, WaitRecords(i) PROVE TypeOK'
  BY <1>6 DEF WaitRecords, Child
<1>7. CASE UNCHANGED <<child, procs, nodeUse, dispatch>> /\ stopping' \in Procs \union {NoProc}
  BY <1>7
<1>. QED BY <1>1, <1>2, <1>3, <1>4, <1>5, <1>6, <1>7, StepKinds

LEMMA LaunchingStep ==
  ASSUME TypeOK, RunnersSound, Launching, [Next]_vars PROVE Launching'
<1>0. TypeOK'
  BY TypeStep
<1>1. ASSUME NEW r \in Runs, NEW n \in Nodes, Claim(r, n) PROVE Launching'
  <2>1. PICK i \in Procs : /\ runner[i].pc = "none"
                           /\ dispatch' = [pc |-> "claimed", run |-> r, node |-> n, proc |-> i]
    BY <1>1 DEF Claim, Fresh
  <2>2. UNCHANGED <<runner, child>>
    BY <1>1 DEF Claim
  <2>3. dispatch.pc = "idle"
    BY <1>1 DEF Claim
  <2>4. ASSUME NEW j \in Procs PROVE ProcessSound(j)'
    BY <2>2, <2>3 DEF Launching, ProcessSound
  <2>5. DispatchSound'
    BY <2>1, <2>2 DEF Launching, ProcessSound, DispatchSound
  <2>. QED BY <2>4, <2>5 DEF Launching
<1>2. CASE StartFails
  BY <1>2 DEF StartFails, Launching, Idle, Alive, ProcessSound, DispatchSound
<1>3. CASE Start
  <2>1. PICK i \in Procs, n \in Nodes, r \in Runs :
          /\ dispatch.pc = "claimed" /\ dispatch.proc = i /\ dispatch.node = n /\ dispatch.run = r
          /\ dispatch'.pc = "started" /\ dispatch'.proc = i /\ dispatch'.node = n
    BY <1>3 DEF Start, TypeOK, Idle
  <2>2. /\ runner'[i].pc = "setup" /\ \A j \in Procs \ {i} : runner'[j] = runner[j]
    BY <1>3, <2>1 DEF Start, TypeOK, Runner
  <2>3. /\ child'[i].node = n /\ child'[i].wait = "none"
        /\ \A j \in Procs \ {i} : child'[j] = child[j]
    BY <1>3, <2>1 DEF Start, TypeOK
  <2>. QED BY <2>1, <2>2, <2>3 DEF Launching, ProcessSound, DispatchSound, Alive
<1>4. CASE Register
  <2>1. PICK i \in Procs, n \in Nodes :
          /\ dispatch.pc = "started" /\ dispatch.proc = i /\ dispatch.node = n
          /\ dispatch'.pc = "idle"
    BY <1>4 DEF Register, TypeOK, Idle
  <2>2. /\ child'[i].wait = "waiting" /\ \A j \in Procs \ {i} : child'[j] = child[j]
    BY <1>4, <2>1 DEF Register, TypeOK, Child
  <2>3. UNCHANGED runner
    BY <1>4 DEF Register
  <2>. QED BY <2>1, <2>2, <2>3 DEF Launching, ProcessSound, DispatchSound, Alive
<1>5. ASSUME NEW i \in Procs, WaitReleases(i) \/ WaitRecords(i) PROVE Launching'
  <2>1. /\ child[i].wait \in {"waiting", "released"} /\ runner[i].pc \in {"exited", "killed"}
        /\ child'[i].wait \in {"released", "done"} /\ child'[i].node = child[i].node
        /\ \A j \in Procs \ {i} : child'[j] = child[j]
    BY <1>5 DEF WaitReleases, WaitRecords, TypeOK, Child, Launching, ProcessSound, Alive
  <2>2. UNCHANGED <<runner, dispatch>>
    BY <1>5 DEF WaitReleases, WaitRecords
  <2>3. \A j \in Procs : ProcessSound(j)'
    BY <2>1, <2>2 DEF Launching, ProcessSound
  <2>4. dispatch.pc # "idle" => dispatch.proc \in Procs /\ dispatch.proc # i
    BY <2>1 DEF Launching, DispatchSound, TypeOK, Idle
  <2>5. DispatchSound'
    BY <2>1, <2>2, <2>4 DEF Launching, DispatchSound
  <2>. QED BY <2>3, <2>5 DEF Launching
<1>6. ASSUME NEW i \in Procs, Steps(i), UNCHANGED <<child, procs, nodeUse, dispatch>>
      PROVE  Launching'
  <2>1. Moves(i)
    BY <1>6, RunnerMoves DEF Steps, TypeOK, RunnersSound
  <2>2. /\ runner'[i].pc = "none" <=> runner[i].pc = "none"
        /\ ~Alive(i) => runner'[i].pc = runner[i].pc
    BY <1>6, LifeMoves DEF Steps, TypeOK
  <2>3. /\ \A j \in Procs : runner'[j].pc = "none" <=> runner[j].pc = "none"
        /\ \A j \in Procs : runner[j].pc \in {"exited", "killed"} => runner'[j].pc = runner[j].pc
    BY <2>1, <2>2 DEF Moves, Alive
  <2>4. \A j \in Procs : ProcessSound(j)'
    BY <1>6, <2>3 DEF Launching, ProcessSound
  <2>5. dispatch.pc # "idle" => dispatch.proc \in Procs
    BY DEF TypeOK, Idle
  <2>6. DispatchSound'
    BY <1>6, <2>3, <2>5 DEF Launching, DispatchSound, Idle, TypeOK
  <2>. QED BY <2>4, <2>6 DEF Launching
<1>7. CASE UNCHANGED runner /\ UNCHANGED <<child, procs, nodeUse, dispatch>>
  BY <1>7 DEF Launching, ProcessSound, DispatchSound, Alive
<1>. QED BY <1>1, <1>2, <1>3, <1>4, <1>5, <1>6, <1>7, StepKinds

(* The count of a node whose holders are what they were, one more, or one   *)
(* less.                                                                    *)
HeldCounted(n) == /\ IsFiniteSet(Held(n)) /\ nodeUse[n] = Cardinality(Held(n))
                  /\ nodeUse[n] <= Slots[n]

LEMMA Kept ==
  ASSUME NEW n \in Nodes, HeldCounted(n), Held(n)' = Held(n), nodeUse'[n] = nodeUse[n]
  PROVE  HeldCounted(n)'
BY DEF HeldCounted

LEMMA Gained ==
  ASSUME TypeOK, NEW n \in Nodes, NEW i, HeldCounted(n), i \notin Held(n),
         Held(n)' = Held(n) \union {i}, HasSlot(n), nodeUse'[n] = nodeUse[n] + 1
  PROVE  HeldCounted(n)'
<1>1. IsFiniteSet(Held(n)') /\ Cardinality(Held(n)') = Cardinality(Held(n)) + 1
  BY FS_AddElement DEF HeldCounted
<1>. QED BY <1>1, SlotsAssumption DEF HeldCounted, HasSlot, TypeOK

LEMMA Lost ==
  ASSUME TypeOK, NEW n \in Nodes, NEW i, HeldCounted(n), i \in Held(n),
         Held(n)' = Held(n) \ {i}, Release(n)
  PROVE  HeldCounted(n)'
<1>1. IsFiniteSet(Held(n)') /\ Cardinality(Held(n)') = Cardinality(Held(n)) - 1
  BY FS_RemoveElement DEF HeldCounted
<1>2. Cardinality(Held(n)) \in Nat /\ Cardinality(Held(n)) # 0
  BY FS_CardinalityType, FS_EmptySet DEF HeldCounted
<1>3. nodeUse[n] > 0 /\ nodeUse[n] = Cardinality(Held(n))
  BY <1>2 DEF HeldCounted
<1>4. nodeUse'[n] = nodeUse[n] - 1
  BY <1>3 DEF Release, TypeOK
<1>. QED BY <1>1, <1>3, <1>4, SlotsAssumption DEF HeldCounted, TypeOK

LEMMA SlotsHeldStep ==
  ASSUME TypeOK, RunnersSound, Launching, SlotsHeld, [Next]_vars PROVE SlotsHeld'
<1>. SUFFICES ASSUME NEW n \in Nodes PROVE HeldCounted(n)'
  BY DEF SlotsHeld, HeldCounted
<1>0. HeldCounted(n)
  BY DEF SlotsHeld, HeldCounted
<1>1. ASSUME NEW r \in Runs, NEW m \in Nodes, Claim(r, m) PROVE HeldCounted(n)'
  <2>1. PICK i \in Procs : /\ runner[i].pc = "none"
                           /\ dispatch' = [pc |-> "claimed", run |-> r, node |-> m, proc |-> i]
    BY <1>1 DEF Claim, Fresh
  <2>2. UNCHANGED child /\ dispatch.pc = "idle" /\ child[i].wait = "none"
    BY <1>1, <2>1 DEF Claim, Launching, ProcessSound, DispatchSound
  <2>3. i \notin Held(n)
    BY <2>2 DEF Held, Launched, Waited
  <2>4. CASE n = m
    <3>1. Held(n)' = Held(n) \union {i}
      BY <2>1, <2>2, <2>4 DEF Held, Launched, Waited
    <3>2. nodeUse'[n] = nodeUse[n] + 1 /\ HasSlot(n)
      BY <1>1, <2>4 DEF Claim, TypeOK
    <3>. QED BY <1>0, <2>3, <3>1, <3>2, Gained
  <2>5. CASE n # m
    <3>1. Held(n)' = Held(n)
      BY <2>1, <2>2, <2>5 DEF Held, Launched, Waited
    <3>2. nodeUse'[n] = nodeUse[n]
      BY <1>1, <2>5 DEF Claim, TypeOK
    <3>. QED BY <1>0, <3>1, <3>2, Kept
  <2>. QED BY <2>4, <2>5
<1>2. CASE StartFails
  <2>1. PICK i \in Procs, m \in Nodes :
          dispatch.pc = "claimed" /\ dispatch.proc = i /\ dispatch.node = m
    BY <1>2 DEF StartFails, TypeOK, Idle
  <2>2. UNCHANGED child /\ dispatch'.pc = "idle" /\ child[i].wait = "none" /\ Release(m)
    BY <1>2, <2>1 DEF StartFails, Launching, ProcessSound, DispatchSound, Idle
  <2>3. CASE n = m
    <3>1. i \in Held(n) /\ Held(n)' = Held(n) \ {i}
      BY <2>1, <2>2, <2>3 DEF Held, Launched, Waited
    <3>. QED BY <1>0, <2>2, <2>3, <3>1, Lost
  <2>4. CASE n # m
    <3>1. Held(n)' = Held(n)
      BY <2>1, <2>2, <2>4 DEF Held, Launched, Waited
    <3>2. nodeUse'[n] = nodeUse[n]
      BY <2>2, <2>4 DEF Release, TypeOK
    <3>. QED BY <1>0, <3>1, <3>2, Kept
  <2>. QED BY <2>3, <2>4
<1>3. CASE Start
  <2>1. PICK i \in Procs, m \in Nodes, r \in Runs :
          /\ dispatch.pc = "claimed" /\ dispatch.proc = i /\ dispatch.node = m /\ dispatch.run = r
          /\ dispatch'.pc = "started" /\ dispatch'.proc = i /\ dispatch'.node = m
    BY <1>3 DEF Start, TypeOK, Idle
  <2>2. /\ child[i].wait = "none" /\ child'[i].wait = "none"
        /\ \A j \in Procs \ {i} : child'[j] = child[j]
    BY <1>3, <2>1 DEF Start, TypeOK, Launching, ProcessSound, DispatchSound
  <2>3. Held(n)' = Held(n)
    BY <2>1, <2>2 DEF Held, Launched, Waited
  <2>. QED BY <1>0, <1>3, <2>3, Kept DEF Start
<1>4. CASE Register
  <2>1. PICK i \in Procs, m \in Nodes :
          /\ dispatch.pc = "started" /\ dispatch.proc = i /\ dispatch.node = m
          /\ dispatch'.pc = "idle"
    BY <1>4 DEF Register, TypeOK, Idle
  <2>2. /\ child[i].wait = "none" /\ child'[i].wait = "waiting" /\ child'[i].node = m
        /\ \A j \in Procs \ {i} : child'[j] = child[j]
    BY <1>4, <2>1 DEF Register, TypeOK, Child, Launching, ProcessSound, DispatchSound
  <2>3. Held(n)' = Held(n)
    BY <2>1, <2>2 DEF Held, Launched, Waited
  <2>. QED BY <1>0, <1>4, <2>3, Kept DEF Register
<1>5. ASSUME NEW i \in Procs, WaitReleases(i) PROVE HeldCounted(n)'
  <2>1. /\ child[i].wait = "waiting" /\ child'[i].wait = "released" /\ child[i].node \in Nodes
        /\ child'[i].node = child[i].node /\ \A j \in Procs \ {i} : child'[j] = child[j]
    BY <1>5 DEF WaitReleases, TypeOK, Child
  <2>2. dispatch.pc # "idle" => dispatch.proc # i
    BY <2>1 DEF Launching, ProcessSound, DispatchSound
  <2>3. UNCHANGED dispatch /\ Release(child[i].node)
    BY <1>5 DEF WaitReleases
  <2>4. CASE child[i].node = n
    <3>1. i \in Held(n) /\ Held(n)' = Held(n) \ {i}
      BY <2>1, <2>2, <2>3, <2>4 DEF Held, Launched, Waited
    <3>. QED BY <1>0, <2>3, <2>4, <3>1, Lost
  <2>5. CASE child[i].node # n
    <3>1. Held(n)' = Held(n)
      BY <2>1, <2>2, <2>3, <2>5 DEF Held, Launched, Waited
    <3>2. nodeUse'[n] = nodeUse[n]
      BY <2>1, <2>3, <2>5 DEF Release, TypeOK
    <3>. QED BY <1>0, <3>1, <3>2, Kept
  <2>. QED BY <2>4, <2>5
<1>6. ASSUME NEW i \in Procs, WaitRecords(i) PROVE HeldCounted(n)'
  <2>1. /\ child[i].wait = "released" /\ child'[i].wait = "done"
        /\ \A j \in Procs \ {i} : child'[j] = child[j]
    BY <1>6 DEF WaitRecords, TypeOK, Child
  <2>2. UNCHANGED <<dispatch, nodeUse>>
    BY <1>6 DEF WaitRecords
  <2>3. Held(n)' = Held(n)
    BY <2>1, <2>2 DEF Held, Launched, Waited
  <2>. QED BY <1>0, <2>2, <2>3, Kept
<1>7. CASE UNCHANGED <<child, procs, nodeUse, dispatch>>
  <2>1. Held(n)' = Held(n)
    BY <1>7 DEF Held, Launched, Waited
  <2>. QED BY <1>0, <1>7, <2>1, Kept
<1>. QED BY <1>1, <1>2, <1>3, <1>4, <1>5, <1>6, <1>7, StepKinds

-----------------------------------------------------------------------------
(* The theorems                                                             *)

LEMMA InvInit == Init => Inv
<1>. SUFFICES ASSUME Init PROVE Inv
  OBVIOUS
<1>1. NoRunner \in Runner
  BY DEF NoRunner, Runner, Context
<1>2. TypeOK
  BY <1>1, NodesAssumption DEF Init, TypeOK, Child
<1>3. RunnersSound
  <2>1. /\ NoRunner.pc = "none" /\ NoRunner.suite = "none" /\ NoRunner.progress = "off"
        /\ ~NoRunner.held
        /\ NoRunner.verdict = "none" /\ NoRunner.said = "interim"
    BY DEF NoRunner
  <2>. QED BY <2>1 DEF Init, RunnersSound, RunnerSound
<1>4. Launching
  BY DEF Init, Launching, ProcessSound, DispatchSound, Idle, Alive, NoRunner
<1>5. SlotsHeld
  <2>. SUFFICES ASSUME NEW n \in Nodes PROVE HeldCounted(n)
    BY DEF SlotsHeld, HeldCounted
  <2>1. Held(n) = {}
    BY DEF Init, Held, Launched, Waited, Idle
  <2>2. nodeUse[n] = 0
    BY DEF Init
  <2>. QED BY <2>1, <2>2, FS_EmptySet, SlotsAssumption DEF HeldCounted
<1>. QED BY <1>2, <1>3, <1>4, <1>5 DEF Inv

LEMMA InvStep == Inv /\ [Next]_vars => Inv'
BY TypeStep, RunnersStep, LaunchingStep, SlotsHeldStep DEF Inv

(* The inductive invariant.                                                 *)
THEOREM LocalInvariant == Spec => []Inv
BY InvInit, InvStep, PTL DEF Spec

(* The master's books and the processes it started stay well-formed.        *)
THEOREM LocalTypes == Spec => []TypeOK
<1>1. Inv => TypeOK
  BY DEF Inv
<1>. QED BY LocalInvariant, <1>1, PTL

(* nodeUse counts, at every moment, the launch under way and the children   *)
(* not yet waited for, and never exceeds a node's slots: for any number of  *)
(* runs, dispatched however often, and of nodes with any number of slots.   *)
THEOREM SlotsAreAccounted == Spec => []SlotsAccounted
<1>1. Inv => SlotsAccounted
  <2>. SUFFICES ASSUME Inv, NEW n \in Nodes PROVE
         LET launching == IF dispatch.pc # "idle" /\ dispatch.node = n THEN {dispatch.proc} ELSE {}
             waiting == {i \in Procs : child[i].wait = "waiting" /\ child[i].node = n}
         IN  /\ nodeUse[n] = Cardinality(launching \union waiting)
             /\ nodeUse[n] <= Slots[n]
    BY DEF SlotsAccounted
  <2> DEFINE launching == IF dispatch.pc # "idle" /\ dispatch.node = n THEN {dispatch.proc} ELSE {}
             waiting == {i \in Procs : child[i].wait = "waiting" /\ child[i].node = n}
  <2>1. launching \union waiting = Held(n)
    BY DEF Held, Launched, Waited, Inv, TypeOK, Idle
  <2>2. nodeUse[n] = Cardinality(Held(n)) /\ nodeUse[n] <= Slots[n]
    BY DEF Inv, SlotsHeld
  <2>. QED BY <2>1, <2>2
<1>. QED BY LocalInvariant, <1>1, PTL

(* A suite that runs is one of a process that holds a slot, as long as no   *)
(* runner was killed without its suite; so the suites on a node fit.        *)
THEOREM SuitesFit == Spec => []SuitesFitSlots
<1>1. Inv => SuitesFitSlots
  <2>. SUFFICES ASSUME Inv, \A i \in Procs : runner[i].pc # "killed", NEW n \in Nodes
                PROVE  Cardinality(SuitesOn(n)) <= Slots[n]
    BY DEF SuitesFitSlots
  <2>1. ASSUME NEW i \in SuitesOn(n) PROVE i \in Held(n)
    <3>1. i \in Procs /\ child[i].node = n /\ (runner[i].suite = "running" \/ runner[i].held)
      BY DEF SuitesOn
    <3>2. runner[i].pc = "suite"
      BY <3>1 DEF Inv, RunnersSound, RunnerSound
    <3>3. child[i].wait \in {"none", "waiting"}
      BY <3>1, <3>2 DEF Inv, Launching, ProcessSound, DispatchSound, Alive, TypeOK, Child
    <3>4. CASE child[i].wait = "waiting"
      BY <3>1, <3>4 DEF Held, Waited
    <3>5. CASE child[i].wait = "none"
      BY <3>1, <3>2, <3>5 DEF Held, Launched, Inv, Launching, ProcessSound, DispatchSound
    <3>. QED BY <3>3, <3>4, <3>5
  <2>2. SuitesOn(n) \subseteq Held(n)
    BY <2>1
  <2>3. /\ IsFiniteSet(Held(n)) /\ nodeUse[n] = Cardinality(Held(n)) /\ nodeUse[n] <= Slots[n]
    BY DEF Inv, SlotsHeld
  <2>4. /\ IsFiniteSet(SuitesOn(n)) /\ Cardinality(SuitesOn(n)) <= Cardinality(Held(n))
    BY <2>2, <2>3, FS_Subset
  <2>5. Cardinality(SuitesOn(n)) \in Nat /\ Slots[n] \in Nat
    BY <2>4, FS_CardinalityType, SlotsAssumption
  <2>. QED BY <2>3, <2>4, <2>5 DEF Inv, TypeOK
<1>. QED BY LocalInvariant, <1>1, PTL

(* A verdict "passed" is that of a suite which exited with status 0 and     *)
(* whose results have no failure, whatever deadline or signal came.         *)
THEOREM PassesAreGenuine == Spec => []PassIsGenuine
<1>1. Inv => PassIsGenuine
  BY DEF Inv, RunnersSound, RunnerSound, PassIsGenuine
<1>. QED BY LocalInvariant, <1>1, PTL

(* Poll says complete only of a suite that passed.                          *)
THEOREM PollsSpeakTrue == Spec => []PollSpeaksTrue
<1>1. Inv => PollSpeaksTrue
  <2>. SUFFICES ASSUME Inv, NEW r \in Runs, Poll(r) = "complete"
                PROVE  runner[procs[r]].suite = "clean" /\ runner[procs[r]].tests = "pass"
    BY DEF PollSpeaksTrue
  <2>1. procs[r] \in Procs /\ ExitStatus(runner[procs[r]]) = 0
    BY DEF Poll, Inv, TypeOK
  <2>2. runner[procs[r]].verdict = "passed"
    BY <2>1 DEF ExitStatus
  <2>. QED BY <2>1, <2>2 DEF Inv, RunnersSound, RunnerSound
<1>. QED BY LocalInvariant, <1>1, PTL

(* No post of the progress goroutine gets through after the report.         *)
THEOREM ReportsAreLast == Spec => FinishedIsLast
<1>1. Inv /\ [Next]_vars =>
        [\A i \in Procs : runner[i].said = "finished" => runner'[i].said = "finished"]_runner
  BY RunnersStep DEF Inv
<1>. QED BY LocalInvariant, <1>1, PTL DEF Spec, FinishedIsLast
-----------------------------------------------------------------------------
(* Polls                                                                    *)

LEMMA ProcessesKnownInit == Init => ProcessesKnown
BY DEF Init, ProcessesKnown, Idle

LEMMA ProcessesKnownStep ==
  ASSUME Inv, ProcessesKnown, [Next]_vars PROVE ProcessesKnown'
<1>. USE DEF Inv, TypeOK, Child, ProcessesKnown
<1>1. CASE StartFails \/ (\E r \in Runs, n \in Nodes : Claim(r, n))
  BY <1>1 DEF StartFails, Claim, Idle
<1>2. CASE Start
  <2>1. PICK i \in Procs, r \in Runs :
          /\ dispatch.proc = i /\ dispatch.run = r /\ child[i].wait = "none"
          /\ dispatch'.pc = "started" /\ dispatch'.proc = i /\ dispatch'.run = r
    BY <1>2 DEF Start, Idle, Launching, DispatchSound
  <2>2. /\ child'[i].run = r /\ \A j \in Procs \ {i} : child'[j] = child[j]
        /\ UNCHANGED procs
    BY <1>2, <2>1 DEF Start
  <2>. QED BY <2>1, <2>2
<1>3. CASE Register
  <2>1. PICK i \in Procs, r \in Runs :
          /\ dispatch.pc = "started" /\ dispatch.proc = i /\ dispatch.run = r
          /\ dispatch'.pc = "idle" /\ child[i].run = r
    BY <1>3 DEF Register, Idle
  <2>2. /\ child'[i].wait = "waiting" /\ child'[i].run = r
        /\ \A j \in Procs \ {i} : child'[j] = child[j]
        /\ procs'[r] = i /\ \A q \in Runs \ {r} : procs'[q] = procs[q]
    BY <1>3, <2>1 DEF Register
  <2>. QED BY <2>1, <2>2, NothingAssumption
<1>4. ASSUME NEW i \in Procs, WaitReleases(i) \/ WaitRecords(i) PROVE ProcessesKnown'
  <2>1. /\ child'[i].wait # "none" /\ child'[i].run = child[i].run
        /\ \A j \in Procs \ {i} : child'[j] = child[j]
        /\ UNCHANGED <<procs, dispatch>>
    BY <1>4 DEF WaitReleases, WaitRecords
  <2>2. dispatch.pc = "started" => dispatch.proc \in Procs
    BY DEF Idle
  <2>. QED BY <2>1, <2>2
<1>5. CASE UNCHANGED <<child, procs, nodeUse, dispatch>>
  BY <1>5
<1>. QED BY <1>1, <1>2, <1>3, <1>4, <1>5, StepKinds

(* What is polled and what there is of every run but one are as they were.  *)
OthersAsTheyWere(r) == \A q \in Runs \ {r} : Poll(q)' = Poll(q) /\ Task(q)' = Task(q)

JobsSame == \A q \in Runs : Poll(q)' = Poll(q) /\ Task(q)' = Task(q)

LEMMA SameJobs == ASSUME JobsSame PROVE UNCHANGED Jobs!vars
BY DEF JobsSame, Jobs!vars

(* The processes that no run is polled for do not matter.                   *)
LEMMA PollLooksAtOne ==
  ASSUME NEW r \in Runs, procs'[r] = procs[r],
         procs[r] # NoProc => /\ child'[procs[r]] = child[procs[r]]
                              /\ runner'[procs[r]] = runner[procs[r]]
  PROVE  Poll(r)' = Poll(r) /\ Task(r)' = Task(r)
BY DEF Poll, Task, Alive, ExitStatus

(* Register is a launch.                                                    *)
LEMMA RegisterLaunches ==
  ASSUME Inv, ProcessesKnown, Register PROVE Jobs!Next
<1>. USE DEF Inv, TypeOK, Child
<1>1. PICK i \in Procs, r \in Runs :
        /\ dispatch.pc = "started" /\ dispatch.proc = i /\ dispatch.run = r
        /\ child[i].wait = "none"
  BY DEF Register, Idle, Launching, DispatchSound
<1>2. /\ child'[i].wait = "waiting" /\ \A j \in Procs \ {i} : child'[j] = child[j]
      /\ procs'[r] = i /\ \A q \in Runs \ {r} : procs'[q] = procs[q]
      /\ UNCHANGED runner
  BY <1>1 DEF Register
<1>3. OthersAsTheyWere(r)
  BY <1>1, <1>2, PollLooksAtOne DEF OthersAsTheyWere, ProcessesKnown
<1>4. i # NoProc
  BY NothingAssumption
<1>5. Poll(r)' = "running" /\ Task(r)' \in {"runs", "passed", "broke"}
  BY <1>2, <1>4 DEF Poll, Task
<1>6. Jobs!Launch(r)
  BY <1>3, <1>5 DEF OthersAsTheyWere, Jobs!Launch
<1>. QED BY <1>6 DEF Jobs!Next

(* The second critical section of the goroutine that waits is the moment    *)
(* from which polls tell the end, if its process is still the run's.        *)
LEMMA RecordTells ==
  ASSUME Inv, ProcessesKnown, NEW i \in Procs, WaitRecords(i)
  PROVE  Jobs!Next \/ UNCHANGED Jobs!vars
<1>. USE DEF Inv, TypeOK, Child
<1>1. /\ child[i].wait = "released" /\ child'[i].wait = "done"
      /\ \A j \in Procs \ {i} : child'[j] = child[j]
      /\ UNCHANGED <<runner, procs>>
  BY DEF WaitRecords
<1>2. ~Alive(i) /\ i # NoProc
  BY <1>1, NothingAssumption DEF Launching, ProcessSound, Alive
<1>3. ASSUME NEW r \in Runs, procs[r] = i PROVE Jobs!Next
  <2>1. OthersAsTheyWere(r)
    BY <1>1, <1>3, PollLooksAtOne DEF OthersAsTheyWere, ProcessesKnown
  <2>2. Poll(r) = "running" /\ Task(r) \in {"passed", "broke"} /\ Task(r)' = Task(r)
    BY <1>1, <1>2, <1>3 DEF Poll, Task, Alive, ExitStatus
  <2>3. Poll(r)' = IF Task(r) = "passed" THEN "complete" ELSE "failed"
    BY <1>1, <1>2, <1>3 DEF Poll, Task, ExitStatus
  <2>4. Jobs!Tells(r)
    BY <2>1, <2>2, <2>3 DEF OthersAsTheyWere, Jobs!Tells
  <2>. QED BY <2>4 DEF Jobs!Next
<1>4. CASE \A r \in Runs : procs[r] # i
  BY <1>1, <1>4, PollLooksAtOne, SameJobs DEF JobsSame
<1>. QED BY <1>3, <1>4

(* A runner that goes on, or is signaled, may be over with that; one that   *)
(* is over stays as it was.                                                 *)
LEMMA RunnerEnds ==
  ASSUME Inv, ProcessesKnown, NEW i \in Procs, Steps(i), UNCHANGED <<child, procs, nodeUse, dispatch>>
  PROVE  Jobs!Next \/ UNCHANGED Jobs!vars
<1>. USE DEF Inv, TypeOK, Child
<1>1. /\ runner'[i].pc = "none" <=> runner[i].pc = "none"
      /\ ~Alive(i) => runner'[i].pc = runner[i].pc /\ runner'[i].verdict = runner[i].verdict
      /\ \A j \in Procs \ {i} : runner'[j] = runner[j]
  BY RunnerMoves, LifeMoves DEF Steps, RunnersSound, Moves
<1>2. i # NoProc
  BY NothingAssumption
<1>3. ASSUME NEW r \in Runs, procs[r] = i PROVE Jobs!Next \/ UNCHANGED Jobs!vars
  <2>1. OthersAsTheyWere(r)
    BY <1>1, <1>3, PollLooksAtOne DEF OthersAsTheyWere, ProcessesKnown
  <2>2. CASE ~Alive(i)
    <3>1. Poll(r)' = Poll(r) /\ Task(r)' = Task(r)
      BY <1>1, <1>2, <1>3, <2>2 DEF Poll, Task, Alive, ExitStatus
    <3>. QED BY <2>1, <3>1, SameJobs DEF OthersAsTheyWere, JobsSame
  <2>3. CASE Alive(i)
    <3>1. child[i].wait # "done"
      BY <2>3 DEF Launching, ProcessSound, Alive
    <3>2. Poll(r)' = Poll(r) /\ Task(r) = "runs" /\ Task(r)' \in {"runs", "passed", "broke"}
      BY <1>2, <1>3, <2>3, <3>1 DEF Poll, Task
    <3>3. CASE Task(r)' = "runs"
      BY <2>1, <3>2, <3>3, SameJobs DEF OthersAsTheyWere, JobsSame
    <3>4. CASE Task(r)' # "runs"
      <4>1. Jobs!Ends(r)
        BY <2>1, <3>2, <3>4 DEF OthersAsTheyWere, Jobs!Ends
      <4>. QED BY <4>1 DEF Jobs!Next
    <3>. QED BY <3>3, <3>4
  <2>. QED BY <2>2, <2>3
<1>4. CASE \A r \in Runs : procs[r] # i
  <2>1. \A r \in Runs : procs[r] \in Procs => runner'[procs[r]] = runner[procs[r]]
    BY <1>1, <1>4
  <2>. QED BY <2>1, PollLooksAtOne, SameJobs DEF JobsSame
<1>. QED BY <1>3, <1>4

LEMMA JobsStep ==
  ASSUME Inv, ProcessesKnown, [Next]_vars PROVE Jobs!Next \/ UNCHANGED Jobs!vars
<1>. USE DEF Inv, TypeOK, Child
<1>1. CASE StartFails \/ (\E r \in Runs, n \in Nodes : Claim(r, n))
  BY <1>1, PollLooksAtOne, SameJobs DEF JobsSame, StartFails, Claim
<1>2. CASE Start
  <2>1. PICK i \in Procs : dispatch.proc = i /\ child[i].wait = "none"
    BY <1>2 DEF Start, Idle, Launching, DispatchSound
  <2>2. /\ \A j \in Procs \ {i} : child'[j] = child[j] /\ runner'[j] = runner[j]
        /\ UNCHANGED procs
    BY <1>2, <2>1 DEF Start
  <2>3. \A r \in Runs : procs[r] # i
    BY <2>1, NothingAssumption DEF ProcessesKnown
  <2>4. \A r \in Runs : procs[r] # NoProc =>
          child'[procs[r]] = child[procs[r]] /\ runner'[procs[r]] = runner[procs[r]]
    BY <2>2, <2>3
  <2>. QED BY <2>2, <2>4, PollLooksAtOne, SameJobs DEF JobsSame
<1>3. CASE Register
  BY <1>3, RegisterLaunches
<1>4. ASSUME NEW i \in Procs, WaitReleases(i) PROVE UNCHANGED Jobs!vars
  <2>1. /\ child[i].wait = "waiting" /\ child'[i].wait = "released"
        /\ \A j \in Procs \ {i} : child'[j] = child[j]
        /\ UNCHANGED <<runner, procs>>
    BY <1>4 DEF WaitReleases
  <2>2. ASSUME NEW r \in Runs PROVE Poll(r)' = Poll(r) /\ Task(r)' = Task(r)
    <3>1. CASE procs[r] = i
      BY <2>1, <3>1 DEF Poll, Task, Alive, ExitStatus
    <3>2. CASE procs[r] # i
      BY <2>1, <3>2, PollLooksAtOne
    <3>. QED BY <3>1, <3>2
  <2>. QED BY <2>2, SameJobs DEF JobsSame
<1>5. ASSUME NEW i \in Procs, WaitRecords(i) PROVE Jobs!Next \/ UNCHANGED Jobs!vars
  BY <1>5, RecordTells
<1>6. ASSUME NEW i \in Procs, Steps(i), UNCHANGED <<child, procs, nodeUse, dispatch>>
      PROVE  Jobs!Next \/ UNCHANGED Jobs!vars
  BY <1>6, RunnerEnds
<1>7. CASE UNCHANGED runner /\ UNCHANGED <<child, procs, nodeUse, dispatch>>
  BY <1>7, PollLooksAtOne, SameJobs DEF JobsSame
<1>. QED BY <1>1, <1>2, <1>3, <1>4, <1>5, <1>6, <1>7, StepKinds

LEMMA JobsInit == Init => Jobs!Init
BY DEF Init, Jobs!Init, Poll, Task

(* The local backend implements what the control loop takes for granted of  *)
(* polls, for any number of processes of one run, and whichever of them     *)
(* ends, is killed or is waited for first.                                  *)
THEOREM PollsAreFaithful == Spec => PollsFollowTasks
<1>1. Init => ProcessesKnown
  BY ProcessesKnownInit
<1>2. Inv /\ ProcessesKnown /\ [Next]_vars => ProcessesKnown'
  BY ProcessesKnownStep
<1>3. Spec => []ProcessesKnown
  BY <1>1, <1>2, LocalInvariant, PTL DEF Spec
<1>4. Inv /\ ProcessesKnown /\ [Next]_vars => [Jobs!Next]_(Jobs!vars)
  BY JobsStep
<1>. QED BY <1>3, <1>4, JobsInit, LocalInvariant, PTL DEF Spec, PollsFollowTasks, Jobs!Spec
=============================================================================
