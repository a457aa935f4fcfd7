--------------------------- MODULE RunnerAttempt ---------------------------
(***************************************************************************)
(* dtp-runner: one process per attempt.  It sets up a workspace, tells the *)
(* master that it started, fetches the build, runs the suite as a process  *)
(* group of its own under a deadline while a goroutine posts interim       *)
(* results, classifies what came of it, uploads and reports.  It may get a *)
(* SIGTERM (Nomad's), which cancels the context everything runs under, or  *)
(* a SIGKILL.                                                              *)
(*                                                                         *)
(* This module has the actions; whoever starts the processes composes them.*)
(***************************************************************************)
EXTENDS RunStates, FiniteSets

CONSTANTS Procs   \* runner processes ever started

VARIABLES runner  \* runner[i]: process i, its suite and its posts

-----------------------------------------------------------------------------

(* The part of a context's life that its Err() shows.                       *)
Context == {"live", "canceled", "deadline"}

Runner ==
  [pc: {"none", "setup", "build", "suite", "stopProgress", "report", "exit", "exited", "killed"},
   ctx: {"live", "canceled"},               \* canceled by SIGTERM
   suiteCtx: Context,                       \* runCtx: canceled with ctx, or overdue
   suite: {"none", "running", "clean", "dirty", "killed"},  \* clean: exit status 0
   held: BOOLEAN,                           \* a descendant of the suite holds its output
   tests: {"none", "pass", "fail"},         \* what the results directory says
   progress: {"off", "idle", "posting", "gone"},
   posted: {"none", "pass", "fail"},        \* the summary progress posted last
   verdict: {"none", "passed", "failed", "errored", "timeout"},
   said: {"interim", "finished"}]           \* history: the last event delivered, if any

NoRunner ==
  [pc |-> "none", ctx |-> "live", suiteCtx |-> "live", suite |-> "none",
   held |-> FALSE, tests |-> "none", progress |-> "off", posted |-> "none", verdict |-> "none",
   said |-> "interim"]

Alive(i) == runner[i].pc \notin {"none", "exited", "killed"}

(* post: six tries, none of which gets through under a canceled context.    *)
Posts(context, event, said) == {said} \union (IF context = "live" THEN {event} ELSE {})

-----------------------------------------------------------------------------
(* Execute.  What a runner does by itself between two posts, or between the *)
(* build and the suite, is one step.                                        *)

(* setup, and the post that the attempt started.                            *)
Setup(i) ==
  /\ runner[i].pc = "setup"
  /\ \/ \E said \in Posts(runner[i].ctx, "interim", runner[i].said) :
          runner' = [runner EXCEPT ![i].pc = "build", ![i].said = said]
     \/ runner' = [runner EXCEPT ![i].pc = "report", ![i].verdict = "errored"]

(* A build that is in the cache needs no context to be found, but under a   *)
(* canceled one the command is not started.                                 *)
PrepareBuild(i) ==
  /\ runner[i].pc = "build"
  /\ \/ /\ runner[i].ctx = "live"
        /\ runner' = [runner EXCEPT ![i].pc = "suite", ![i].suite = "running",
                                     ![i].progress = "idle"]
     \/ runner' = [runner EXCEPT ![i].pc = "report", ![i].verdict = "errored"]

\* Mutant: cmd.Run ends with the process it started.
SuiteReturnsAtOnce(i) ==
  /\ runner[i].pc = "suite" /\ runner[i].suite # "running"
  /\ runner' = [runner EXCEPT ![i].pc = "stopProgress"]

(* cmd.Run returns; the progress goroutine is told to stop.  The output is  *)
(* copied from a pipe, so Run waits, with no limit, for whoever holds it.   *)
SuiteReturns(i) ==
  /\ runner[i].pc = "suite" /\ runner[i].suite # "running" /\ ~runner[i].held
  /\ runner' = [runner EXCEPT ![i].pc = "stopProgress"]

\* Mutant: the exit status is not looked at.
ClassifyByTests(overdue, clean, tests) ==
  CASE overdue            -> "timeout"
    [] tests = "none"     -> "errored"
    [] tests = "fail"     -> "failed"
    [] OTHER              -> "passed"

(* classify, of the outcome runSuite makes of the context and of the exit   *)
(* status, and of the results.                                              *)
Classify(overdue, clean, tests) ==
  CASE overdue                                        -> "timeout"
    [] ~overdue /\ tests = "none"                     -> "errored"
    [] ~overdue /\ tests = "fail"                     -> "failed"
    [] ~overdue /\ tests = "pass" /\ ~clean           -> "failed"
    [] ~overdue /\ tests = "pass" /\ clean            -> "passed"

VerdictOf(r) == Classify(r.suiteCtx = "deadline", r.suite = "clean", r.tests)

\* Mutant: the goroutine is told to stop but not waited for.
JudgeAtOnce(i) ==
  /\ runner[i].pc = "stopProgress"
  /\ runner' = [runner EXCEPT ![i].pc = "report", ![i].verdict = VerdictOf(runner[i])]

(* The goroutine is waited for, in the middle of a post if need be; then    *)
(* comes the verdict, and the upload of whatever can be uploaded.           *)
Judge(i) ==
  /\ runner[i].pc = "stopProgress" /\ runner[i].progress = "gone"
  /\ runner' = [runner EXCEPT ![i].pc = "report", ![i].verdict = VerdictOf(runner[i])]

Report(i) ==
  /\ runner[i].pc = "report"
  /\ \E said \in Posts(runner[i].ctx, "finished", runner[i].said) :
       runner' = [runner EXCEPT ![i].pc = "exit", ![i].said = said]

(* What the process knew besides its exit status is gone.                   *)
Exit(i) ==
  /\ runner[i].pc = "exit"
  /\ runner' = [runner EXCEPT ![i].pc = "exited",
                              ![i].ctx = "live", ![i].suiteCtx = "live",
                              ![i].progress = "off", ![i].posted = "none"]

ExitStatus(r) == IF r.verdict = "passed" THEN 0 ELSE 1

Execute(i) ==
  Setup(i) \/ PrepareBuild(i) \/ SuiteReturns(i) \/ Judge(i) \/ Report(i) \/ Exit(i)

-----------------------------------------------------------------------------
(* reportProgress's goroutine.  The ticker may win against a stop that is   *)
(* there already.                                                           *)

ProgressTicks(i) ==
  /\ Alive(i) /\ runner[i].progress = "idle"
  /\ runner[i].tests # runner[i].posted
  /\ runner' = [runner EXCEPT ![i].progress = "posting", ![i].posted = runner[i].tests]

ProgressPosts(i) ==
  /\ Alive(i) /\ runner[i].progress = "posting"
  /\ \E said \in Posts(runner[i].suiteCtx, "interim", runner[i].said) :
       runner' = [runner EXCEPT ![i].progress = "idle", ![i].said = said]

ProgressStops(i) ==
  /\ Alive(i) /\ runner[i].progress = "idle"
  /\ runner[i].pc = "stopProgress" \/ runner[i].suiteCtx # "live"
  /\ runner' = [runner EXCEPT ![i].progress = "gone"]

Progress(i) == ProgressTicks(i) \/ ProgressPosts(i) \/ ProgressStops(i)

-----------------------------------------------------------------------------
(* The suite, its deadline and signals                                      *)

(* Results are written by the suite's process and by what it started.       *)
SuiteWrites(i) ==
  /\ Alive(i)
  /\ runner[i].suite = "running" \/ runner[i].held
  /\ \E tests \in {"pass", "fail"} :
       /\ runner[i].tests \in {"none", "pass"} \ {tests}
       /\ runner' = [runner EXCEPT ![i].tests = tests]

(* Also that of a suite whose runner is gone.                               *)
SuiteExits(i) ==
  /\ runner[i].suite = "running"
  /\ \E status \in {"clean", "dirty"} : runner' = [runner EXCEPT ![i].suite = status]

(* The suite starts a process in the background.                            *)
SuiteForks(i) ==
  /\ Alive(i)
  /\ runner[i].suite = "running" /\ ~runner[i].held
  /\ runner' = [runner EXCEPT ![i].held = TRUE]

(* The last of those processes ends, or closes its output.                  *)
HolderEnds(i) ==
  /\ runner[i].held
  /\ runner' = [runner EXCEPT ![i].held = FALSE]

(* runCtx is over when its deadline passes, or with ctx; the first counts.  *)
DeadlinePasses(i) ==
  /\ runner[i].pc \in {"suite", "stopProgress"} /\ runner[i].suiteCtx = "live"
  /\ runner' = [runner EXCEPT ![i].suiteCtx = "deadline"]

\* Mutant: only the runner's own end takes the suite with it.
KillSuiteIfTerminated(i) ==
  /\ Alive(i) /\ runner[i].suite = "running" /\ runner[i].suiteCtx = "canceled"
  /\ runner' = [runner EXCEPT ![i].suite = "killed"]

(* cmd.Cancel: the suite's process group, once its context is over, if the  *)
(* suite's own process has not ended before.  A descendant that has left    *)
(* the group lives on.                                                      *)
KillSuite(i) ==
  /\ Alive(i) /\ runner[i].suite = "running" /\ runner[i].suiteCtx # "live"
  /\ \E held \in {FALSE, runner[i].held} :
       runner' = [runner EXCEPT ![i].suite = "killed", ![i].held = held]

Terminate(i) ==
  /\ Alive(i) /\ runner[i].ctx = "live"
  /\ runner' = [runner EXCEPT ![i].ctx = "canceled",
                ![i].suiteCtx = IF runner[i].suiteCtx = "live" THEN "canceled"
                                                            ELSE runner[i].suiteCtx]

(* A SIGKILL to the runner's process group.  The suite has its own; all     *)
(* that the runner knew is gone.  Nobody waits for the suite's output any   *)
(* more, so who holds it is not followed further.                           *)
Killed(i) ==
  IF Alive(i)
  THEN [runner EXCEPT ![i] = [NoRunner EXCEPT !.pc = "killed", !.suite = runner[i].suite,
                                              !.said = runner[i].said]]
  ELSE runner

RunnerStep(i) ==
  \/ Execute(i) \/ Progress(i)
  \/ SuiteWrites(i) \/ SuiteExits(i) \/ SuiteForks(i) \/ HolderEnds(i)
  \/ DeadlinePasses(i) \/ KillSuite(i)

-----------------------------------------------------------------------------
(* Properties                                                               *)

(* A run reported as passed, or a runner that exits with status 0, stands   *)
(* for a suite that ended by itself, with exit status 0, and for results    *)
(* without a failure, whatever deadline or signal came in between.          *)
PassIsGenuine ==
  \A i \in Procs :
    runner[i].verdict = "passed" => runner[i].suite = "clean" /\ runner[i].tests = "pass"

(* Nothing is posted after the verdict: an interim result that came later   *)
(* would put the ended run's summary back.                                  *)
FinishedIsLast ==
  [][\A i \in Procs : runner[i].said = "finished" => runner'[i].said = "finished"]_runner

(* "suite exceeded its timeout and was killed"                              *)
TimeoutMeansKilled ==
  \A i \in Procs : runner[i].verdict = "timeout" => runner[i].suite = "killed"
=============================================================================
