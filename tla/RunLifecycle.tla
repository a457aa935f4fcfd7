---------------------------- MODULE RunLifecycle ----------------------------
(***************************************************************************)
(* The life of one regression inside dtp-master: its suites are submitted, *)
(* each attempt (a "run") is admitted, launched on the backend, reported   *)
(* on by its runner, watched by the control loop, ended, retried, rolled   *)
(* up, and perhaps canceled while all of that goes on.                     *)
(*                                                                         *)
(* The actors are the goroutines of the master: the scheduler's tick, the  *)
(* HTTP handlers that ingest runner events, and the HTTP handlers of       *)
(* clients that cancel.  A step is one critical section of the store's     *)
(* lock or one call to the backend, so every interleaving the Go program   *)
(* allows between them is a behaviour.  Outside the master are the Nomad   *)
(* jobs, one for all runs of one attempt, and the runners inside them,     *)
(* whose HTTP posts can be delayed, repeated or lost.  The master can      *)
(* crash and restart.                                                      *)
(*                                                                         *)
(* Which queued run may start, and where, is the ledger's decision: here   *)
(* admission may pick any run of its snapshot or none.                     *)
(***************************************************************************)
EXTENDS RunStates, Integers, FiniteSets

CONSTANTS
  RunIds,          \* identities newRun can mint (bounds the model)
  NoRun,           \* "no run", not a member of RunIds
  Suites,          \* suites of the submission
  MaxAttempts,     \* MaxAttempts[s]: attempts suite s may use
  RunnerVerdicts,  \* verdicts a runner can classify its attempt as
  Handlers,        \* goroutines serving POST /runs/{id}/events
  Clients,         \* requests to cancel, each served by a goroutine of its own
  Progress,        \* suites last long enough for interim results to be posted
  FaultKinds,      \* kinds of faults considered
  MaxFaults        \* faults considered (bounds the model)

ASSUME NoRunAssumption == NoRun \notin RunIds
ASSUME SuitesAssumption == Suites # {}
ASSUME MaxAttemptsAssumption == MaxAttempts \in [Suites -> Nat \ {0}]
ASSUME VerdictsAssumption ==
  RunnerVerdicts \subseteq {"passed", "failed", "errored", "timeout"}
ASSUME ProgressAssumption == Progress \in BOOLEAN
ASSUME FaultsAssumption == MaxFaults \in Nat
ASSUME HandlersAssumption == "tick" \notin Handlers

VARIABLES
  run,       \* store: run[r], the run record, or Unborn
  reg,       \* store: state of the regression, "none" before it is created
  tick,      \* the scheduler goroutine
  handler,   \* the event-handler goroutines
  client,    \* the cancel-handler goroutines
  retry,     \* retry[t]: ended run whose retry goroutine t has yet to queue
  reap,      \* runs whose job an asynchronous be.Stop has yet to remove
  alloc,     \* backend: the allocation that carries the spec of each run
  said,      \* runner: verdicts the runners of each run classified
  wire,      \* runner: events posted that may still reach the master
  crashed,   \* the master has crashed and restarted
  faults     \* crashes, lost or repeated events, dead allocations, failed calls

storeVars == <<run, reg>>
jobVars   == <<alloc, said, wire>>
world     == <<jobVars, crashed, faults>>
vars      == <<storeVars, tick, handler, client, retry, reap, world>>

-----------------------------------------------------------------------------
(* Types *)

\* Goroutines that can end a run and then owe it a retry.
Finishers == {"tick"} \union Handlers

Run == [suite: Suites, attempt: Nat \ {0}, state: RunState,
        backendID: BOOLEAN,   \* Run.BackendID is set
        tests: BOOLEAN]       \* Run.Summary.Tests > 0

Unborn == [state |-> "unborn"]

Alloc == {"none", "pending", "running", "reporting0", "reporting1",
          "exited0", "exited1", "lost"}

LiveAlloc == {"pending", "running", "reporting0", "reporting1"}

Event == [run: RunIds, phase: {"started", "progress"}, verdict: {"none"}]
           \union [run: RunIds, phase: {"finished"}, verdict: RunnerVerdicts]

Tick == [pc: {"idle", "reconcile", "admit", "rollup"},
         todo: SUBSET RunIds,           \* runs left of the phase's snapshot
         cur: RunIds \union {NoRun},    \* run between two steps of the loop
         verdict: Verdict \union {"none"}]

Handler == [pc: {"idle", "finish", "rollup"},
            cur: RunIds \union {NoRun},  \* run the event is about
            verdict: Verdict \union {"none"}]

Client == [pc: {"idle", "cancel", "suite", "rollup", "done"},
           todo: SUBSET RunIds,         \* runs of the snapshot still to mark
           stop: SUBSET RunIds,         \* of those, the ones still to stop
           cur: RunIds \union {NoRun}]  \* the run just stopped

TypeOK ==
  /\ run \in [RunIds -> Run \union {Unborn}]
  /\ reg \in RegState \union {"none"}
  /\ tick \in Tick
  /\ handler \in [Handlers -> Handler]
  /\ client \in [Clients -> Client]
  /\ retry \in [Finishers -> RunIds \union {NoRun}]
  /\ reap \in SUBSET RunIds
  /\ alloc \in [RunIds -> Alloc]
  /\ said \in [RunIds -> SUBSET RunnerVerdicts]
  /\ wire \in SUBSET Event
  /\ crashed \in BOOLEAN
  /\ faults \in 0..MaxFaults

-----------------------------------------------------------------------------
(* Runs and their newest attempts *)

Born == {r \in RunIds : run[r] # Unborn}

InState(S) == {r \in Born : run[r].state \in S}

RunsOf(s) == {r \in Born : run[r].suite = s}

\* The newest attempt of a suite.  A suite has two of them only when one
\* attempt number was minted twice; which one is used then depends on the
\* order of the record's run list, left open here.
Newest(s) == {r \in RunsOf(s) : \A q \in RunsOf(s) : run[q].attempt <= run[r].attempt}

\* The runs of one Nomad job: its identity is made of the regression, the
\* suite and the attempt, so runs of an attempt that was minted twice share it.
SameJob(r) == {q \in RunsOf(run[r].suite) : run[q].attempt = run[r].attempt}

LatestPerSuite == {f \in [Suites -> Born] : \A s \in Suites : f[s] \in Newest(s)}

\* Mutant: attempts counted from zero.
NewRunFromZero(s, k) == [suite |-> s, attempt |-> k - 1, state |-> "queued",
                         backendID |-> FALSE, tests |-> FALSE]

NewRun(s, k) == [suite |-> s, attempt |-> k, state |-> "queued",
                 backendID |-> FALSE, tests |-> FALSE]

\* Mutants: a kind of errored suite forgotten.
CountsErroredButErrored  == {"timeout", "canceled"}
CountsErroredButCanceled == {"errored", "timeout"}

\* Run states Rollup counts as errored suites.
CountsErrored == {"errored", "timeout", "canceled"}

\* What Rollup makes of the states of the newest attempts.
RollupState(states) ==
  IF states \subseteq Verdict /\ states # {}
  THEN IF states \intersect CountsErrored # {} THEN "errored"
       ELSE IF "failed" \in states THEN "failed" ELSE "passed"
  ELSE IF states \intersect (InFlight \union Verdict) # {} THEN "running" ELSE "pending"

-----------------------------------------------------------------------------
(* Pieces of handlers: what one call does to the part of the state it owns *)

\* Something goes wrong, within the bound of the model.
\* "stop": a failed be.Stop; "spec": a run spec that cannot be built;
\* "register": a launch that got no answer; "death": a task killed or a node
\* lost; "post": a post given up, lost or repeated; "crash": the end of the
\* master's process.
Fault(kind) == kind \in FaultKinds /\ faults < MaxFaults /\ faults' = faults + 1

\* be.Stop: deregistering purges the job of r, whichever of its runs it works
\* on, so a later poll finds it gone.  A failed call is only logged.
Stop(r) ==
  \/ /\ alloc' = [q \in RunIds |-> IF q \in SameJob(r) /\ alloc[q] # "none" THEN "lost"
                                   ELSE alloc[q]]
     /\ UNCHANGED faults
  \/ /\ \E q \in SameJob(r) : alloc[q] \in LiveAlloc
     /\ Fault("stop") /\ UNCHANGED alloc

\* Mutants: one attempt too many, one too few, an infrastructure error final.
EarnsRetryPastLast(r, v)   == Retryable(v) /\ run[r].attempt <= MaxAttempts[run[r].suite]
EarnsRetryShort(r, v)      == Retryable(v) /\ run[r].attempt + 1 < MaxAttempts[run[r].suite]
EarnsRetryNotErrored(r, v) == v \in {"failed", "timeout"} /\ run[r].attempt < MaxAttempts[run[r].suite]

\* An ended attempt is retried for these verdicts while attempts are left.
EarnsRetry(r, v) == Retryable(v) /\ run[r].attempt < MaxAttempts[run[r].suite]

\* Mutant: only a run seen running is thought to have a job.
RemovableIfRunning(r) ==
  IF run[r].backendID /\ run[r].state = "running" THEN {r} ELSE {}

\* The job to remove once r has ended, if its identity is on record.
Removable(r) == IF run[r].backendID THEN {r} ELSE {}

\* Mutant: the last verdict wins.
FinishAgain(t, r, v) ==
  /\ run' = [run EXCEPT ![r].state = v]
  /\ reap' = reap \union Removable(r)
  /\ retry' = IF EarnsRetry(r, v) THEN [retry EXCEPT ![t] = r] ELSE retry

\* The guarded critical section of finish: the first verdict wins.  The
\* goroutine keeps the run to retry; the job of the run, if it is known, is
\* removed later by a goroutine of its own.
Finish(t, r, v) ==
  IF Terminal(run[r].state)
  THEN UNCHANGED <<run, retry, reap>>
  ELSE /\ run' = [run EXCEPT ![r].state = v]
       /\ reap' = reap \union Removable(r)
       /\ retry' = IF EarnsRetry(r, v) THEN [retry EXCEPT ![t] = r] ELSE retry

\* The rest of finish, a later critical section: AddRun of the next attempt.
QueueRetry(t) ==
  /\ retry[t] # NoRun
  /\ \E n \in RunIds \ Born :
       run' = [run EXCEPT ![n] = NewRun(run[retry[t]].suite, run[retry[t]].attempt + 1)]
  /\ retry' = [retry EXCEPT ![t] = NoRun]
  /\ UNCHANGED <<reg, tick, handler, client, reap, world>>

\* The critical section of Rollup.  It does not look at the regression's
\* present state.  (The manifest uploaded next is not part of this module.)
Rollup ==
  /\ \E latest \in LatestPerSuite :
       reg' = RollupState({run[latest[s]].state : s \in Suites})
  /\ UNCHANGED <<run, retry, reap, world>>

-----------------------------------------------------------------------------
(* Submission *)

IdleTick    == [pc |-> "idle", todo |-> {}, cur |-> NoRun, verdict |-> "none"]
IdleHandler == [pc |-> "idle", cur |-> NoRun, verdict |-> "none"]
IdleClient  == [pc |-> "idle", todo |-> {}, stop |-> {}, cur |-> NoRun]

Init ==
  /\ run = [r \in RunIds |-> Unborn]
  /\ reg = "none"
  /\ tick = IdleTick
  /\ handler = [h \in Handlers |-> IdleHandler]
  /\ client = [c \in Clients |-> IdleClient]
  /\ retry = [t \in Finishers |-> NoRun]
  /\ reap = {}
  /\ alloc = [r \in RunIds |-> "none"]
  /\ said = [r \in RunIds |-> {}]
  /\ wire = {}
  /\ crashed = FALSE
  /\ faults = 0

\* Submit creates the regression and the first attempt of every suite in one
\* critical section of the store.
Submit ==
  /\ reg = "none"
  /\ reg' = "pending"
  /\ \E first \in [Suites -> RunIds] :
       /\ \A s, u \in Suites : first[s] = first[u] => s = u
       /\ run' = [r \in RunIds |->
                    IF \E s \in Suites : first[s] = r
                    THEN NewRun(CHOOSE s \in Suites : first[s] = r, 1)
                    ELSE Unborn]
  /\ UNCHANGED <<tick, handler, client, retry, reap, world>>

-----------------------------------------------------------------------------
(* The scheduler's tick: reconcile, admit, rollupAll, one after the other *)

\* A loop takes the next run of its snapshot once the last one is dealt with.
TickTakes(pc, r) ==
  /\ tick.pc = pc /\ tick.cur = NoRun /\ retry["tick"] = NoRun
  /\ r \in tick.todo

\* Mutant: a job that never started is not looked at.
ReconciledIfRunning == InState({"running"})

\* The runs reconcile looks at.
Reconciled == InState(InFlight)

\* reconcile takes a snapshot of the runs in flight.
TickReconcile ==
  /\ reg # "none" /\ tick.pc = "idle"
  /\ tick' = [tick EXCEPT !.pc = "reconcile", !.todo = Reconciled]
  /\ UNCHANGED <<storeVars, handler, client, retry, reap, world>>

\* enforceTimeout on a run that is past its deadline: its job is stopped
\* first, if it has one, and the verdict follows in TickFinish.
TickTimeout(r) ==
  /\ TickTakes("reconcile", r)
  /\ IF run[r].backendID THEN Stop(r) ELSE UNCHANGED <<alloc, faults>>
  /\ tick' = [tick EXCEPT !.todo = @ \ {r}, !.cur = r, !.verdict = "timeout"]
  /\ UNCHANGED <<storeVars, handler, client, retry, reap, said, wire, crashed>>

\* What backend.Poll can say of r; a run with no BackendID is unknown to it.
\* It goes by the newest allocation of the job: while a launch has yet to be
\* placed, that is the one of the run launched before.  The status is read when
\* it is applied: an allocation only moves forward while runs are reconciled,
\* so a status that PollAll read for every run in advance has the effect it
\* would have had if applied when it was read.
Phase(a) == CASE a = "pending" -> "pending"
              [] a = "exited0" -> "complete"
              [] a = "exited1" -> "failed"
              [] a = "lost"    -> "lost"
              [] OTHER         -> "running"

PollPhases(r) ==
  IF run[r].backendID
  THEN {Phase(alloc[q]) : q \in {p \in SameJob(r) : alloc[p] # "none"}}
  ELSE {"unknown"}

\* Mutant: interim results decide, whatever the exit status.
PollVerdictByTests(r, phase) == IF run[r].tests THEN "passed" ELSE "errored"

\* The exit status of an ended or lost job stands in for the missing report.
PollVerdict(r, phase) ==
  IF phase = "complete" /\ run[r].tests THEN "passed" ELSE "errored"

\* applyStatus with a phase that ends nothing, or a poll that failed.
TickApplyRunning(r) ==
  /\ TickTakes("reconcile", r)
  /\ tick' = [tick EXCEPT !.todo = @ \ {r}]
  /\ \/ /\ "running" \in PollPhases(r) /\ run[r].state = "dispatched"
        /\ run' = [run EXCEPT ![r].state = "running"]
     \/ UNCHANGED run
  /\ UNCHANGED <<reg, handler, client, retry, reap, world>>

\* applyStatus with an ended or lost job, of a run that is not terminal when
\* it is read again.
TickApplyEnded(r) ==
  /\ TickTakes("reconcile", r)
  /\ ~Terminal(run[r].state)
  /\ \E phase \in PollPhases(r) \intersect {"complete", "failed", "lost"} :
       tick' = [tick EXCEPT !.todo = @ \ {r}, !.cur = r, !.verdict = PollVerdict(r, phase)]
  /\ UNCHANGED <<storeVars, handler, client, retry, reap, world>>

\* finish, called from the tick: by a timeout, a poll or a failed dispatch.
TickFinish ==
  /\ tick.cur # NoRun /\ tick.verdict # "none"
  /\ Finish("tick", tick.cur, tick.verdict)
  /\ tick' = [tick EXCEPT !.cur = NoRun, !.verdict = "none"]
  /\ UNCHANGED <<reg, handler, client, world>>

\* admit takes a snapshot of the queue when every run is reconciled.
TickAdmit ==
  /\ tick.pc = "reconcile" /\ tick.cur = NoRun /\ retry["tick"] = NoRun
  /\ tick.todo = {}
  /\ tick' = [tick EXCEPT !.pc = "admit", !.todo = InState({"queued"})]
  /\ UNCHANGED <<storeVars, handler, client, retry, reap, world>>

\* Registering the job for a run again keeps a live allocation (same node) or
\* replaces it (another node), and may or may not place an ended one again.
RegisterOutcomes(a) == IF a = "none" THEN {"pending"} ELSE {a, "pending"}

\* The job now carries the spec of r.  What it carried before and had not
\* placed will not be; an allocation of another run is kept until r is placed.
Registered(r, a) ==
  [[q \in RunIds |-> IF q \in SameJob(r) /\ alloc[q] = "pending" THEN "none" ELSE alloc[q]]
     EXCEPT ![r] = a]

\* dispatch, for a run of the snapshot that the ledger picked.
TickDispatch(r) ==
  /\ TickTakes("admit", r)
  /\ \E a \in RegisterOutcomes(alloc[r]) : alloc' = Registered(r, a)
  /\ tick' = [tick EXCEPT !.todo = @ \ {r}, !.cur = r]
  /\ UNCHANGED <<storeVars, handler, client, retry, reap, said, wire, crashed, faults>>

\* The backend fails to answer: the job may be registered, the run stays queued.
TickDispatchUnanswered(r) ==
  /\ TickTakes("admit", r)
  /\ Fault("register")
  /\ \/ \E a \in RegisterOutcomes(alloc[r]) : alloc' = Registered(r, a)
     \/ UNCHANGED alloc
  /\ tick' = [tick EXCEPT !.todo = @ \ {r}]
  /\ UNCHANGED <<storeVars, handler, client, retry, reap, said, wire, crashed>>

\* dispatch could not build the run spec, and the run ends as errored.
TickDispatchFails(r) ==
  /\ TickTakes("admit", r)
  /\ Fault("spec")
  /\ tick' = [tick EXCEPT !.todo = @ \ {r}, !.cur = r, !.verdict = "errored"]
  /\ UNCHANGED <<storeVars, handler, client, retry, reap, jobVars, crashed>>

\* The store update that follows a launch.  It looks at nothing.
TickMarkDispatched ==
  /\ tick.cur # NoRun /\ tick.verdict = "none"
  /\ run' = [run EXCEPT ![tick.cur].state = "dispatched", ![tick.cur].backendID = TRUE]
  /\ tick' = [tick EXCEPT !.cur = NoRun]
  /\ UNCHANGED <<reg, handler, client, retry, reap, world>>

\* Mutant: only a regression that has not started is refreshed.
SettledOrRunning == RegFinal \union {"running"}

\* States rollupAll leaves alone.
Settled == RegFinal

\* rollupAll reads the regression first and skips a final one.
TickRollupAll ==
  /\ tick.pc = "admit" /\ tick.cur = NoRun /\ retry["tick"] = NoRun
  /\ tick' = [IdleTick EXCEPT !.pc = IF reg \in Settled THEN "idle" ELSE "rollup"]
  /\ UNCHANGED <<storeVars, handler, client, retry, reap, world>>

TickRollup ==
  /\ tick.pc = "rollup"
  /\ Rollup
  /\ tick' = IdleTick
  /\ UNCHANGED <<handler, client>>

-----------------------------------------------------------------------------
(* Runner events: POST /runs/{id}/events *)

\* A handler takes an event off the wire.  The runner repeats a post that got
\* no answer, so the same event may arrive again.
Receive(h, m) ==
  /\ handler[h].pc = "idle"
  /\ m \in wire
  /\ \/ wire' = wire \ {m} /\ UNCHANGED faults
     \/ Fault("post") /\ UNCHANGED wire
  /\ UNCHANGED <<reg, tick, client, retry, reap, alloc, said, crashed>>

\* Mutant: a late "started" reopens a run that is over.
EventStartedAnyState(h, m) ==
  /\ Receive(h, m)
  /\ m.phase = "started"
  /\ run' = [run EXCEPT ![m.run].state = "running"]
  /\ handler' = [handler EXCEPT ![h] = [pc |-> "rollup", cur |-> m.run, verdict |-> "none"]]

EventStarted(h, m) ==
  /\ Receive(h, m)
  /\ m.phase = "started"
  /\ run' = IF Terminal(run[m.run].state) THEN run
            ELSE [run EXCEPT ![m.run].state = "running"]
  /\ handler' = [handler EXCEPT ![h] = [pc |-> "rollup", cur |-> m.run, verdict |-> "none"]]

EventProgress(h, m) ==
  /\ Receive(h, m)
  /\ m.phase = "progress"
  /\ run' = IF run[m.run].state \in InFlight
            THEN [run EXCEPT ![m.run].tests = TRUE] ELSE run
  /\ handler' = [handler EXCEPT ![h] = [pc |-> "rollup", cur |-> m.run, verdict |-> "none"]]

\* The first critical section of a "finished" event records the summary,
\* whatever the state of the run; the verdict follows in HandlerFinish.
EventFinished(h, m) ==
  /\ Receive(h, m)
  /\ m.phase = "finished"
  /\ \E tests \in IF m.verdict \in {"passed", "failed"} THEN {TRUE} ELSE BOOLEAN :
       run' = [run EXCEPT ![m.run].tests = tests]
  /\ handler' = [handler EXCEPT ![h] = [pc |-> "finish", cur |-> m.run, verdict |-> m.verdict]]

HandlerFinish(h) ==
  /\ handler[h].pc = "finish"
  /\ Finish(h, handler[h].cur, handler[h].verdict)
  /\ handler' = [handler EXCEPT ![h].pc = "rollup", ![h].verdict = "none"]
  /\ UNCHANGED <<reg, tick, client, world>>

\* Every accepted event is followed by a rollup, once its retry is queued.
HandlerRollup(h) ==
  /\ handler[h].pc = "rollup" /\ retry[h] = NoRun
  /\ Rollup
  /\ handler' = [handler EXCEPT ![h] = IdleHandler]
  /\ UNCHANGED <<tick, client>>

-----------------------------------------------------------------------------
(* Cancellation: POST /regressions/{id}/cancel and .../suites/{s}/cancel *)

\* Jobs to stop: those of runs the snapshot shows past the queue.
Stoppable(S) == {r \in S : run[r].state # "queued" /\ run[r].backendID}

CancelBegin(c) ==
  /\ reg # "none" /\ client[c].pc = "idle"
  /\ LET open == {r \in Born : ~Terminal(run[r].state)}
     IN client' = [client EXCEPT ![c] =
                     [pc |-> "cancel", todo |-> open, stop |-> Stoppable(open), cur |-> NoRun]]
  /\ UNCHANGED <<storeVars, tick, handler, retry, reap, world>>

\* be.Stop, for either kind of cancellation, just before the run is marked.
CancelStop(c, r) ==
  /\ client[c].cur = NoRun /\ r \in client[c].stop
  /\ Stop(r)
  /\ client' = [client EXCEPT ![c].stop = @ \ {r}, ![c].cur = r]
  /\ UNCHANGED <<storeVars, tick, handler, retry, reap, said, wire, crashed>>

\* A run is marked right after its stop, or at once when it needs none.
NextToMark(c, r) ==
  /\ r \in client[c].todo \ client[c].stop
  /\ client[c].cur \in {NoRun, r}

\* Cancel marks every run of its snapshot, whatever has become of it.
CancelMark(c, r) ==
  /\ client[c].pc = "cancel" /\ NextToMark(c, r)
  /\ run' = [run EXCEPT ![r].state = "canceled"]
  /\ client' = [client EXCEPT ![c].todo = @ \ {r}, ![c].cur = NoRun]
  /\ UNCHANGED <<reg, tick, handler, retry, reap, world>>

CancelEnd(c) ==
  /\ client[c].pc = "cancel" /\ client[c].todo = {}
  /\ reg' = "canceled"
  /\ client' = [client EXCEPT ![c].pc = "done"]
  /\ UNCHANGED <<run, tick, handler, retry, reap, world>>

\* CancelSuite takes the newest attempt of one suite, if it is not over.
CancelSuiteBegin(c, s) ==
  /\ reg # "none" /\ client[c].pc = "idle"
  /\ \E r \in Newest(s) :
       /\ ~Terminal(run[r].state)
       /\ client' = [client EXCEPT ![c] =
                       [pc |-> "suite", todo |-> {r}, stop |-> Stoppable({r}), cur |-> NoRun]]
  /\ UNCHANGED <<storeVars, tick, handler, retry, reap, world>>

\* Unlike Cancel it leaves a run alone that has ended meanwhile.
CancelSuiteMark(c, r) ==
  /\ client[c].pc = "suite" /\ NextToMark(c, r)
  /\ run' = IF Terminal(run[r].state) THEN run ELSE [run EXCEPT ![r].state = "canceled"]
  /\ client' = [client EXCEPT ![c] = [IdleClient EXCEPT !.pc = "rollup"]]
  /\ UNCHANGED <<reg, tick, handler, retry, reap, world>>

ClientRollup(c) ==
  /\ client[c].pc = "rollup"
  /\ Rollup
  /\ client' = [client EXCEPT ![c].pc = "done"]
  /\ UNCHANGED <<tick, handler>>

-----------------------------------------------------------------------------
(* Outside the master *)

MasterUnchanged == UNCHANGED <<storeVars, tick, handler, client, retry, reap, crashed>>

\* The goroutine finish spawned removes the job of an ended run.
Reap(r) ==
  /\ r \in reap
  /\ reap' = reap \ {r}
  /\ Stop(r)
  /\ UNCHANGED <<storeVars, tick, handler, client, retry, said, wire, crashed>>

\* The runner posts its events one at a time, waiting for each answer; it
\* goes on without one when it gives up, though the master may still get it.
Waiting(r) == \/ \E m \in wire : m.run = r
              \/ \E h \in Handlers : handler[h].cur = r

GoesOn(r) == IF Waiting(r) THEN Fault("post") ELSE UNCHANGED faults

\* The allocation of r goes on; once it is placed it replaces the one its job
\* had for another run.
Moved(r, a) ==
  [[q \in RunIds |-> IF q \in SameJob(r) /\ alloc[r] = "pending" THEN "none" ELSE alloc[q]]
     EXCEPT ![r] = a]

\* The job is placed and its runner posts "started".
RunnerStarts(r) ==
  /\ alloc[r] = "pending"
  /\ alloc' = Moved(r, "running")
  /\ wire' = wire \union {[run |-> r, phase |-> "started", verdict |-> "none"]}
  /\ UNCHANGED <<said, faults>> /\ MasterUnchanged

RunnerProgresses(r) ==
  /\ Progress
  /\ alloc[r] = "running" /\ GoesOn(r)
  /\ wire' = wire \union {[run |-> r, phase |-> "progress", verdict |-> "none"]}
  /\ UNCHANGED <<alloc, said>> /\ MasterUnchanged

\* The runner classifies the attempt and posts "finished".  One whose
\* workspace cannot be set up does so before it ever posts "started".
RunnerConcludes(r, v) ==
  /\ \/ alloc[r] = "running" /\ GoesOn(r)
     \/ alloc[r] = "pending" /\ v = "errored" /\ UNCHANGED faults
  /\ said' = [said EXCEPT ![r] = @ \union {v}]
  /\ wire' = wire \union {[run |-> r, phase |-> "finished", verdict |-> v]}
  /\ alloc' = Moved(r, IF v = "passed" THEN "reporting0" ELSE "reporting1")
  /\ MasterUnchanged

\* Its exit status mirrors the verdict.
RunnerExits(r) ==
  /\ alloc[r] \in {"reporting0", "reporting1"} /\ GoesOn(r)
  /\ alloc' = Moved(r, IF alloc[r] = "reporting0" THEN "exited0" ELSE "exited1")
  /\ UNCHANGED <<said, wire>> /\ MasterUnchanged

\* The task is killed (out of memory, driver failure) or its node is lost.
AllocDies(r) ==
  /\ alloc[r] \in LiveAlloc /\ Fault("death")
  /\ \E a \in {"exited1", "lost"} : alloc' = Moved(r, a)
  /\ UNCHANGED <<said, wire>> /\ MasterUnchanged

\* All the attempts to post an event fail.
LoseEvent(m) ==
  /\ m \in wire
  /\ Fault("post")
  /\ wire' = wire \ {m}
  /\ UNCHANGED <<alloc, said>> /\ MasterUnchanged

\* Runs a restart finds under way.
Requeued == InState(InFlight)

\* The master crashes and starts again: its goroutines are gone, the store is
\* read back with every run in flight queued again.
Restart ==
  /\ reg # "none"
  /\ Fault("crash")
  /\ crashed' = TRUE
  /\ run' = [r \in RunIds |-> IF r \in Requeued
                              THEN [run[r] EXCEPT !.state = "queued"] ELSE run[r]]
  /\ tick' = IdleTick
  /\ handler' = [h \in Handlers |-> IdleHandler]
  /\ client' = [c \in Clients |-> IF client[c].pc = "idle" THEN IdleClient
                                  ELSE [IdleClient EXCEPT !.pc = "done"]]
  /\ retry' = [t \in Finishers |-> NoRun]
  /\ reap' = {}
  /\ UNCHANGED <<reg, jobVars>>

-----------------------------------------------------------------------------
(* Specification *)

TickStep ==
  \/ TickReconcile \/ TickFinish \/ TickAdmit
  \/ TickMarkDispatched \/ TickRollupAll \/ TickRollup
  \/ QueueRetry("tick")
  \/ \E r \in RunIds : \/ TickTimeout(r)  \/ TickApplyRunning(r) \/ TickApplyEnded(r)
                       \/ TickDispatch(r) \/ TickDispatchFails(r)
                       \/ TickDispatchUnanswered(r)

\* What a handler does once it has an event.
HandlerGoesOn(h) == HandlerFinish(h) \/ HandlerRollup(h) \/ QueueRetry(h)

HandlerReceives(h) ==
  \E m \in wire : EventStarted(h, m) \/ EventProgress(h, m) \/ EventFinished(h, m)

ClientGoesOn(c) ==
  \/ CancelEnd(c) \/ ClientRollup(c)
  \/ \E r \in RunIds : CancelStop(c, r) \/ CancelMark(c, r) \/ CancelSuiteMark(c, r)

ClientAsks(c) == CancelBegin(c) \/ \E s \in Suites : CancelSuiteBegin(c, s)

Outside ==
  \/ \E r \in RunIds : \/ Reap(r) \/ RunnerStarts(r) \/ RunnerProgresses(r)
                       \/ RunnerExits(r) \/ AllocDies(r)
                       \/ \E v \in RunnerVerdicts : RunnerConcludes(r, v)
  \/ \E m \in wire : LoseEvent(m)

Next ==
  \/ Submit \/ TickStep
  \/ \E h \in Handlers : HandlerReceives(h) \/ HandlerGoesOn(h)
  \/ \E c \in Clients : ClientAsks(c) \/ ClientGoesOn(c)
  \/ Outside \/ Restart

Spec == Init /\ [][Next]_vars

\* The scheduler's loop and the goroutines of accepted requests keep running.
\* A run that stays in flight is eventually past its deadline when the loop
\* looks at it (enforceTimeout reads the wall clock), and one that stays
\* queued is eventually picked: slots are freed, and its pool has nodes.
\* Nothing is assumed of runners, clients, Nomad or the network.
Fairness ==
  /\ WF_vars(TickStep)
  /\ \A h \in Handlers : WF_vars(HandlerGoesOn(h))
  /\ \A r \in RunIds : SF_vars(TickTimeout(r)) /\ SF_vars(TickDispatch(r))

FairSpec == Spec /\ Fairness

-----------------------------------------------------------------------------
(* Safety *)

\* A run is recorded as failed only when its own runner classified it so, and as
\* passed only when its own runner did, or that of a run it shares its job with,
\* whose exit the poll takes for its own: no timeout, retry, restart or event of
\* another attempt invents a test result (classify, applyStatus, finish, JobID).
VerdictIsReported ==
  \A r \in Born :
    /\ run[r].state = "failed" => "failed" \in said[r]
    /\ run[r].state = "passed" => \E q \in SameJob(r) : "passed" \in said[q]

\* A regression is shown as passed only if some attempt of every suite passed
\* in its runner's own eyes, however stale the snapshots (Rollup).
PassIsEarned ==
  reg = "passed" => \A s \in Suites : \E r \in RunsOf(s) : "passed" \in said[r]

\* The attempts of a suite stay within its allowance and leave no gap, even
\* when an attempt ends twice and is retried twice (finish, newRun).
AttemptsContiguous ==
  \A r \in Born : /\ run[r].attempt <= MaxAttempts[run[r].suite]
                  /\ \A k \in 1..(run[r].attempt - 1) :
                       \E q \in RunsOf(run[r].suite) : run[q].attempt = k

RetryOwed(r) == /\ Retryable(run[r].state)
                /\ run[r].attempt < MaxAttempts[run[r].suite]

RetryQueued(r) == \E q \in RunsOf(run[r].suite) : run[q].attempt = run[r].attempt + 1

\* While the master stays up no retry is lost: an attempt that ended in a
\* retryable verdict with attempts left has a successor, or a goroutine that
\* is about to queue it (finish, between its two critical sections).
NoRetryLost ==
  ~crashed => \A r \in Born : RetryOwed(r) =>
                RetryQueued(r) \/ \E t \in Finishers : retry[t] = r

\* No event, poll, timeout or rollup changes how a run ended.  Only the two
\* unguarded store updates can: the mark of a cancellation that saw the run
\* open, and the mark of a launch that was under way.
VerdictStable ==
  [][\A r \in RunIds :
       Terminal(run[r].state) /\ run'[r].state # run[r].state =>
         \/ run'[r].state = "canceled" /\ \E c \in Clients : r \in client[c].todo
         \/ run'[r].state = "dispatched" /\ tick.cur = r]_vars

\* Unless a call fails, no job outlives the run it works on, whoever cancels
\* meanwhile and whatever other run shares the job: once that run is over its
\* task has ended too, or a goroutine is about to remove the job, or the launch
\* that the runner outran is about to put the run back in flight, where
\* reconciliation finds it (finish, enforceTimeout, dispatch, JobID).  The one
\* exception is a run that was canceled: Cancel stops what had a job when it
\* looked, and marks what it finds.
JobsRemoved ==
  \A r \in Born : Terminal(run[r].state) /\ run[r].state # "canceled" /\ alloc[r] \in LiveAlloc
                    => r \in reap \/ tick.cur = r

-----------------------------------------------------------------------------
(* The promise to the submitter *)

\* The attempts whose retry some goroutine has yet to queue.
OwedBy(s) == {run[q].attempt : q \in {retry[t] : t \in Finishers} \intersect RunsOf(s)}

\* What the variables of SuiteAttempts stand for here.
NewestAttempt == [s \in Suites |->
                    IF RunsOf(s) = {} THEN 0 ELSE run[CHOOSE r \in Newest(s) : TRUE].attempt]
NewestStates  == [s \in Suites |->
                    {IF Terminal(run[r].state) THEN "over" ELSE "open" : r \in Newest(s)}]
Owed          == [s \in Suites |-> OwedBy(s)]
Reported      == [s \in Suites |-> UNION {said[r] : r \in RunsOf(s)}]

Promise == INSTANCE SuiteAttempts WITH
  attempts <- NewestAttempt, newest <- NewestStates, owed <- Owed, reported <- Reported,
  shown <- reg

\* Seen from outside, the goroutines, jobs and messages are those attempts: a
\* suite is tried again only after a try that ended, in order and within its
\* allowance, and the regression never shows a result that the suites, as they
\* are at that moment, and their runners' own reports do not bear out (finish,
\* newRun, Rollup against stale snapshots, late launch marks and crashes).
PromiseKept == Promise!Spec

-----------------------------------------------------------------------------
(* Liveness, under Fairness *)

\* Every attempt is eventually over for good, whatever its runner, its node
\* and the network do: retries run out, and an attempt that a late launch mark
\* put back in flight is ended again (reconcile, enforceTimeout, admit).
EveryRunEnds == \A r \in RunIds : run[r] # Unborn ~> [](Terminal(run[r].state))

\* A submitted regression eventually shows a final state and keeps one.
RegressionSettles == reg # "none" ~> [](reg \in RegFinal)

-----------------------------------------------------------------------------
(* What the documentation says and the code does not keep *)

\* schema.sql: UNIQUE (regression_id, suite, attempt).
AttemptsUnique ==
  \A r, q \in Born :
    run[r].suite = run[q].suite /\ run[r].attempt = run[q].attempt => r = q

\* ARCHITECTURE.md: "canceling the regression sets the regression to
\* `canceled`" - and nothing leads out of that state.
RegCanceledSticks == [][reg = "canceled" => reg' = "canceled"]_vars

\* submit.go: "Cancel stops every non-terminal run in a regression."
CancelStopsAll == reg = "canceled" => \A r \in Born : Terminal(run[r].state)

\* ARCHITECTURE.md: "If the suite still has attempts left (`retries`), a new
\* run is queued" - also when the master restarts at the wrong moment.
RetrySurvivesRestart ==
  \A r \in Born : RetryOwed(r) => RetryQueued(r) \/ \E t \in Finishers : retry[t] = r
=============================================================================
