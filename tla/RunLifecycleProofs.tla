------------------------- MODULE RunLifecycleProofs -------------------------
(***************************************************************************)
(* What RunLifecycle guarantees for every set of suites, allowances,       *)
(* handlers, cancellations and faults.                                     *)
(*                                                                         *)
(* First that the state is well-formed and no reference dangles (Known),   *)
(* one lemma per actor; then how a single step can change a run or bring   *)
(* one into the store (RunsChange, BornAs); on these two rest the safety   *)
(* theorems, each with the strengthening that makes it inductive:          *)
(*   VerdictsStable         follows from RunsChange alone                  *)
(*   AttemptsAreContiguous  with RetriesLeft                               *)
(*   RetriesAreKept         with OneDebtAtATime                            *)
(*   VerdictsAreReported    with Spoken                                    *)
(*   PassesAreEarned        from VerdictIsReported at the rollup           *)
(*   JobsAreRemoved         with JobsTracked, where no call fails          *)
(***************************************************************************)
EXTENDS RunLifecycle, TLAPS

\* Every run a goroutine, an event or an allocation refers to is in the store,
\* so a handler never updates a run that was not created.
KnownRuns ==
  /\ reg = "none" => Born = {}
  /\ tick.todo \subseteq Born
  /\ tick.cur \in Born \union {NoRun}
  /\ \A h \in Handlers : /\ handler[h].cur \in Born \union {NoRun}
                         /\ handler[h].pc = "finish" => /\ handler[h].cur \in Born
                                                        /\ handler[h].verdict # "none"
  /\ \A c \in Clients : client[c].todo \subseteq Born /\ client[c].stop \subseteq Born
  /\ \A t \in Finishers : retry[t] \in Born \union {NoRun}
  /\ \A m \in wire : m.run \in Born
  /\ \A r \in RunIds : alloc[r] # "none" => r \in Born

Known == TypeOK /\ KnownRuns

\* A run in the store is a complete record, and not the missing one.
LEMMA BornRun ==
  ASSUME TypeOK, NEW r \in Born
  PROVE  r \in RunIds /\ run[r] \in Run /\ run[r] # Unborn
BY DEF TypeOK, Born

LEMMA RunNotUnborn == \A x \in Run : x # Unborn
BY DEF Run, Unborn, RunState, Verdict

\* A run record stays one whatever state it is given.
LEMMA SetState ==
  ASSUME TypeOK, NEW r \in Born, NEW v \in RunState,
         run' = [run EXCEPT ![r].state = v]
  PROVE  run' \in [RunIds -> Run \union {Unborn}] /\ Born' = Born
<1>1. [run[r] EXCEPT !.state = v] \in Run
  BY BornRun DEF Run
<1>2. QED BY <1>1, BornRun, RunNotUnborn DEF TypeOK, Born

-----------------------------------------------------------------------------
(* What the pieces of handlers do to the store and the backend *)

LEMMA FinishKnown ==
  ASSUME Known, NEW t \in Finishers, NEW r \in Born, NEW v \in Verdict, Finish(t, r, v)
  PROVE  /\ run' \in [RunIds -> Run \union {Unborn}] /\ Born' = Born
         /\ reap' \in SUBSET RunIds
         /\ retry' \in [Finishers -> RunIds \union {NoRun}]
         /\ \A u \in Finishers : retry'[u] \in Born \union {NoRun}
<1>1. v \in RunState /\ r \in RunIds
  BY BornRun DEF Known, RunState
<1>2. CASE Terminal(run[r].state)
  BY <1>2 DEF Finish, Known, KnownRuns, TypeOK, Born
<1>3. CASE ~Terminal(run[r].state)
  <2>1. run' \in [RunIds -> Run \union {Unborn}] /\ Born' = Born
    BY <1>1, <1>3, SetState DEF Finish, Known
  <2>2. reap' \in SUBSET RunIds
    BY <1>1, <1>3 DEF Finish, Removable, Known, TypeOK
  <2>3. /\ retry' \in [Finishers -> RunIds \union {NoRun}]
        /\ \A u \in Finishers : retry'[u] \in Born \union {NoRun}
    BY <1>1, <1>3 DEF Finish, Known, KnownRuns, TypeOK
  <2>. QED BY <2>1, <2>2, <2>3
<1>. QED BY <1>2, <1>3

LEMMA StopKnown ==
  ASSUME TypeOK, NEW r \in RunIds, Stop(r)
  PROVE  /\ alloc' \in [RunIds -> Alloc]
         /\ faults' \in 0..MaxFaults
         /\ \A q \in RunIds : alloc'[q] # "none" => alloc[q] # "none"
BY FaultsAssumption DEF TypeOK, Stop, Fault, Alloc, LiveAlloc

LEMMA FaultTyped ==
  ASSUME TypeOK, NEW kind, Fault(kind)
  PROVE  faults' \in 0..MaxFaults
BY FaultsAssumption DEF TypeOK, Fault

LEMMA RegisterKnown ==
  ASSUME TypeOK, NEW r \in RunIds, NEW a \in RegisterOutcomes(alloc[r]),
         alloc' = Registered(r, a)
  PROVE  /\ alloc' \in [RunIds -> Alloc]
         /\ alloc'[r] # "none"
         /\ \A q \in RunIds \ {r} : alloc'[q] \in {"none", alloc[q]}
<1>1. a \in Alloc /\ a # "none"
  BY DEF TypeOK, RegisterOutcomes, Alloc
<1>. QED BY <1>1 DEF TypeOK, Registered, Alloc

LEMMA MovedKnown ==
  ASSUME TypeOK, NEW r \in RunIds, NEW a \in Alloc, alloc' = Moved(r, a)
  PROVE  /\ alloc' \in [RunIds -> Alloc]
         /\ alloc'[r] = a
         /\ \A q \in RunIds \ {r} : alloc'[q] \in {"none", alloc[q]}
BY DEF TypeOK, Moved, Alloc

\* What the runner of r and its task do moves the allocation of r, or nothing.
LEMMA RunnerMoves ==
  ASSUME TypeOK, NEW r \in RunIds,
         \/ RunnerStarts(r) \/ RunnerProgresses(r) \/ RunnerExits(r) \/ AllocDies(r)
         \/ \E v \in RunnerVerdicts : RunnerConcludes(r, v)
  PROVE  /\ alloc' \in [RunIds -> Alloc]
         /\ \A q \in RunIds \ {r} : alloc'[q] \in {"none", alloc[q]}
<1>1. UNCHANGED alloc \/ \E a \in Alloc : alloc' = Moved(r, a)
  BY DEF RunnerStarts, RunnerProgresses, RunnerExits, AllocDies, RunnerConcludes, Alloc
<1>2. CASE UNCHANGED alloc
  BY <1>2 DEF TypeOK
<1>. QED BY <1>1, <1>2, MovedKnown

\* A rollup of any states yields a regression state.
LEMMA RollupTyped ==
  ASSUME Rollup PROVE reg' \in RegState /\ reg' # "none"
BY DEF Rollup, RollupState, RegState, RegFinal, RegVerdict

LEMMA NewRunTyped == \A s \in Suites, k \in Nat \ {0} : NewRun(s, k) \in Run
BY DEF NewRun, Run, RunState

\* The store after the retry of r is queued: one more run, the others as before.
LEMMA QueueRetryKnown ==
  ASSUME Known, NEW t \in Finishers, QueueRetry(t)
  PROVE  /\ run' \in [RunIds -> Run \union {Unborn}]
         /\ Born \subseteq Born'
         /\ \A q \in Born : run'[q] = run[q]
         /\ retry[t] \in Born
<1>1. retry[t] \in Born
  BY DEF QueueRetry, Known, KnownRuns
<1>2. PICK n \in RunIds \ Born :
        run' = [run EXCEPT ![n] = NewRun(run[retry[t]].suite, run[retry[t]].attempt + 1)]
  BY DEF QueueRetry
<1>3. run[retry[t]].suite \in Suites /\ run[retry[t]].attempt + 1 \in Nat \ {0}
  BY <1>1, BornRun DEF Known, Run
<1>4. NewRun(run[retry[t]].suite, run[retry[t]].attempt + 1) \in Run
  BY <1>3, NewRunTyped
<1>5. \A q \in Born : run'[q] = run[q]
  BY <1>2 DEF Known, TypeOK, Born
<1>6. run' \in [RunIds -> Run \union {Unborn}]
  BY <1>2, <1>4 DEF Known, TypeOK
<1>7. Born \subseteq Born'
  BY <1>5 DEF Born
<1>. QED BY <1>1, <1>5, <1>6, <1>7

LEMMA ReceiveKnown ==
  ASSUME Known, NEW h \in Handlers, NEW m \in wire, Receive(h, m)
  PROVE  /\ m.run \in Born /\ m \in Event
         /\ wire' \in SUBSET Event /\ wire' \subseteq wire
         /\ faults' \in 0..MaxFaults
BY FaultTyped DEF Receive, Known, KnownRuns, TypeOK

-----------------------------------------------------------------------------
(* Type correctness, and that no reference dangles *)

LEMMA InitKnown == Init => Known
<1> SUFFICES ASSUME Init PROVE Known
  OBVIOUS
<1>1. Born = {}
  BY DEF Init, Born
<1>2. TypeOK
  <2>1. IdleTick \in Tick /\ IdleHandler \in Handler /\ IdleClient \in Client
    BY DEF Tick, IdleTick, Handler, IdleHandler, Client, IdleClient
  <2>2. 0 \in 0..MaxFaults
    BY FaultsAssumption
  <2>. QED BY <2>1, <2>2 DEF Init, TypeOK, Alloc
<1>3. KnownRuns
  BY <1>1 DEF Init, KnownRuns, IdleTick, IdleHandler, IdleClient
<1>. QED BY <1>2, <1>3 DEF Known

\* Submission finds an empty store.
LEMMA SubmitKnown == ASSUME Known, Submit PROVE Known'
<1>1. PICK first \in [Suites -> RunIds] :
        run' = [r \in RunIds |-> IF \E s \in Suites : first[s] = r
                                 THEN NewRun(CHOOSE s \in Suites : first[s] = r, 1)
                                 ELSE Unborn]
  BY DEF Submit
<1>2. run' \in [RunIds -> Run \union {Unborn}]
  <2>1. ASSUME NEW r \in RunIds, \E s \in Suites : first[s] = r
        PROVE  NewRun(CHOOSE s \in Suites : first[s] = r, 1) \in Run
    <3>1. (CHOOSE s \in Suites : first[s] = r) \in Suites
      BY <2>1
    <3>. QED BY <3>1, NewRunTyped
  <2>. QED BY <1>1, <2>1
<1>3. TypeOK'
  BY <1>2 DEF Submit, Known, TypeOK, RegState, world, jobVars
<1>4. Born = {}
  BY DEF Submit, Known, KnownRuns
<1>5. KnownRuns'
  BY <1>4 DEF Submit, Known, KnownRuns, world, jobVars
<1>. QED BY <1>3, <1>5 DEF Known

LEMMA TickKnown == ASSUME Known, TickStep PROVE Known'
<1>1. CASE TickReconcile
  <2>1. Reconciled \subseteq Born
    BY DEF Reconciled, InState
  <2>2. tick' \in Tick
    BY <1>1, <2>1 DEF TickReconcile, Known, TypeOK, Tick, Born
  <2>3. TypeOK'
    BY <1>1, <2>2 DEF TickReconcile, Known, TypeOK, storeVars, world, jobVars
  <2>4. KnownRuns'
    BY <1>1, <2>1 DEF TickReconcile, Known, KnownRuns, TypeOK, Tick, Born, storeVars, world, jobVars
  <2>. QED BY <2>3, <2>4 DEF Known
<1>2. CASE TickFinish
  <2>1. tick.cur \in Born /\ tick.verdict \in Verdict /\ "tick" \in Finishers
    BY <1>2 DEF TickFinish, Known, KnownRuns, TypeOK, Tick, Finishers
  <2>2. /\ run' \in [RunIds -> Run \union {Unborn}] /\ Born' = Born
        /\ reap' \in SUBSET RunIds
        /\ retry' \in [Finishers -> RunIds \union {NoRun}]
        /\ \A u \in Finishers : retry'[u] \in Born \union {NoRun}
    BY <1>2, <2>1, FinishKnown DEF TickFinish
  <2>3. tick' \in Tick
    BY <1>2 DEF TickFinish, Known, TypeOK, Tick
  <2>4. TypeOK'
    BY <1>2, <2>2, <2>3 DEF TickFinish, Known, TypeOK, world, jobVars
  <2>5. KnownRuns'
    BY <1>2, <2>2 DEF TickFinish, Known, KnownRuns, TypeOK, Tick, world, jobVars
  <2>. QED BY <2>4, <2>5 DEF Known
<1>3. CASE TickAdmit
  <2>1. InState({"queued"}) \subseteq Born
    BY DEF InState
  <2>2. tick' \in Tick
    BY <1>3, <2>1 DEF TickAdmit, Known, TypeOK, Tick, Born
  <2>3. TypeOK'
    BY <1>3, <2>2 DEF TickAdmit, Known, TypeOK, storeVars, world, jobVars
  <2>4. KnownRuns'
    BY <1>3, <2>1 DEF TickAdmit, Known, KnownRuns, TypeOK, Tick, Born, storeVars, world, jobVars
  <2>. QED BY <2>3, <2>4 DEF Known
<1>4. CASE TickMarkDispatched
  <2>1. tick.cur \in Born
    BY <1>4 DEF TickMarkDispatched, Known, KnownRuns
  <2>2. [run[tick.cur] EXCEPT !.state = "dispatched", !.backendID = TRUE] \in Run
    BY <2>1, BornRun DEF Known, Run, RunState
  <2>3. run' \in [RunIds -> Run \union {Unborn}] /\ Born' = Born
    BY <1>4, <2>1, <2>2, BornRun, RunNotUnborn DEF TickMarkDispatched, Known, TypeOK, Born
  <2>4. tick' \in Tick
    BY <1>4 DEF TickMarkDispatched, Known, TypeOK, Tick
  <2>5. TypeOK'
    BY <1>4, <2>3, <2>4 DEF TickMarkDispatched, Known, TypeOK, world, jobVars
  <2>6. KnownRuns'
    BY <1>4, <2>3 DEF TickMarkDispatched, Known, KnownRuns, TypeOK, Tick, world, jobVars
  <2>. QED BY <2>5, <2>6 DEF Known
<1>5. CASE TickRollupAll
  <2>1. tick' \in Tick /\ tick'.todo = {} /\ tick'.cur = NoRun
    BY <1>5 DEF TickRollupAll, Tick, IdleTick
  <2>2. TypeOK'
    BY <1>5, <2>1 DEF TickRollupAll, Known, TypeOK, storeVars, world, jobVars
  <2>3. KnownRuns'
    BY <1>5, <2>1 DEF TickRollupAll, Known, KnownRuns, Born, storeVars, world, jobVars
  <2>. QED BY <2>2, <2>3 DEF Known
<1>6. CASE TickRollup
  <2>1. reg' \in RegState /\ reg' # "none" /\ UNCHANGED <<run, retry, reap, world>>
    BY <1>6, RollupTyped DEF TickRollup, Rollup
  <2>2. tick' \in Tick /\ tick'.todo = {} /\ tick'.cur = NoRun
    BY <1>6 DEF TickRollup, Tick, IdleTick
  <2>3. TypeOK'
    BY <1>6, <2>1, <2>2 DEF TickRollup, Known, TypeOK, world, jobVars
  <2>4. KnownRuns'
    BY <1>6, <2>1, <2>2 DEF TickRollup, Known, KnownRuns, Born, world, jobVars
  <2>. QED BY <2>3, <2>4 DEF Known
<1>7. CASE QueueRetry("tick")
  <2>1. "tick" \in Finishers
    BY DEF Finishers
  <2>2. /\ run' \in [RunIds -> Run \union {Unborn}]
        /\ Born \subseteq Born'
        /\ retry["tick"] \in Born
    BY <1>7, <2>1, QueueRetryKnown
  <2>3. TypeOK'
    BY <1>7, <2>2 DEF QueueRetry, Known, TypeOK, world, jobVars
  <2>4. KnownRuns'
    BY <1>7, <2>2 DEF QueueRetry, Known, KnownRuns, TypeOK, world, jobVars
  <2>. QED BY <2>3, <2>4 DEF Known
<1>8. ASSUME NEW r \in RunIds, TickTimeout(r) PROVE Known'
  <2>1. r \in Born
    BY <1>8 DEF TickTimeout, TickTakes, Known, KnownRuns
  <2>2. /\ alloc' \in [RunIds -> Alloc]
        /\ faults' \in 0..MaxFaults
        /\ \A q \in RunIds : alloc'[q] # "none" => alloc[q] # "none"
    BY <1>8, StopKnown DEF TickTimeout, Known, TypeOK
  <2>3. tick' \in Tick
    BY <1>8 DEF TickTimeout, Known, TypeOK, Tick, Verdict
  <2>4. TypeOK'
    BY <1>8, <2>2, <2>3 DEF TickTimeout, Known, TypeOK, storeVars
  <2>5. KnownRuns'
    BY <1>8, <2>1, <2>2 DEF TickTimeout, Known, KnownRuns, TypeOK, Tick, Born, storeVars
  <2>. QED BY <2>4, <2>5 DEF Known
<1>9. ASSUME NEW r \in RunIds, TickApplyRunning(r) PROVE Known'
  <2>1. r \in Born
    BY <1>9 DEF TickApplyRunning, TickTakes, Known, KnownRuns
  <2>2. run' \in [RunIds -> Run \union {Unborn}] /\ Born' = Born
    <3>1. CASE run' = [run EXCEPT ![r].state = "running"]
      BY <2>1, <3>1, SetState DEF Known, RunState
    <3>2. CASE UNCHANGED run
      BY <3>2 DEF Known, TypeOK, Born
    <3>. QED BY <1>9, <3>1, <3>2 DEF TickApplyRunning
  <2>3. tick' \in Tick
    BY <1>9 DEF TickApplyRunning, Known, TypeOK, Tick
  <2>4. TypeOK'
    BY <1>9, <2>2, <2>3 DEF TickApplyRunning, Known, TypeOK, world, jobVars
  <2>5. KnownRuns'
    BY <1>9, <2>2 DEF TickApplyRunning, Known, KnownRuns, TypeOK, Tick, world, jobVars
  <2>. QED BY <2>4, <2>5 DEF Known
<1>10. ASSUME NEW r \in RunIds, TickApplyEnded(r) PROVE Known'
  <2>1. r \in Born /\ \A phase : PollVerdict(r, phase) \in Verdict
    BY <1>10 DEF TickApplyEnded, TickTakes, Known, KnownRuns, PollVerdict, Verdict
  <2>2. tick' \in Tick /\ tick'.todo \subseteq tick.todo /\ tick'.cur = r
    <3>1. PICK phase : tick' = [tick EXCEPT !.todo = @ \ {r}, !.cur = r,
                                            !.verdict = PollVerdict(r, phase)]
      BY <1>10 DEF TickApplyEnded
    <3>. QED BY <2>1, <3>1 DEF Known, TypeOK, Tick
  <2>3. TypeOK'
    BY <1>10, <2>2 DEF TickApplyEnded, Known, TypeOK, storeVars, world, jobVars
  <2>4. KnownRuns'
    BY <1>10, <2>1, <2>2 DEF TickApplyEnded, Known, KnownRuns, Born, storeVars, world, jobVars
  <2>. QED BY <2>3, <2>4 DEF Known
<1>11. ASSUME NEW r \in RunIds, TickDispatch(r) PROVE Known'
  <2>1. r \in Born
    BY <1>11 DEF TickDispatch, TickTakes, Known, KnownRuns
  <2>2. /\ alloc' \in [RunIds -> Alloc]
        /\ \A q \in RunIds : alloc'[q] # "none" => alloc[q] # "none" \/ q = r
    BY <1>11, RegisterKnown DEF TickDispatch, Known
  <2>3. tick' \in Tick
    BY <1>11 DEF TickDispatch, Known, TypeOK, Tick
  <2>4. TypeOK'
    BY <1>11, <2>2, <2>3 DEF TickDispatch, Known, TypeOK, storeVars
  <2>5. KnownRuns'
    BY <1>11, <2>1, <2>2 DEF TickDispatch, Known, KnownRuns, TypeOK, Tick, Born, storeVars
  <2>. QED BY <2>4, <2>5 DEF Known
<1>12. ASSUME NEW r \in RunIds, TickDispatchFails(r) PROVE Known'
  <2>1. r \in Born /\ faults' \in 0..MaxFaults
    BY <1>12, FaultTyped DEF TickDispatchFails, TickTakes, Known, KnownRuns
  <2>2. tick' \in Tick
    BY <1>12 DEF TickDispatchFails, Known, TypeOK, Tick, Verdict
  <2>3. TypeOK'
    BY <1>12, <2>1, <2>2 DEF TickDispatchFails, Known, TypeOK, storeVars, jobVars
  <2>4. KnownRuns'
    BY <1>12, <2>1 DEF TickDispatchFails, Known, KnownRuns, TypeOK, Tick, Born, storeVars, jobVars
  <2>. QED BY <2>3, <2>4 DEF Known
<1>13. ASSUME NEW r \in RunIds, TickDispatchUnanswered(r) PROVE Known'
  <2>1. r \in Born /\ faults' \in 0..MaxFaults
    BY <1>13, FaultTyped DEF TickDispatchUnanswered, TickTakes, Known, KnownRuns
  <2>2. /\ alloc' \in [RunIds -> Alloc]
        /\ \A q \in RunIds : alloc'[q] # "none" => alloc[q] # "none" \/ q = r
    <3>1. CASE UNCHANGED alloc
      BY <3>1 DEF Known, TypeOK
    <3>. QED BY <1>13, <3>1, RegisterKnown DEF TickDispatchUnanswered, Known
  <2>3. tick' \in Tick
    BY <1>13 DEF TickDispatchUnanswered, Known, TypeOK, Tick
  <2>4. TypeOK'
    BY <1>13, <2>1, <2>2, <2>3 DEF TickDispatchUnanswered, Known, TypeOK, storeVars
  <2>5. KnownRuns'
    BY <1>13, <2>1, <2>2 DEF TickDispatchUnanswered, Known, KnownRuns, TypeOK, Tick, Born, storeVars
  <2>. QED BY <2>4, <2>5 DEF Known
<1>. QED
  BY <1>1, <1>2, <1>3, <1>4, <1>5, <1>6, <1>7, <1>8, <1>9, <1>10, <1>11, <1>12, <1>13 DEF TickStep

LEMMA HandlerKnown ==
  ASSUME Known, NEW h \in Handlers, HandlerReceives(h) \/ HandlerGoesOn(h)
  PROVE  Known'
<1>1. ASSUME NEW m \in wire, EventStarted(h, m) PROVE Known'
  <2>1. /\ m.run \in Born /\ m.run \in RunIds
        /\ wire' \in SUBSET Event /\ wire' \subseteq wire
        /\ faults' \in 0..MaxFaults
    BY <1>1, ReceiveKnown DEF EventStarted, Born
  <2>2. run' \in [RunIds -> Run \union {Unborn}] /\ Born' = Born
    <3>1. CASE run' = run
      BY <3>1 DEF Known, TypeOK, Born
    <3>2. CASE run' = [run EXCEPT ![m.run].state = "running"]
      BY <2>1, <3>2, SetState DEF Known, RunState
    <3>. QED BY <1>1, <3>1, <3>2 DEF EventStarted
  <2>3. handler' \in [Handlers -> Handler]
    BY <1>1, <2>1 DEF EventStarted, Known, TypeOK, Handler
  <2>4. TypeOK'
    BY <1>1, <2>1, <2>2, <2>3 DEF EventStarted, Receive, Known, TypeOK
  <2>5. KnownRuns'
    BY <1>1, <2>1, <2>2 DEF EventStarted, Receive, Known, KnownRuns, TypeOK
  <2>. QED BY <2>4, <2>5 DEF Known
<1>2. ASSUME NEW m \in wire, EventProgress(h, m) PROVE Known'
  <2>1. /\ m.run \in Born /\ m.run \in RunIds
        /\ wire' \in SUBSET Event /\ wire' \subseteq wire
        /\ faults' \in 0..MaxFaults
    BY <1>2, ReceiveKnown DEF EventProgress, Born
  <2>2. run' \in [RunIds -> Run \union {Unborn}] /\ Born' = Born
    <3>1. CASE run' = run
      BY <3>1 DEF Known, TypeOK, Born
    <3>2. CASE run' = [run EXCEPT ![m.run].tests = TRUE]
      <4>1. [run[m.run] EXCEPT !.tests = TRUE] \in Run
        BY <2>1, BornRun DEF Known, Run
      <4>. QED BY <2>1, <3>2, <4>1, BornRun, RunNotUnborn DEF Known, TypeOK, Born
    <3>. QED BY <1>2, <3>1, <3>2 DEF EventProgress
  <2>3. handler' \in [Handlers -> Handler]
    BY <1>2, <2>1 DEF EventProgress, Known, TypeOK, Handler
  <2>4. TypeOK'
    BY <1>2, <2>1, <2>2, <2>3 DEF EventProgress, Receive, Known, TypeOK
  <2>5. KnownRuns'
    BY <1>2, <2>1, <2>2 DEF EventProgress, Receive, Known, KnownRuns, TypeOK
  <2>. QED BY <2>4, <2>5 DEF Known
<1>3. ASSUME NEW m \in wire, EventFinished(h, m) PROVE Known'
  <2>1. /\ m.run \in Born /\ m.run \in RunIds
        /\ wire' \in SUBSET Event /\ wire' \subseteq wire
        /\ faults' \in 0..MaxFaults
    BY <1>3, ReceiveKnown DEF EventFinished, Born
  <2>2. m.verdict \in Verdict /\ m.verdict # "none"
    BY <1>3, ReceiveKnown, VerdictsAssumption DEF EventFinished, Event, Verdict
  <2>3. PICK tests \in BOOLEAN : run' = [run EXCEPT ![m.run].tests = tests]
    BY <1>3 DEF EventFinished
  <2>4. run' \in [RunIds -> Run \union {Unborn}] /\ Born' = Born
    <3>1. [run[m.run] EXCEPT !.tests = tests] \in Run
      BY <2>1, BornRun DEF Known, Run
    <3>. QED BY <2>1, <2>3, <3>1, BornRun, RunNotUnborn DEF Known, TypeOK, Born
  <2>5. handler' \in [Handlers -> Handler]
    BY <1>3, <2>1, <2>2 DEF EventFinished, Known, TypeOK, Handler
  <2>6. TypeOK'
    BY <1>3, <2>1, <2>4, <2>5 DEF EventFinished, Receive, Known, TypeOK
  <2>7. KnownRuns'
    BY <1>3, <2>1, <2>2, <2>4 DEF EventFinished, Receive, Known, KnownRuns, TypeOK
  <2>. QED BY <2>6, <2>7 DEF Known
<1>4. CASE HandlerFinish(h)
  <2>1. handler[h].cur \in Born /\ handler[h].verdict \in Verdict /\ h \in Finishers
    BY <1>4 DEF HandlerFinish, Known, KnownRuns, TypeOK, Handler, Finishers
  <2>2. /\ run' \in [RunIds -> Run \union {Unborn}] /\ Born' = Born
        /\ reap' \in SUBSET RunIds
        /\ retry' \in [Finishers -> RunIds \union {NoRun}]
        /\ \A u \in Finishers : retry'[u] \in Born \union {NoRun}
    BY <1>4, <2>1, FinishKnown DEF HandlerFinish
  <2>3. handler' \in [Handlers -> Handler]
    <3>1. handler \in [Handlers -> Handler]
      BY DEF Known, TypeOK
    <3>2. handler' = [handler EXCEPT ![h].pc = "rollup", ![h].verdict = "none"]
      BY <1>4 DEF HandlerFinish
    <3>3. [handler[h] EXCEPT !.pc = "rollup", !.verdict = "none"] \in Handler
      BY <3>1 DEF Handler
    <3>. QED BY <3>1, <3>2, <3>3
  <2>4. TypeOK'
    BY <1>4, <2>2, <2>3 DEF HandlerFinish, Known, TypeOK, world, jobVars
  <2>5. \A g \in Handlers : handler'[g].cur = handler[g].cur
                              /\ (handler'[g].pc = "finish" => handler'[g] = handler[g])
    BY <1>4 DEF HandlerFinish, Known, TypeOK, Handler
  <2>6. KnownRuns'
    BY <1>4, <2>2, <2>5 DEF HandlerFinish, Known, KnownRuns, TypeOK, world, jobVars
  <2>. QED BY <2>4, <2>6 DEF Known
<1>5. CASE HandlerRollup(h)
  <2>1. reg' \in RegState /\ reg' # "none" /\ UNCHANGED <<run, retry, reap, world>>
    BY <1>5, RollupTyped DEF HandlerRollup, Rollup
  <2>2. handler' \in [Handlers -> Handler]
    BY <1>5 DEF HandlerRollup, Known, TypeOK, Handler, IdleHandler
  <2>3. TypeOK'
    BY <1>5, <2>1, <2>2 DEF HandlerRollup, Known, TypeOK, world, jobVars
  <2>4. KnownRuns'
    BY <1>5, <2>1 DEF HandlerRollup, Known, KnownRuns, TypeOK, IdleHandler, Born, world, jobVars
  <2>. QED BY <2>3, <2>4 DEF Known
<1>6. CASE QueueRetry(h)
  <2>1. h \in Finishers
    BY DEF Finishers
  <2>2. /\ run' \in [RunIds -> Run \union {Unborn}]
        /\ Born \subseteq Born'
        /\ retry[h] \in Born
    BY <1>6, <2>1, QueueRetryKnown
  <2>3. TypeOK'
    BY <1>6, <2>2 DEF QueueRetry, Known, TypeOK, world, jobVars
  <2>4. KnownRuns'
    BY <1>6, <2>2 DEF QueueRetry, Known, KnownRuns, TypeOK, world, jobVars
  <2>. QED BY <2>3, <2>4 DEF Known
<1>. QED BY <1>1, <1>2, <1>3, <1>4, <1>5, <1>6 DEF HandlerReceives, HandlerGoesOn

LEMMA ClientKnown ==
  ASSUME Known, NEW c \in Clients, ClientAsks(c) \/ ClientGoesOn(c)
  PROVE  Known'
<1>1. CASE CancelBegin(c)
  <2>1. PICK open \in SUBSET Born :
          client' = [client EXCEPT ![c] = [pc |-> "cancel", todo |-> open,
                                           stop |-> Stoppable(open), cur |-> NoRun]]
    BY <1>1 DEF CancelBegin
  <2>2. open \subseteq RunIds /\ Stoppable(open) \subseteq open
    BY DEF Born, Stoppable
  <2>3. client' \in [Clients -> Client]
    BY <2>1, <2>2 DEF Known, TypeOK, Client
  <2>4. TypeOK'
    BY <1>1, <2>3 DEF CancelBegin, Known, TypeOK, storeVars, world, jobVars
  <2>5. \A d \in Clients : client'[d].todo \subseteq Born /\ client'[d].stop \subseteq Born
    <3>1. client'[c].todo \subseteq Born /\ client'[c].stop \subseteq Born
      BY <2>1, <2>2 DEF Known, TypeOK
    <3>2. \A d \in Clients \ {c} : client'[d] = client[d]
      BY <2>1 DEF Known, TypeOK
    <3>. QED BY <3>1, <3>2 DEF Known, KnownRuns
  <2>6. KnownRuns'
    BY <1>1, <2>5 DEF CancelBegin, Known, KnownRuns, Born, storeVars, world, jobVars
  <2>. QED BY <2>4, <2>6 DEF Known
<1>2. ASSUME NEW s \in Suites, CancelSuiteBegin(c, s) PROVE Known'
  <2>1. PICK r \in Born :
          client' = [client EXCEPT ![c] = [pc |-> "suite", todo |-> {r},
                                           stop |-> Stoppable({r}), cur |-> NoRun]]
    BY <1>2 DEF CancelSuiteBegin, Newest, RunsOf
  <2>2. r \in RunIds /\ Stoppable({r}) \subseteq {r}
    BY DEF Born, Stoppable
  <2>3. client' \in [Clients -> Client]
    BY <2>1, <2>2 DEF Known, TypeOK, Client
  <2>4. TypeOK'
    BY <1>2, <2>3 DEF CancelSuiteBegin, Known, TypeOK, storeVars, world, jobVars
  <2>5. KnownRuns'
    BY <1>2, <2>1, <2>2 DEF CancelSuiteBegin, Known, KnownRuns, TypeOK, Born, storeVars, world, jobVars
  <2>. QED BY <2>4, <2>5 DEF Known
<1>3. CASE CancelEnd(c)
  <2>1. client' \in [Clients -> Client]
    BY <1>3 DEF CancelEnd, Known, TypeOK, Client
  <2>2. TypeOK'
    BY <1>3, <2>1 DEF CancelEnd, Known, TypeOK, RegState, RegFinal, world, jobVars
  <2>3. KnownRuns'
    BY <1>3 DEF CancelEnd, Known, KnownRuns, TypeOK, Client, Born, world, jobVars
  <2>. QED BY <2>2, <2>3 DEF Known
<1>4. CASE ClientRollup(c)
  <2>1. reg' \in RegState /\ reg' # "none" /\ UNCHANGED <<run, retry, reap, world>>
    BY <1>4, RollupTyped DEF ClientRollup, Rollup
  <2>2. client' \in [Clients -> Client]
    BY <1>4 DEF ClientRollup, Known, TypeOK, Client
  <2>3. TypeOK'
    BY <1>4, <2>1, <2>2 DEF ClientRollup, Known, TypeOK, world, jobVars
  <2>4. KnownRuns'
    BY <1>4, <2>1 DEF ClientRollup, Known, KnownRuns, TypeOK, Client, Born, world, jobVars
  <2>. QED BY <2>3, <2>4 DEF Known
<1>5. ASSUME NEW r \in RunIds, CancelStop(c, r) PROVE Known'
  <2>1. /\ alloc' \in [RunIds -> Alloc]
        /\ faults' \in 0..MaxFaults
        /\ \A q \in RunIds : alloc'[q] # "none" => alloc[q] # "none"
    BY <1>5, StopKnown DEF CancelStop, Known
  <2>2. client' \in [Clients -> Client]
    <3>1. [client[c] EXCEPT !.stop = @ \ {r}, !.cur = r] \in Client
      BY DEF Known, TypeOK, Client
    <3>. QED BY <1>5, <3>1 DEF CancelStop, Known, TypeOK
  <2>3. TypeOK'
    BY <1>5, <2>1, <2>2 DEF CancelStop, Known, TypeOK, storeVars
  <2>4. KnownRuns'
    BY <1>5, <2>1 DEF CancelStop, Known, KnownRuns, TypeOK, Client, Born, storeVars
  <2>. QED BY <2>3, <2>4 DEF Known
<1>6. ASSUME NEW r \in RunIds, CancelMark(c, r) PROVE Known'
  <2>1. r \in Born
    BY <1>6 DEF CancelMark, NextToMark, Known, KnownRuns
  <2>2. run' \in [RunIds -> Run \union {Unborn}] /\ Born' = Born
    BY <1>6, <2>1, SetState DEF CancelMark, Known, RunState, Verdict
  <2>3. client' \in [Clients -> Client]
    <3>1. [client[c] EXCEPT !.todo = @ \ {r}, !.cur = NoRun] \in Client
      BY DEF Known, TypeOK, Client
    <3>. QED BY <1>6, <3>1 DEF CancelMark, Known, TypeOK
  <2>4. TypeOK'
    BY <1>6, <2>2, <2>3 DEF CancelMark, Known, TypeOK, world, jobVars
  <2>5. KnownRuns'
    BY <1>6, <2>2 DEF CancelMark, Known, KnownRuns, TypeOK, Client, world, jobVars
  <2>. QED BY <2>4, <2>5 DEF Known
<1>7. ASSUME NEW r \in RunIds, CancelSuiteMark(c, r) PROVE Known'
  <2>1. r \in Born
    BY <1>7 DEF CancelSuiteMark, NextToMark, Known, KnownRuns
  <2>2. run' \in [RunIds -> Run \union {Unborn}] /\ Born' = Born
    <3>1. CASE run' = run
      BY <3>1 DEF Known, TypeOK, Born
    <3>2. CASE run' = [run EXCEPT ![r].state = "canceled"]
      BY <2>1, <3>2, SetState DEF Known, RunState, Verdict
    <3>. QED BY <1>7, <3>1, <3>2 DEF CancelSuiteMark
  <2>3. client' \in [Clients -> Client]
    BY <1>7 DEF CancelSuiteMark, Known, TypeOK, Client, IdleClient
  <2>4. TypeOK'
    BY <1>7, <2>2, <2>3 DEF CancelSuiteMark, Known, TypeOK, world, jobVars
  <2>5. KnownRuns'
    BY <1>7, <2>2 DEF CancelSuiteMark, Known, KnownRuns, TypeOK, Client, IdleClient, world, jobVars
  <2>. QED BY <2>4, <2>5 DEF Known
<1>. QED BY <1>1, <1>2, <1>3, <1>4, <1>5, <1>6, <1>7 DEF ClientAsks, ClientGoesOn

\* Runners and Nomad touch jobs, events and the fault count only.
LEMMA OutsideKnown == ASSUME Known, Outside PROVE Known'
<1>1. ASSUME NEW r \in RunIds, Reap(r) PROVE Known'
  <2>1. /\ alloc' \in [RunIds -> Alloc]
        /\ faults' \in 0..MaxFaults
        /\ \A q \in RunIds : alloc'[q] # "none" => alloc[q] # "none"
    BY <1>1, StopKnown DEF Reap, Known
  <2>2. TypeOK'
    BY <1>1, <2>1 DEF Reap, Known, TypeOK, storeVars
  <2>3. KnownRuns'
    BY <1>1, <2>1 DEF Reap, Known, KnownRuns, Born, storeVars
  <2>. QED BY <2>2, <2>3 DEF Known
<1>2. ASSUME NEW r \in RunIds,
             RunnerStarts(r) \/ RunnerProgresses(r) \/ RunnerExits(r) \/ AllocDies(r)
               \/ \E v \in RunnerVerdicts : RunnerConcludes(r, v)
      PROVE  Known'
  <2>1. alloc[r] # "none" /\ r \in Born
    BY <1>2 DEF RunnerStarts, RunnerProgresses, RunnerExits, AllocDies, RunnerConcludes, LiveAlloc,
                Known, KnownRuns
  <2>2. alloc' \in [RunIds -> Alloc] /\ \A q \in RunIds : alloc'[q] # "none" => q = r \/ alloc[q] # "none"
    BY <1>2, RunnerMoves DEF Known
  <2>3. faults' \in 0..MaxFaults
    BY <1>2, FaultTyped DEF RunnerStarts, RunnerProgresses, RunnerExits, AllocDies, RunnerConcludes,
                            GoesOn, Known, TypeOK
  <2>4. wire' \in SUBSET Event /\ \A m \in wire' : m \in wire \/ m.run = r
    BY <1>2 DEF RunnerStarts, RunnerProgresses, RunnerExits, AllocDies, RunnerConcludes, Event, Known, TypeOK
  <2>5. said' \in [RunIds -> SUBSET RunnerVerdicts]
    BY <1>2 DEF RunnerStarts, RunnerProgresses, RunnerExits, AllocDies, RunnerConcludes, Known, TypeOK
  <2>6. MasterUnchanged
    BY <1>2 DEF RunnerStarts, RunnerProgresses, RunnerExits, AllocDies, RunnerConcludes
  <2>7. TypeOK'
    BY <2>2, <2>3, <2>4, <2>5, <2>6 DEF MasterUnchanged, Known, TypeOK, storeVars
  <2>8. KnownRuns'
    BY <2>1, <2>2, <2>4, <2>6 DEF MasterUnchanged, Known, KnownRuns, Born, storeVars
  <2>. QED BY <2>7, <2>8 DEF Known
<1>3. ASSUME NEW m \in wire, LoseEvent(m) PROVE Known'
  <2>1. faults' \in 0..MaxFaults
    BY <1>3, FaultTyped DEF LoseEvent, Known
  <2>2. TypeOK'
    BY <1>3, <2>1 DEF LoseEvent, MasterUnchanged, Known, TypeOK, storeVars
  <2>3. KnownRuns'
    BY <1>3 DEF LoseEvent, MasterUnchanged, Known, KnownRuns, Born, storeVars
  <2>. QED BY <2>2, <2>3 DEF Known
<1>. QED BY <1>1, <1>2, <1>3 DEF Outside

\* A restart keeps every run, and forgets every goroutine.
LEMMA RestartKnown == ASSUME Known, Restart PROVE Known'
<1>1. \A r \in Requeued : r \in Born
  BY DEF Requeued, InState
<1>2. run' \in [RunIds -> Run \union {Unborn}] /\ Born' = Born
  <2>1. \A r \in Requeued : [run[r] EXCEPT !.state = "queued"] \in Run
    BY <1>1, BornRun DEF Known, Run, RunState
  <2>. QED BY <1>1, <2>1, BornRun, RunNotUnborn DEF Restart, Known, TypeOK, Born
<1>3. tick' \in Tick /\ handler' \in [Handlers -> Handler]
  BY DEF Restart, Tick, IdleTick, Handler, IdleHandler
<1>4. client' \in [Clients -> Client]
  BY DEF Restart, Client, IdleClient
<1>5. faults' \in 0..MaxFaults
  BY FaultTyped DEF Restart, Known
<1>6. TypeOK'
  BY <1>2, <1>3, <1>4, <1>5 DEF Restart, Known, TypeOK, jobVars
<1>7. KnownRuns'
  BY <1>2 DEF Restart, Known, KnownRuns, IdleTick, IdleHandler, IdleClient, jobVars
<1>. QED BY <1>6, <1>7 DEF Known

LEMMA NextKnown == Known /\ [Next]_vars => Known'
<1> SUFFICES ASSUME Known, [Next]_vars PROVE Known'
  OBVIOUS
<1>1. CASE UNCHANGED vars
  BY <1>1 DEF Known, TypeOK, KnownRuns, Born, vars, storeVars, world, jobVars
<1>2. CASE Next
  BY <1>2, SubmitKnown, TickKnown, HandlerKnown, ClientKnown, OutsideKnown, RestartKnown DEF Next
<1>. QED BY <1>1, <1>2

\* In every behaviour the store, the goroutines, the jobs and the events are
\* well-formed, and every run that a goroutine, a job or an event refers to
\* has a complete record (newRun, AddRun, OpenWith).
THEOREM KnownAlways == Spec => [](TypeOK /\ KnownRuns)
BY InitKnown, NextKnown, PTL DEF Spec, Known

THEOREM TypeCorrect == Spec => []TypeOK
BY KnownAlways, PTL

-----------------------------------------------------------------------------
(* How a step can change a run *)

\* The ways the state of a run in the store changes: by the mark of a launch,
\* the mark of a cancellation, a start, poll or restart of a run that is not
\* over, or the one critical section that ends it.
RunChange(q) ==
  \/ run'[q].state = run[q].state
  \/ TickMarkDispatched /\ q = tick.cur /\ run'[q].state = "dispatched"
  \/ (\E c \in Clients : q \in client[c].todo) /\ run'[q].state = "canceled"
  \/ ~Terminal(run[q].state) /\ run'[q].state \in {"queued", "running"}
  \/ ~Terminal(run[q].state) /\ TickFinish /\ q = tick.cur /\ run'[q].state = tick.verdict
  \/ ~Terminal(run[q].state) /\ \E h \in Handlers : /\ HandlerFinish(h) /\ q = handler[h].cur
                                                  /\ run'[q].state = handler[h].verdict

SameIdentity(q) == run'[q].suite = run[q].suite /\ run'[q].attempt = run[q].attempt

LEMMA SetStateOf ==
  ASSUME TypeOK, NEW r \in Born, NEW q \in Born, NEW v, run' = [run EXCEPT ![r].state = v]
  PROVE  /\ SameIdentity(q)
         /\ run'[q].state = IF q = r THEN v ELSE run[q].state
BY BornRun DEF TypeOK, Run, SameIdentity

LEMMA SetTestsOf ==
  ASSUME TypeOK, NEW r \in Born, NEW q \in Born, NEW v, run' = [run EXCEPT ![r].tests = v]
  PROVE  SameIdentity(q) /\ run'[q].state = run[q].state
BY BornRun DEF TypeOK, Run, SameIdentity

LEMMA FinishChange ==
  ASSUME Known, NEW t, NEW r \in Born, NEW v, Finish(t, r, v), NEW q \in Born
  PROVE  /\ SameIdentity(q)
         /\ \/ run'[q].state = run[q].state
            \/ ~Terminal(run[q].state) /\ q = r /\ run'[q].state = v
BY SetStateOf DEF Finish, Known, SameIdentity

\* The steps that write a run.
LEMMA RunWrites ==
  ASSUME [Next]_vars
  PROVE  \/ UNCHANGED run
         \/ Submit \/ Restart \/ TickFinish \/ TickMarkDispatched
         \/ \E t \in Finishers : QueueRetry(t)
         \/ \E r \in RunIds : TickApplyRunning(r)
         \/ \E h \in Handlers, m \in wire :
              EventStarted(h, m) \/ EventProgress(h, m) \/ EventFinished(h, m)
         \/ \E h \in Handlers : HandlerFinish(h)
         \/ \E c \in Clients, r \in RunIds : CancelMark(c, r) \/ CancelSuiteMark(c, r)
<1>1. "tick" \in Finishers /\ \A h \in Handlers : h \in Finishers
  BY DEF Finishers
<1>2. CASE Outside
  BY <1>2 DEF Outside, Reap, RunnerStarts, RunnerProgresses, RunnerConcludes, RunnerExits,
              AllocDies, LoseEvent, MasterUnchanged, storeVars
<1>3. CASE TickStep
  <2>1. CASE \/ TickReconcile \/ TickAdmit \/ TickRollupAll \/ TickRollup
             \/ \E r \in RunIds : TickTimeout(r) \/ TickApplyEnded(r) \/ TickDispatch(r)
                                    \/ TickDispatchFails(r) \/ TickDispatchUnanswered(r)
    BY <2>1 DEF TickReconcile, TickAdmit, TickRollupAll, TickRollup, Rollup, TickTimeout,
       TickApplyEnded, TickDispatch, TickDispatchFails, TickDispatchUnanswered, storeVars
  <2>. QED BY <1>1, <1>3, <2>1 DEF TickStep
<1>4. ASSUME NEW h \in Handlers, HandlerReceives(h) \/ HandlerGoesOn(h)
      PROVE  \/ UNCHANGED run
             \/ \E m \in wire : EventStarted(h, m) \/ EventProgress(h, m) \/ EventFinished(h, m)
             \/ HandlerFinish(h) \/ QueueRetry(h)
  BY <1>4 DEF HandlerReceives, HandlerGoesOn, HandlerRollup, Rollup
<1>5. ASSUME NEW c \in Clients, ClientAsks(c) \/ ClientGoesOn(c)
      PROVE  \/ UNCHANGED run
             \/ \E r \in RunIds : CancelMark(c, r) \/ CancelSuiteMark(c, r)
  BY <1>5 DEF ClientAsks, ClientGoesOn, CancelBegin, CancelEnd, ClientRollup, Rollup,
              CancelSuiteBegin, CancelStop, storeVars
<1>. QED BY <1>1, <1>2, <1>3, <1>4, <1>5 DEF Next, vars, storeVars

LEMMA RunsChange ==
  ASSUME Known, [Next]_vars, NEW q \in Born
  PROVE  SameIdentity(q) /\ RunChange(q)
<1>1. CASE UNCHANGED run
  BY <1>1 DEF SameIdentity, RunChange
<1>2. CASE Submit
  BY <1>2 DEF Submit, Known, KnownRuns
<1>3. CASE TickFinish
  <2>1. tick.cur \in Born
    BY <1>3 DEF TickFinish, Known, KnownRuns
  <2>. QED BY <1>3, <2>1, FinishChange DEF TickFinish, RunChange
<1>4. CASE TickMarkDispatched
  <2>1. tick.cur \in Born
    BY <1>4 DEF TickMarkDispatched, Known, KnownRuns
  <2>2. SameIdentity(q) /\ run'[q].state = IF q = tick.cur THEN "dispatched" ELSE run[q].state
    BY <1>4, <2>1, BornRun DEF TickMarkDispatched, Known, TypeOK, Run, SameIdentity
  <2>. QED BY <1>4, <2>2 DEF RunChange
<1>5. ASSUME NEW t \in Finishers, QueueRetry(t) PROVE SameIdentity(q) /\ RunChange(q)
  BY <1>5, QueueRetryKnown DEF SameIdentity, RunChange
<1>6. ASSUME NEW r \in RunIds, TickApplyRunning(r) PROVE SameIdentity(q) /\ RunChange(q)
  <2>1. r \in Born
    BY <1>6 DEF TickApplyRunning, TickTakes, Known, KnownRuns
  <2>2. CASE run[r].state = "dispatched" /\ run' = [run EXCEPT ![r].state = "running"]
    <3>1. SameIdentity(q) /\ run'[q].state = IF q = r THEN "running" ELSE run[q].state
      BY <2>1, <2>2, BornRun DEF Known, TypeOK, Run, SameIdentity
    <3>2. ~Terminal(run[r].state)
      BY <2>2 DEF Terminal, Verdict
    <3>. QED BY <3>1, <3>2 DEF RunChange
  <2>. QED BY <1>1, <1>6, <2>2 DEF TickApplyRunning
<1>7. ASSUME NEW h \in Handlers, NEW m \in wire, EventStarted(h, m)
      PROVE  SameIdentity(q) /\ RunChange(q)
  <2>1. m.run \in Born
    BY DEF Known, KnownRuns
  <2>2. CASE ~Terminal(run[m.run].state) /\ run' = [run EXCEPT ![m.run].state = "running"]
    <3>1. SameIdentity(q) /\ run'[q].state = IF q = m.run THEN "running" ELSE run[q].state
      BY <2>1, <2>2, BornRun DEF Known, TypeOK, Run, SameIdentity
    <3>. QED BY <2>2, <3>1 DEF RunChange
  <2>. QED BY <1>1, <1>7, <2>2 DEF EventStarted
<1>8. ASSUME NEW h \in Handlers, NEW m \in wire, EventProgress(h, m) \/ EventFinished(h, m)
      PROVE  SameIdentity(q) /\ RunChange(q)
  <2>1. m.run \in Born
    BY DEF Known, KnownRuns
  <2>2. run' = run \/ \E b \in BOOLEAN : run' = [run EXCEPT ![m.run].tests = b]
    BY <1>8 DEF EventProgress, EventFinished
  <2>. QED BY <1>1, <2>1, <2>2, SetTestsOf DEF Known, RunChange
<1>9. ASSUME NEW h \in Handlers, HandlerFinish(h) PROVE SameIdentity(q) /\ RunChange(q)
  <2>1. handler[h].cur \in Born
    BY <1>9 DEF HandlerFinish, Known, KnownRuns
  <2>2. Finish(h, handler[h].cur, handler[h].verdict)
    BY <1>9 DEF HandlerFinish
  <2>3. /\ SameIdentity(q)
        /\ \/ run'[q].state = run[q].state
           \/ /\ ~Terminal(run[q].state) /\ q = handler[h].cur
              /\ run'[q].state = handler[h].verdict
    BY <2>1, <2>2, FinishChange
  <2>. QED BY <1>9, <2>3 DEF RunChange
<1>10. ASSUME NEW c \in Clients, NEW r \in RunIds, CancelMark(c, r) \/ CancelSuiteMark(c, r)
       PROVE  SameIdentity(q) /\ RunChange(q)
  <2>1. r \in client[c].todo /\ r \in Born
    BY <1>10 DEF CancelMark, CancelSuiteMark, NextToMark, Known, KnownRuns
  <2>2. run' = run \/ run' = [run EXCEPT ![r].state = "canceled"]
    BY <1>10 DEF CancelMark, CancelSuiteMark
  <2>. QED BY <1>1, <2>1, <2>2, SetStateOf DEF Known, RunChange
<1>11. CASE Restart
  <2>1. run'[q] = IF q \in Requeued THEN [run[q] EXCEPT !.state = "queued"] ELSE run[q]
    BY <1>11 DEF Restart, Born
  <2>2. q \in Requeued => ~Terminal(run[q].state)
    BY DEF Requeued, InState, InFlight, Terminal, Verdict
  <2>. QED BY <2>1, <2>2, BornRun DEF Known, Run, SameIdentity, RunChange
<1>. QED BY <1>1, <1>2, <1>3, <1>4, <1>5, <1>6, <1>7, <1>8, <1>9, <1>10, <1>11, RunWrites

\* Once a run is over, only a launch under way or a cancellation that saw it
\* open rewrites its state, in every behaviour (submit.go, admit.go).
THEOREM VerdictsStable == Spec => VerdictStable
<1>1. ASSUME Known, [Next]_vars
      PROVE  \A r \in RunIds :
               Terminal(run[r].state) /\ run'[r].state # run[r].state =>
                 \/ run'[r].state = "canceled" /\ \E c \in Clients : r \in client[c].todo
                 \/ run'[r].state = "dispatched" /\ tick.cur = r
  <2> TAKE r \in RunIds
  <2> HAVE Terminal(run[r].state) /\ run'[r].state # run[r].state
  <2>1. r \in Born
    BY DEF Born, Unborn, Terminal, Verdict
  <2>2. RunChange(r)
    BY <1>1, <2>1, RunsChange
  <2>. QED BY <2>2 DEF RunChange
<1>. QED BY <1>1, KnownAlways, PTL DEF Known, Spec, VerdictStable

\* A run that enters the store does so by submission or as a queued retry.
LEMMA RunsBorn ==
  ASSUME Known, [Next]_vars, Born' # Born
  PROVE  Submit \/ \E t \in Finishers : QueueRetry(t)
<1>1. UNCHANGED run => Born' = Born
  BY DEF Born
<1>2. ASSUME NEW r \in Born, NEW v \in RunState, run' = [run EXCEPT ![r].state = v]
      PROVE  Born' = Born
  BY <1>2, SetState DEF Known
<1>3. TickFinish => Born' = Born
  BY FinishKnown DEF TickFinish, Known, KnownRuns, TypeOK, Tick, Finishers
<1>4. ASSUME TickMarkDispatched PROVE Born' = Born
  <2>1. tick.cur \in Born
    BY <1>4 DEF TickMarkDispatched, Known, KnownRuns
  <2>2. [run[tick.cur] EXCEPT !.state = "dispatched", !.backendID = TRUE] \in Run
    BY <2>1, BornRun DEF Known, Run, RunState
  <2>. QED BY <1>4, <2>1, <2>2, BornRun, RunNotUnborn DEF TickMarkDispatched, Known, TypeOK, Born
<1>5. ASSUME NEW r \in RunIds, TickApplyRunning(r) PROVE Born' = Born
  <2>1. r \in Born /\ "running" \in RunState
    BY <1>5 DEF TickApplyRunning, TickTakes, Known, KnownRuns, RunState
  <2>. QED BY <1>1, <1>2, <1>5, <2>1 DEF TickApplyRunning
<1>6. ASSUME NEW h \in Handlers, NEW m \in wire,
             EventStarted(h, m) \/ EventProgress(h, m) \/ EventFinished(h, m)
      PROVE  Born' = Born
  <2>1. m.run \in Born /\ "running" \in RunState
    BY DEF Known, KnownRuns, RunState
  <2>2. ASSUME NEW b \in BOOLEAN, run' = [run EXCEPT ![m.run].tests = b] PROVE Born' = Born
    <3>1. [run[m.run] EXCEPT !.tests = b] \in Run
      BY <2>1, BornRun DEF Known, Run
    <3>. QED BY <2>1, <2>2, <3>1, BornRun, RunNotUnborn DEF Known, TypeOK, Born
  <2>3. \/ run' = run \/ run' = [run EXCEPT ![m.run].state = "running"]
        \/ \E b \in BOOLEAN : run' = [run EXCEPT ![m.run].tests = b]
    BY <1>6 DEF EventStarted, EventProgress, EventFinished
  <2>. QED BY <1>1, <1>2, <2>1, <2>2, <2>3
<1>7. ASSUME NEW h \in Handlers, HandlerFinish(h) PROVE Born' = Born
  <2>1. handler[h].cur \in Born /\ handler[h].verdict \in Verdict /\ h \in Finishers
    BY <1>7 DEF HandlerFinish, Known, KnownRuns, TypeOK, Handler, Finishers
  <2>. QED BY <1>7, <2>1, FinishKnown DEF HandlerFinish
<1>8. ASSUME NEW c \in Clients, NEW r \in RunIds, CancelMark(c, r) \/ CancelSuiteMark(c, r)
      PROVE  Born' = Born
  <2>1. r \in Born /\ "canceled" \in RunState
    BY <1>8 DEF CancelMark, CancelSuiteMark, NextToMark, Known, KnownRuns, RunState, Verdict
  <2>2. run' = run \/ run' = [run EXCEPT ![r].state = "canceled"]
    BY <1>8 DEF CancelMark, CancelSuiteMark
  <2>. QED BY <1>1, <1>2, <2>1, <2>2
<1>9. ASSUME Restart PROVE Born' = Born
  <2>1. \A r \in Requeued : r \in Born
    BY DEF Requeued, InState
  <2>2. \A r \in Requeued : [run[r] EXCEPT !.state = "queued"] \in Run
    BY <2>1, BornRun DEF Known, Run, RunState
  <2>. QED BY <1>9, <2>1, <2>2, RunNotUnborn DEF Restart, Born
<1>. QED BY <1>1, <1>3, <1>4, <1>5, <1>6, <1>7, <1>8, <1>9, RunWrites

\* Everything but the runners leaves alone what runners said.
LEMMA SaidChange ==
  ASSUME [Next]_vars
  PROVE  \/ UNCHANGED said
         \/ \E r \in RunIds, v \in RunnerVerdicts : RunnerConcludes(r, v)
<1>1. ASSUME TickStep PROVE UNCHANGED said
  BY <1>1 DEF TickStep, TickReconcile, TickFinish, TickAdmit, TickMarkDispatched, TickRollupAll,
     TickRollup, Rollup, QueueRetry, TickTimeout, TickApplyRunning, TickApplyEnded, TickDispatch,
     TickDispatchFails, TickDispatchUnanswered, world, jobVars
<1>2. ASSUME NEW h \in Handlers, HandlerReceives(h) \/ HandlerGoesOn(h) PROVE UNCHANGED said
  BY <1>2 DEF HandlerReceives, HandlerGoesOn, EventStarted, EventProgress, EventFinished, Receive,
     HandlerFinish, HandlerRollup, Rollup, QueueRetry, world, jobVars
<1>3. ASSUME NEW c \in Clients, ClientAsks(c) \/ ClientGoesOn(c) PROVE UNCHANGED said
  BY <1>3 DEF ClientAsks, ClientGoesOn, CancelBegin, CancelSuiteBegin, CancelEnd, ClientRollup, Rollup,
     CancelStop, CancelMark, CancelSuiteMark, world, jobVars
<1>4. ASSUME Outside
      PROVE  \/ UNCHANGED said
             \/ \E r \in RunIds, v \in RunnerVerdicts : RunnerConcludes(r, v)
  BY <1>4 DEF Outside, Reap, RunnerStarts, RunnerProgresses, RunnerExits, AllocDies, LoseEvent
<1>5. Submit \/ Restart => UNCHANGED said
  BY DEF Submit, Restart, world, jobVars
<1>. QED BY <1>1, <1>2, <1>3, <1>4, <1>5 DEF Next, vars, world, jobVars

\* A runner's verdict is never unsaid.
LEMMA SaidGrows ==
  ASSUME TypeOK, [Next]_vars
  PROVE  \A r \in RunIds : said[r] \subseteq said'[r]
BY SaidChange DEF TypeOK, RunnerConcludes

\* A run that enters the store is a first attempt, or the one after a run whose
\* retry was owed.
LEMMA BornAs ==
  ASSUME Known, [Next]_vars, NEW q \in Born' \ Born
  PROVE  \/ Born = {} /\ \E s \in Suites : run'[q] = NewRun(s, 1)
         \/ \E t \in Finishers :
              /\ QueueRetry(t)
              /\ run'[q] = NewRun(run[retry[t]].suite, run[retry[t]].attempt + 1)
<1>1. CASE Submit
  <2>1. Born = {}
    BY <1>1 DEF Submit, Known, KnownRuns
  <2>2. PICK first \in [Suites -> RunIds] :
          run' = [r \in RunIds |-> IF \E s \in Suites : first[s] = r
                                   THEN NewRun(CHOOSE s \in Suites : first[s] = r, 1)
                                   ELSE Unborn]
    BY <1>1 DEF Submit
  <2>3. q \in RunIds /\ run'[q] # Unborn
    BY DEF Born
  <2>4. \E s \in Suites : first[s] = q
    BY <2>2, <2>3
  <2>5. (CHOOSE s \in Suites : first[s] = q) \in Suites
    BY <2>4
  <2>. QED BY <2>1, <2>2, <2>3, <2>4, <2>5
<1>2. ASSUME NEW t \in Finishers, QueueRetry(t)
      PROVE  run'[q] = NewRun(run[retry[t]].suite, run[retry[t]].attempt + 1)
  <2>1. PICK n \in RunIds \ Born :
          run' = [run EXCEPT ![n] = NewRun(run[retry[t]].suite, run[retry[t]].attempt + 1)]
    BY <1>2 DEF QueueRetry
  <2>2. q \in RunIds /\ run'[q] # Unborn /\ run[q] = Unborn
    BY DEF Born
  <2>. QED BY <2>1, <2>2 DEF Known, TypeOK
<1>. QED BY <1>1, <1>2, RunsBorn

\* The steps that write the retries owed, and the one that records a crash.
LEMMA RetryWrites ==
  ASSUME [Next]_vars
  PROVE  \/ UNCHANGED retry /\ UNCHANGED crashed
         \/ Restart
         \/ UNCHANGED crashed /\ (TickFinish \/ \E t \in Finishers : QueueRetry(t))
         \/ UNCHANGED crashed /\ \E h \in Handlers : HandlerFinish(h)
<1>1. "tick" \in Finishers /\ \A h \in Handlers : h \in Finishers
  BY DEF Finishers
<1>2. CASE Outside
  BY <1>2 DEF Outside, Reap, RunnerStarts, RunnerProgresses, RunnerConcludes, RunnerExits,
              AllocDies, LoseEvent, MasterUnchanged
<1>3. CASE TickStep
  BY <1>1, <1>3 DEF TickStep, TickReconcile, TickFinish, TickAdmit, TickMarkDispatched, TickRollupAll,
     TickRollup, Rollup, QueueRetry, TickTimeout, TickApplyRunning, TickApplyEnded, TickDispatch,
     TickDispatchFails, TickDispatchUnanswered, world
<1>4. ASSUME NEW h \in Handlers, HandlerReceives(h) \/ HandlerGoesOn(h)
      PROVE  UNCHANGED crashed /\ (UNCHANGED retry \/ HandlerFinish(h) \/ QueueRetry(h))
  BY <1>4 DEF HandlerReceives, HandlerGoesOn, EventStarted, EventProgress, EventFinished, Receive,
     HandlerFinish, HandlerRollup, Rollup, QueueRetry, world
<1>5. ASSUME NEW c \in Clients, ClientAsks(c) \/ ClientGoesOn(c) PROVE UNCHANGED retry /\ UNCHANGED crashed
  BY <1>5 DEF ClientAsks, ClientGoesOn, CancelBegin, CancelSuiteBegin, CancelEnd, ClientRollup, Rollup,
     CancelStop, CancelMark, CancelSuiteMark, world
<1>6. Submit => UNCHANGED retry /\ UNCHANGED crashed
  BY DEF Submit, world
<1>. QED BY <1>1, <1>2, <1>3, <1>4, <1>5, <1>6 DEF Next, vars, world

-----------------------------------------------------------------------------
(* Attempts are contiguous *)

\* Whoever owes a retry owes it to a run with attempts left.
RetriesLeft ==
  \A t \in Finishers :
    retry[t] # NoRun => run[retry[t]].attempt < MaxAttempts[run[retry[t]].suite]

LEMMA RetriesLeftStep == ASSUME Known, RetriesLeft, [Next]_vars PROVE RetriesLeft'
<1> SUFFICES ASSUME NEW t \in Finishers, retry'[t] # NoRun
             PROVE  run'[retry'[t]].attempt < MaxAttempts[run'[retry'[t]].suite]
  BY DEF RetriesLeft
<1>1. CASE retry'[t] = retry[t]
  <2>1. retry[t] \in Born
    BY <1>1 DEF Known, KnownRuns
  <2>. QED BY <1>1, <2>1, RunsChange DEF RetriesLeft, SameIdentity
<1>2. ASSUME NEW u \in Finishers, NEW r \in Born, NEW v, Finish(u, r, v), retry'[t] # retry[t]
      PROVE  run'[retry'[t]].attempt < MaxAttempts[run'[retry'[t]].suite]
  <2>1. retry'[t] = r /\ EarnsRetry(r, v)
    BY <1>2 DEF Finish, Known, TypeOK
  <2>. QED BY <2>1, RunsChange DEF EarnsRetry, SameIdentity
<1>3. CASE TickFinish
  <2>1. tick.cur \in Born /\ "tick" \in Finishers
    BY <1>3 DEF TickFinish, Known, KnownRuns, Finishers
  <2>. QED BY <1>1, <1>2, <1>3, <2>1 DEF TickFinish
<1>4. ASSUME NEW h \in Handlers, HandlerFinish(h)
      PROVE  run'[retry'[t]].attempt < MaxAttempts[run'[retry'[t]].suite]
  <2>1. handler[h].cur \in Born /\ h \in Finishers
    BY <1>4 DEF HandlerFinish, Known, KnownRuns, Finishers
  <2>. QED BY <1>1, <1>2, <1>4, <2>1 DEF HandlerFinish
<1>5. ASSUME NEW u \in Finishers, QueueRetry(u) PROVE retry'[t] = retry[t]
  BY <1>5 DEF QueueRetry, Known, TypeOK
<1>6. ~Restart
  BY DEF Restart
<1>. QED BY <1>1, <1>3, <1>4, <1>5, <1>6, RetryWrites

LEMMA ContiguousStep ==
  ASSUME Known, RetriesLeft, AttemptsContiguous, [Next]_vars
  PROVE  AttemptsContiguous'
<1> SUFFICES ASSUME NEW r \in Born'
             PROVE  /\ run'[r].attempt <= MaxAttempts[run'[r].suite]
                    /\ \A k \in 1..(run'[r].attempt - 1) :
                         \E q \in Born' : run'[q].suite = run'[r].suite /\ run'[q].attempt = k
  BY DEF AttemptsContiguous, RunsOf
\* Attempts in the store stay there.
<1>1. \A q \in Born : q \in Born' /\ SameIdentity(q)
  <2>1. ASSUME NEW q \in Born PROVE q \in Born' /\ SameIdentity(q)
    <3>1. SameIdentity(q)
      BY RunsChange
    <3>2. Born \subseteq Born'
      BY RunsBorn, QueueRetryKnown DEF Submit, Known, KnownRuns
    <3>. QED BY <3>1, <3>2
  <2>. QED BY <2>1
<1>2. CASE r \in Born
  BY <1>1, <1>2 DEF AttemptsContiguous, RunsOf, SameIdentity
<1>3. ASSUME NEW s \in Suites, run'[r] = NewRun(s, 1)
      PROVE  /\ run'[r].attempt <= MaxAttempts[run'[r].suite]
             /\ \A k \in 1..(run'[r].attempt - 1) :
                  \E q \in Born' : run'[q].suite = run'[r].suite /\ run'[q].attempt = k
  BY <1>3, MaxAttemptsAssumption DEF NewRun
<1>4. ASSUME NEW t \in Finishers, QueueRetry(t),
             run'[r] = NewRun(run[retry[t]].suite, run[retry[t]].attempt + 1)
      PROVE  /\ run'[r].attempt <= MaxAttempts[run'[r].suite]
             /\ \A k \in 1..(run'[r].attempt - 1) :
                  \E q \in Born' : run'[q].suite = run'[r].suite /\ run'[q].attempt = k
  <2> DEFINE last == retry[t]
  <2>1. last \in Born /\ last # NoRun
    BY <1>4, QueueRetryKnown DEF QueueRetry
  <2>2. run[last].attempt \in Nat \ {0} /\ run[last].suite \in Suites
    BY <2>1, BornRun DEF Known, Run
  <2>3. run'[r].suite = run[last].suite /\ run'[r].attempt = run[last].attempt + 1
    BY <1>4 DEF NewRun
  <2>4. run[last].attempt < MaxAttempts[run[last].suite] /\ MaxAttempts[run[last].suite] \in Nat
    BY <2>1, <2>2, MaxAttemptsAssumption DEF RetriesLeft
  <2>5. run'[r].attempt <= MaxAttempts[run'[r].suite]
    BY <2>2, <2>3, <2>4
  <2>6. ASSUME NEW k \in 1..(run'[r].attempt - 1)
        PROVE  \E q \in Born' : run'[q].suite = run'[r].suite /\ run'[q].attempt = k
    <3>1. CASE k = run[last].attempt
      BY <1>1, <2>1, <2>3, <3>1 DEF SameIdentity
    <3>2. CASE k # run[last].attempt
      <4>1. k \in 1..(run[last].attempt - 1)
        BY <2>2, <2>3, <2>6, <3>2
      <4>2. PICK q \in Born : run[q].suite = run[last].suite /\ run[q].attempt = k
        BY <2>1, <4>1 DEF AttemptsContiguous, RunsOf
      <4>. QED BY <1>1, <2>3, <4>2 DEF SameIdentity
    <3>. QED BY <3>1, <3>2
  <2>. QED BY <2>5, <2>6
<1>. QED BY <1>2, <1>3, <1>4, BornAs

\* A suite never uses more attempts than it has, and never skips one, however
\* cancellations, crashes and repeated verdicts interleave (finish, newRun).
THEOREM AttemptsAreContiguous == Spec => []AttemptsContiguous
<1>1. Init => RetriesLeft /\ AttemptsContiguous
  BY DEF Init, RetriesLeft, AttemptsContiguous, Born
<1>2. /\ TypeOK /\ KnownRuns /\ RetriesLeft /\ AttemptsContiguous /\ [Next]_vars
      => RetriesLeft' /\ AttemptsContiguous'
  BY RetriesLeftStep, ContiguousStep DEF Known
<1>. QED BY <1>1, <1>2, KnownAlways, PTL DEF Spec

-----------------------------------------------------------------------------
(* No retry is lost while the master is up *)

\* A goroutine that owes a retry does nothing else before it is queued, so the
\* next end of a run it handles cannot overwrite the debt.
OneDebtAtATime ==
  /\ retry["tick"] # NoRun => tick.cur = NoRun
  /\ \A h \in Handlers : retry[h] # NoRun => handler[h].pc = "rollup"

LEMMA OneDebtStep == ASSUME Known, OneDebtAtATime, [Next]_vars PROVE OneDebtAtATime'
<1>1. ASSUME TickStep PROVE OneDebtAtATime'
  <2>1. \A h \in Handlers : h # "tick" /\ h \in Finishers
    BY HandlersAssumption DEF Finishers
  <2>2. CASE TickFinish
    BY <2>1, <2>2 DEF TickFinish, Finish, Known, TypeOK, Tick, OneDebtAtATime
  <2>3. CASE QueueRetry("tick")
    BY <2>1, <2>3 DEF QueueRetry, Known, TypeOK, OneDebtAtATime
  <2>4. CASE TickMarkDispatched
    BY <2>4 DEF TickMarkDispatched, Known, TypeOK, Tick, OneDebtAtATime
  <2>5. CASE TickReconcile \/ TickAdmit \/ TickRollupAll \/ TickRollup
    <3>1. UNCHANGED <<retry, handler>>
      BY <2>5 DEF TickReconcile, TickAdmit, TickRollupAll, TickRollup, Rollup
    <3>2. tick'.cur = tick.cur \/ tick'.cur = NoRun
      <4>1. TickReconcile => tick'.cur = tick.cur
        BY DEF TickReconcile, Known, TypeOK, Tick
      <4>2. TickAdmit => tick'.cur = tick.cur
        BY DEF TickAdmit, Known, TypeOK, Tick
      <4>3. TickRollupAll \/ TickRollup => tick'.cur = NoRun
        BY DEF TickRollupAll, TickRollup, IdleTick
      <4>. QED BY <2>5, <4>1, <4>2, <4>3
    <3>. QED BY <3>1, <3>2 DEF OneDebtAtATime
  <2>6. ASSUME NEW r \in RunIds,
               TickTimeout(r) \/ TickApplyRunning(r) \/ TickApplyEnded(r) \/ TickDispatch(r)
                 \/ TickDispatchFails(r) \/ TickDispatchUnanswered(r)
        PROVE  OneDebtAtATime'
    <3>1. retry["tick"] = NoRun /\ UNCHANGED <<retry, handler>>
      BY <2>6 DEF TickTimeout, TickApplyRunning, TickApplyEnded, TickDispatch, TickDispatchFails,
                  TickDispatchUnanswered, TickTakes
    <3>. QED BY <3>1 DEF OneDebtAtATime
  <2>. QED BY <1>1, <2>2, <2>3, <2>4, <2>5, <2>6 DEF TickStep
<1>2. ASSUME NEW h \in Handlers, HandlerReceives(h) \/ HandlerGoesOn(h) PROVE OneDebtAtATime'
  <2>1. \A g \in Handlers : g # "tick" /\ g \in Finishers
    BY HandlersAssumption DEF Finishers
  <2>2. ASSUME NEW m \in wire, EventStarted(h, m) \/ EventProgress(h, m) \/ EventFinished(h, m)
        PROVE  OneDebtAtATime'
    BY <2>2 DEF EventStarted, EventProgress, EventFinished, Receive, Known, TypeOK, OneDebtAtATime
  <2>3. CASE HandlerFinish(h)
    <3>1. /\ handler'[h].pc = "rollup"
          /\ \A g \in Handlers \ {h} : handler'[g] = handler[g]
      BY <2>3 DEF HandlerFinish, Known, TypeOK, Handler
    <3>2. \A u \in Finishers \ {h} : retry'[u] = retry[u]
      BY <2>3 DEF HandlerFinish, Finish, Known, TypeOK
    <3>3. UNCHANGED tick /\ "tick" \in Finishers
      BY <2>3 DEF HandlerFinish, Finishers
    <3>. QED BY <2>1, <3>1, <3>2, <3>3 DEF OneDebtAtATime
  <2>4. CASE HandlerRollup(h)
    BY <2>4 DEF HandlerRollup, Rollup, Known, TypeOK, OneDebtAtATime
  <2>5. CASE QueueRetry(h)
    BY <2>1, <2>5 DEF QueueRetry, Known, TypeOK, OneDebtAtATime
  <2>. QED BY <1>2, <2>2, <2>3, <2>4, <2>5 DEF HandlerReceives, HandlerGoesOn
<1>3. ASSUME UNCHANGED <<retry, tick, handler>> PROVE OneDebtAtATime'
  BY <1>3 DEF OneDebtAtATime
<1>4. ASSUME NEW c \in Clients, ClientAsks(c) \/ ClientGoesOn(c) PROVE UNCHANGED <<retry, tick, handler>>
  BY <1>4 DEF ClientAsks, ClientGoesOn, CancelBegin, CancelSuiteBegin, CancelEnd, ClientRollup, Rollup,
     CancelStop, CancelMark, CancelSuiteMark
<1>5. Submit \/ Outside => UNCHANGED <<retry, tick, handler>>
  BY DEF Submit, Outside, Reap, RunnerStarts, RunnerProgresses, RunnerConcludes, RunnerExits,
         AllocDies, LoseEvent, MasterUnchanged
<1>6. CASE Restart
  BY <1>6 DEF Restart, Finishers, OneDebtAtATime
<1>. QED BY <1>1, <1>2, <1>3, <1>4, <1>5, <1>6 DEF Next, vars

LEMMA NoRetryLostStep ==
  ASSUME Known, OneDebtAtATime, NoRetryLost, [Next]_vars
  PROVE  NoRetryLost'
<1> SUFFICES ASSUME ~crashed', NEW r \in Born', RetryOwed(r)'
             PROVE  RetryQueued(r)' \/ \E t \in Finishers : retry'[t] = r
  BY DEF NoRetryLost
<1>1. ~crashed /\ ~Restart
  <2>1. ~Restart
    BY Zenon DEF Restart
  <2>2. crashed' = crashed
    BY <2>1, RetryWrites, Zenon
  <2>3. crashed' \in BOOLEAN
    BY NextKnown DEF Known, TypeOK
  <2>4. crashed' = FALSE
    BY <2>3
  <2>5. crashed = FALSE
    BY <2>2, <2>4
  <2>6. ~crashed
    BY <2>5
  <2>. QED BY <2>1, <2>6, Zenon
<1>2. r \in Born
  <2>1. ASSUME r \notin Born PROVE run'[r].state = "queued"
    <3>1. \E s, k : run'[r] = NewRun(s, k)
      BY <2>1, BornAs
    <3>. QED BY <3>1 DEF NewRun
  <2>. QED BY <2>1 DEF RetryOwed, Retryable
<1>3. SameIdentity(r) /\ RunChange(r)
  BY <1>2, RunsChange
\* A run that just ended: the goroutine that ended it owes the retry.
<1>4. ASSUME NEW t \in Finishers, NEW v, Finish(t, r, v), ~Terminal(run[r].state), run'[r].state = v
      PROVE  \E u \in Finishers : retry'[u] = r
  <2>1. EarnsRetry(r, v)
    BY <1>3, <1>4 DEF RetryOwed, EarnsRetry, SameIdentity
  <2>. QED BY <1>4, <2>1 DEF Finish, Known, TypeOK
<1>5. CASE run'[r].state = run[r].state
  <2>1. RetryOwed(r)
    BY <1>3, <1>5 DEF RetryOwed, SameIdentity
  <2>2. CASE RetryQueued(r)
    <3>1. PICK q \in Born : run[q].suite = run[r].suite /\ run[q].attempt = run[r].attempt + 1
      BY <2>2 DEF RetryQueued, RunsOf
    <3>2. SameIdentity(q)
      BY RunsChange
    <3>3. q \in Born'
      BY RunsBorn, QueueRetryKnown DEF Submit, Known, KnownRuns
    <3>. QED BY <1>3, <3>1, <3>2, <3>3 DEF RetryQueued, RunsOf, SameIdentity
  <2>3. ASSUME NEW t \in Finishers, retry[t] = r
        PROVE  RetryQueued(r)' \/ \E u \in Finishers : retry'[u] = r
    <3>1. r # NoRun
      BY <1>2, NoRunAssumption DEF Born
    <3>2. CASE QueueRetry(t)
      <4>1. PICK n \in RunIds \ Born :
              run' = [run EXCEPT ![n] = NewRun(run[retry[t]].suite, run[retry[t]].attempt + 1)]
        BY <3>2 DEF QueueRetry
      <4>2. run'[n] = NewRun(run[r].suite, run[r].attempt + 1)
        BY <2>3, <4>1 DEF Known, TypeOK
      <4>3. run[r].suite \in Suites /\ run[r].attempt + 1 \in Nat \ {0}
        BY <1>2, BornRun DEF Known, Run
      <4>4. n \in Born'
        BY <4>2, <4>3, NewRunTyped, RunNotUnborn DEF Born
      <4>. QED BY <1>3, <4>2, <4>4 DEF RetryQueued, RunsOf, SameIdentity, NewRun
    <3>3. CASE TickFinish
      <4>1. t # "tick"
        BY <2>3, <3>1, <3>3 DEF OneDebtAtATime, TickFinish
      <4>. QED BY <2>3, <3>3, <4>1 DEF TickFinish, Finish, Known, TypeOK
    <3>4. ASSUME NEW h \in Handlers, HandlerFinish(h) PROVE \E u \in Finishers : retry'[u] = r
      <4>1. t # h
        BY <2>3, <3>1, <3>4 DEF OneDebtAtATime, HandlerFinish
      <4>. QED BY <2>3, <3>4, <4>1 DEF HandlerFinish, Finish, Known, TypeOK
    <3>5. ASSUME NEW u \in Finishers, u # t, QueueRetry(u) PROVE retry'[t] = r
      BY <2>3, <3>5 DEF QueueRetry, Known, TypeOK
    <3>6. CASE UNCHANGED retry
      BY <2>3, <3>6
    <3>. QED BY <1>1, <3>2, <3>3, <3>4, <3>5, <3>6, <2>3, RetryWrites
  <2>. QED BY <1>1, <1>2, <2>1, <2>2, <2>3 DEF NoRetryLost
<1>6. CASE TickFinish /\ r = tick.cur /\ run'[r].state = tick.verdict /\ ~Terminal(run[r].state)
  <2>1. "tick" \in Finishers /\ Finish("tick", r, tick.verdict)
    BY <1>6 DEF TickFinish, Finishers
  <2>. QED BY <1>4, <1>6, <2>1
<1>7. ASSUME NEW h \in Handlers, HandlerFinish(h), r = handler[h].cur,
             run'[r].state = handler[h].verdict, ~Terminal(run[r].state)
      PROVE  \E u \in Finishers : retry'[u] = r
  <2>1. h \in Finishers /\ Finish(h, r, handler[h].verdict)
    BY <1>7 DEF HandlerFinish, Finishers
  <2>. QED BY <1>4, <1>7, <2>1
<1>8. run'[r].state \notin {"dispatched", "canceled", "queued", "running"}
  BY DEF RetryOwed, Retryable
<1>. QED BY <1>3, <1>5, <1>6, <1>7, <1>8 DEF RunChange

\* As long as the master does not crash, every attempt that ended in a retryable
\* verdict with attempts left has a successor, or a goroutine of its own about
\* to queue it (finish, between its two critical sections).
THEOREM RetriesAreKept == Spec => []NoRetryLost
<1>1. Init => OneDebtAtATime /\ NoRetryLost
  BY DEF Init, OneDebtAtATime, NoRetryLost, Born, Finishers
<1>2. /\ TypeOK /\ KnownRuns /\ OneDebtAtATime /\ NoRetryLost /\ [Next]_vars
      => OneDebtAtATime' /\ NoRetryLost'
  BY OneDebtStep, NoRetryLostStep DEF Known
<1>. QED BY <1>1, <1>2, KnownAlways, PTL DEF Spec

-----------------------------------------------------------------------------
(* Verdicts are the runners' own *)

\* Whatever could still become the state of a run as "passed" or "failed" was
\* said by its runner: events on their way, verdicts about to be recorded, and
\* the exit status that the poll takes for a pass, perhaps of another run that
\* shares the job.
Spoken ==
  /\ \A m \in wire : m.phase = "finished" => m.verdict \in said[m.run]
  /\ \A h \in Handlers : handler[h].pc = "finish" => handler[h].verdict \in said[handler[h].cur]
  /\ tick.cur = NoRun => tick.verdict = "none"
  /\ tick.verdict = "passed" => \E q \in SameJob(tick.cur) : "passed" \in said[q]
  /\ tick.verdict # "failed"
  /\ \A r \in RunIds : alloc[r] \in {"reporting0", "exited0"} => "passed" \in said[r]

\* Runs that share a job go on sharing it: neither suite nor attempt changes.
LEMMA JobShared ==
  ASSUME Known, [Next]_vars, NEW r \in Born, NEW q \in SameJob(r)
  PROVE  q \in SameJob(r)' /\ q \in Born
<1>1. q \in Born /\ run[q].suite = run[r].suite /\ run[q].attempt = run[r].attempt
  BY DEF SameJob, RunsOf
<1>2. Born \subseteq Born'
  BY RunsBorn, QueueRetryKnown DEF Submit, Known, KnownRuns
<1>3. SameIdentity(q) /\ SameIdentity(r)
  BY <1>1, RunsChange
<1>. QED BY <1>1, <1>2, <1>3 DEF SameJob, RunsOf, SameIdentity

\* A pass reported in the job of r stays one.
LEMMA PassShared ==
  ASSUME Known, [Next]_vars, NEW r \in Born, \E q \in SameJob(r) : "passed" \in said[q]
  PROVE  \E q \in SameJob(r)' : "passed" \in said'[q]
<1>1. PICK q \in SameJob(r) : "passed" \in said[q]
  OBVIOUS
<1>2. q \in SameJob(r)' /\ q \in RunIds
  BY JobShared DEF Born
<1>. QED BY <1>1, <1>2, SaidGrows DEF Known

LEMMA WireSpoken ==
  ASSUME Known, Spoken, [Next]_vars
  PROVE  \A m \in wire' : m.phase = "finished" => m.verdict \in said'[m.run]
<1>1. ASSUME NEW m \in wire', m.phase = "finished"
      PROVE  m \in wire \/ \E r \in RunIds, v \in RunnerVerdicts :
                             RunnerConcludes(r, v) /\ m = [run |-> r, phase |-> "finished", verdict |-> v]
  <2>1. TickStep => wire' = wire
    BY DEF TickStep, TickReconcile, TickFinish, TickAdmit, TickMarkDispatched, TickRollupAll,
     TickRollup, Rollup, QueueRetry, TickTimeout, TickApplyRunning, TickApplyEnded, TickDispatch,
     TickDispatchFails, TickDispatchUnanswered, world, jobVars
  <2>2. ASSUME NEW h \in Handlers, HandlerReceives(h) \/ HandlerGoesOn(h) PROVE wire' \subseteq wire
    BY <2>2 DEF HandlerReceives, HandlerGoesOn, EventStarted, EventProgress, EventFinished, Receive,
       HandlerFinish, HandlerRollup, Rollup, QueueRetry, world, jobVars
  <2>3. ASSUME NEW c \in Clients, ClientAsks(c) \/ ClientGoesOn(c) PROVE wire' = wire
    BY <2>3 DEF ClientAsks, ClientGoesOn, CancelBegin, CancelSuiteBegin, CancelEnd, ClientRollup,
       Rollup, CancelStop, CancelMark, CancelSuiteMark, world, jobVars
  <2>4. CASE Outside
    BY <1>1, <2>4 DEF Outside, Reap, RunnerStarts, RunnerProgresses, RunnerConcludes, RunnerExits,
       AllocDies, LoseEvent
  <2>5. Submit \/ Restart => wire' = wire
    BY DEF Submit, Restart, world, jobVars
  <2>. QED BY <1>1, <2>1, <2>2, <2>3, <2>4, <2>5 DEF Next, vars, world, jobVars
<1>2. ASSUME NEW m \in wire, m.phase = "finished" PROVE m.verdict \in said'[m.run]
  <2>1. m.run \in RunIds
    BY DEF Known, KnownRuns, Born
  <2>. QED BY <1>2, <2>1, SaidGrows DEF Spoken, Known
<1>3. ASSUME NEW r \in RunIds, NEW v \in RunnerVerdicts, RunnerConcludes(r, v) PROVE v \in said'[r]
  BY <1>3 DEF RunnerConcludes, Known, TypeOK
<1>. QED BY <1>1, <1>2, <1>3

LEMMA AllocSpoken ==
  ASSUME Known, Spoken, [Next]_vars
  PROVE  \A r \in RunIds : alloc'[r] \in {"reporting0", "exited0"} => "passed" \in said'[r]
<1> SUFFICES ASSUME NEW r \in RunIds, alloc'[r] \in {"reporting0", "exited0"}
             PROVE  "passed" \in said'[r]
  OBVIOUS
<1>1. CASE alloc[r] \in {"reporting0", "exited0"}
  BY <1>1, SaidGrows DEF Spoken, Known
<1>2. ASSUME NEW q \in RunIds, Stop(q) PROVE alloc[r] \in {"reporting0", "exited0"}
  BY <1>2 DEF Stop, Known, TypeOK
<1>3. ASSUME NEW q \in RunIds, NEW a \in RegisterOutcomes(alloc[q]), alloc' = Registered(q, a)
      PROVE  alloc[r] \in {"reporting0", "exited0"}
  BY <1>3 DEF Registered, RegisterOutcomes, Known, TypeOK
<1>4. ASSUME NEW q \in RunIds,
             TickTimeout(q) \/ TickDispatch(q) \/ TickDispatchUnanswered(q) \/ Reap(q)
               \/ \E c \in Clients : CancelStop(c, q)
      PROVE  alloc[r] \in {"reporting0", "exited0"}
  BY <1>2, <1>3, <1>4 DEF TickTimeout, TickDispatch, TickDispatchUnanswered, Reap, CancelStop
<1>5. ASSUME NEW q \in RunIds, RunnerStarts(q) \/ RunnerProgresses(q) \/ RunnerExits(q) \/ AllocDies(q)
      PROVE  alloc[r] \in {"reporting0", "exited0"}
  <2>1. UNCHANGED alloc \/ \E a \in Alloc :
          /\ alloc' = Moved(q, a)
          /\ a \in {"reporting0", "exited0"} => alloc[q] \in {"reporting0", "exited0"}
    BY <1>5 DEF RunnerStarts, RunnerProgresses, RunnerExits, AllocDies, Alloc
  <2>. QED BY <2>1, MovedKnown DEF Known
<1>6. ASSUME NEW q \in RunIds, NEW v \in RunnerVerdicts, RunnerConcludes(q, v)
      PROVE  alloc[r] \in {"reporting0", "exited0"} \/ (q = r /\ v = "passed")
  <2>1. PICK a \in {"reporting0", "reporting1"} :
          alloc' = Moved(q, a) /\ (a = "reporting0" => v = "passed")
    BY <1>6 DEF RunnerConcludes
  <2>. QED BY <2>1, MovedKnown DEF Known, Alloc
<1>7. ASSUME NEW v \in RunnerVerdicts, RunnerConcludes(r, v), v = "passed" PROVE "passed" \in said'[r]
  BY <1>7 DEF RunnerConcludes, Known, TypeOK
<1>8. TickStep => alloc' = alloc \/ \E q \in RunIds :
                                      TickTimeout(q) \/ TickDispatch(q) \/ TickDispatchUnanswered(q)
  BY DEF TickStep, TickReconcile, TickFinish, TickAdmit, TickMarkDispatched, TickRollupAll,
     TickRollup, Rollup, QueueRetry, TickApplyRunning, TickApplyEnded, TickDispatchFails, world, jobVars
<1>9. ASSUME NEW h \in Handlers, HandlerReceives(h) \/ HandlerGoesOn(h) PROVE alloc' = alloc
  BY <1>9 DEF HandlerReceives, HandlerGoesOn, EventStarted, EventProgress, EventFinished, Receive,
     HandlerFinish, HandlerRollup, Rollup, QueueRetry, world, jobVars
<1>10. ASSUME NEW c \in Clients, ClientAsks(c) \/ ClientGoesOn(c)
       PROVE  alloc' = alloc \/ \E q \in RunIds : CancelStop(c, q)
  BY <1>10 DEF ClientAsks, ClientGoesOn, CancelBegin, CancelSuiteBegin, CancelEnd, ClientRollup,
     Rollup, CancelMark, CancelSuiteMark, world, jobVars
<1>11. Submit \/ Restart \/ (\E m \in wire : LoseEvent(m)) => alloc' = alloc
  BY DEF Submit, Restart, LoseEvent, world, jobVars
<1>. QED
  BY <1>1, <1>4, <1>5, <1>6, <1>7, <1>8, <1>9, <1>10, <1>11 DEF Next, Outside, vars, world, jobVars

LEMMA HandlerSpoken ==
  ASSUME Known, Spoken, [Next]_vars, NEW h \in Handlers, handler'[h].pc = "finish"
  PROVE  handler'[h].verdict \in said'[handler'[h].cur]
<1>1. CASE handler'[h] = handler[h]
  <2>1. handler[h].cur \in RunIds
    BY <1>1 DEF Known, KnownRuns, Born
  <2>. QED BY <1>1, <2>1, SaidGrows DEF Spoken, Known
<1>2. ASSUME NEW g \in Handlers, NEW m \in wire, EventFinished(g, m), g = h
      PROVE  handler'[h].verdict \in said'[handler'[h].cur]
  <2>1. handler'[h] = [pc |-> "finish", cur |-> m.run, verdict |-> m.verdict] /\ said' = said
    BY <1>2 DEF EventFinished, Receive, Known, TypeOK
  <2>. QED BY <1>2, <2>1 DEF EventFinished, Spoken
<1>3. ASSUME NEW g \in Handlers, HandlerReceives(g) \/ HandlerGoesOn(g)
      PROVE  handler'[h] = handler[h] \/ \E m \in wire : EventFinished(g, m) /\ g = h
  <2>1. ASSUME NEW m \in wire, EventFinished(g, m), g # h PROVE handler'[h] = handler[h]
    BY <2>1 DEF EventFinished, Known, TypeOK
  <2>2. ASSUME NEW m \in wire, EventStarted(g, m) \/ EventProgress(g, m) PROVE handler'[h] = handler[h]
    BY <2>2 DEF EventStarted, EventProgress, Known, TypeOK
  <2>3. CASE HandlerFinish(g)
    BY <2>3 DEF HandlerFinish, Known, TypeOK, Handler
  <2>4. CASE HandlerRollup(g)
    BY <2>4 DEF HandlerRollup, IdleHandler, Known, TypeOK
  <2>5. CASE QueueRetry(g)
    BY <2>5 DEF QueueRetry
  <2>. QED BY <1>3, <2>1, <2>2, <2>3, <2>4, <2>5 DEF HandlerReceives, HandlerGoesOn
<1>4. TickStep => handler' = handler
  BY DEF TickStep, TickReconcile, TickFinish, TickAdmit, TickMarkDispatched, TickRollupAll,
     TickRollup, QueueRetry, TickTimeout, TickApplyRunning, TickApplyEnded, TickDispatch,
     TickDispatchFails, TickDispatchUnanswered
<1>5. ASSUME NEW c \in Clients, ClientAsks(c) \/ ClientGoesOn(c) PROVE handler' = handler
  BY <1>5 DEF ClientAsks, ClientGoesOn, CancelBegin, CancelSuiteBegin, CancelEnd, ClientRollup,
     CancelStop, CancelMark, CancelSuiteMark
<1>6. Submit \/ Outside => handler' = handler
  BY DEF Submit, Outside, Reap, RunnerStarts, RunnerProgresses, RunnerConcludes, RunnerExits,
         AllocDies, LoseEvent, MasterUnchanged
<1>7. ~Restart
  BY DEF Restart, IdleHandler
<1>. QED BY <1>1, <1>2, <1>3, <1>4, <1>5, <1>6, <1>7 DEF Next, vars

LEMMA TickSpoken ==
  ASSUME Known, Spoken, [Next]_vars
  PROVE  /\ tick'.cur = NoRun => tick'.verdict = "none"
         /\ tick'.verdict = "passed" => \E q \in SameJob(tick.cur)' : "passed" \in said'[q]
         /\ tick'.verdict # "failed"
<1> DEFINE Goal == /\ tick'.cur = NoRun => tick'.verdict = "none"
                   /\ tick'.verdict = "passed" => \E q \in SameJob(tick.cur)' : "passed" \in said'[q]
                   /\ tick'.verdict # "failed"
<1>1. ASSUME tick'.cur = tick.cur, tick'.verdict = tick.verdict PROVE Goal
  <2>1. tick.verdict = "passed" => tick.cur \in Born
    BY DEF Spoken, Known, KnownRuns
  <2>2. ASSUME tick.verdict = "passed" PROVE \E q \in SameJob(tick.cur)' : "passed" \in said'[q]
    <3>1. PICK r \in Born : r = tick.cur
      BY <2>1, <2>2
    <3>2. \E q \in SameJob(r)' : "passed" \in said'[q]
      BY <2>2, <3>1, PassShared DEF Spoken
    <3>3. SameJob(tick.cur)' = SameJob(r)'
      BY <1>1, <3>1 DEF SameJob
    <3>. QED BY <3>2, <3>3
  <2>. QED BY <1>1, <2>2 DEF Spoken
<1>2. ASSUME tick'.verdict = "none" PROVE Goal
  BY <1>2
<1>3. ASSUME TickReconcile \/ TickAdmit PROVE Goal
  <2>1. TickReconcile => tick'.cur = tick.cur /\ tick'.verdict = tick.verdict
    BY DEF TickReconcile, Known, TypeOK, Tick
  <2>2. TickAdmit => tick'.cur = tick.cur /\ tick'.verdict = tick.verdict
    BY DEF TickAdmit, Known, TypeOK, Tick
  <2>. QED BY <1>1, <1>3, <2>1, <2>2
<1>4. TickFinish => tick'.verdict = "none"
  BY DEF TickFinish, Known, TypeOK, Tick
<1>5. TickMarkDispatched => tick'.verdict = "none"
  BY DEF TickMarkDispatched, Known, TypeOK, Tick
<1>6. TickRollupAll \/ TickRollup \/ Restart => tick'.verdict = "none"
  BY DEF TickRollupAll, TickRollup, Restart, IdleTick
<1>7. ASSUME NEW r \in RunIds, TickTimeout(r) PROVE Goal
  <2>1. tick'.cur = r /\ tick'.verdict = "timeout"
    BY <1>7 DEF TickTimeout, Known, TypeOK, Tick
  <2>. QED BY <2>1, NoRunAssumption
<1>8. ASSUME NEW r \in RunIds, TickApplyRunning(r) PROVE Goal
  <2>1. tick'.cur = tick.cur /\ tick'.verdict = tick.verdict
    BY <1>8 DEF TickApplyRunning, Known, TypeOK, Tick
  <2>. QED BY <1>1, <2>1
<1>9. ASSUME NEW r \in RunIds, TickApplyEnded(r) PROVE Goal
  <2>1. PICK phase \in PollPhases(r) \intersect {"complete", "failed", "lost"} :
          tick'.cur = r /\ tick'.verdict = PollVerdict(r, phase)
    BY <1>9 DEF TickApplyEnded, Known, TypeOK, Tick
  <2>2. said' = said /\ run' = run
    BY <1>9 DEF TickApplyEnded, storeVars, world, jobVars
  <2>3. PollVerdict(r, phase) \in {"passed", "errored"}
    BY DEF PollVerdict
  <2>4. ASSUME PollVerdict(r, phase) = "passed" PROVE \E q \in SameJob(r) : "passed" \in said[q]
    <3>1. phase = "complete"
      BY <2>4 DEF PollVerdict
    <3>2. PICK q \in SameJob(r) : Phase(alloc[q]) = "complete"
      BY <2>1, <3>1 DEF PollPhases
    <3>3. q \in RunIds /\ alloc[q] = "exited0"
      BY <3>2 DEF Phase, SameJob, RunsOf, Born
    <3>. QED BY <3>2, <3>3 DEF Spoken
  <2>5. SameJob(tick.cur)' = SameJob(r)
    BY <2>1, <2>2 DEF SameJob, RunsOf, Born
  <2>. QED BY <2>1, <2>2, <2>3, <2>4, <2>5, NoRunAssumption
<1>10. ASSUME NEW r \in RunIds, TickDispatch(r) PROVE Goal
  <2>1. tick'.verdict = tick.verdict /\ tick.verdict = "none"
    BY <1>10 DEF TickDispatch, TickTakes, Known, TypeOK, Tick, Spoken
  <2>. QED BY <2>1
<1>11. ASSUME NEW r \in RunIds, TickDispatchFails(r) PROVE Goal
  <2>1. tick'.cur = r /\ tick'.verdict = "errored"
    BY <1>11 DEF TickDispatchFails, Known, TypeOK, Tick
  <2>. QED BY <2>1, NoRunAssumption
<1>12. ASSUME NEW r \in RunIds, TickDispatchUnanswered(r) PROVE Goal
  <2>1. tick'.cur = tick.cur /\ tick'.verdict = tick.verdict
    BY <1>12 DEF TickDispatchUnanswered, Known, TypeOK, Tick
  <2>. QED BY <1>1, <2>1
<1>13. ASSUME tick' = tick PROVE Goal
  BY <1>1, <1>13
<1>14. ASSUME NEW h \in Handlers, HandlerReceives(h) \/ HandlerGoesOn(h) PROVE tick' = tick
  BY <1>14 DEF HandlerReceives, HandlerGoesOn, EventStarted, EventProgress, EventFinished, Receive,
     HandlerFinish, HandlerRollup, QueueRetry
<1>15. ASSUME NEW c \in Clients, ClientAsks(c) \/ ClientGoesOn(c) PROVE tick' = tick
  BY <1>15 DEF ClientAsks, ClientGoesOn, CancelBegin, CancelSuiteBegin, CancelEnd, ClientRollup,
     CancelStop, CancelMark, CancelSuiteMark
<1>16. Submit \/ Outside \/ QueueRetry("tick") => tick' = tick
  BY DEF Submit, Outside, Reap, RunnerStarts, RunnerProgresses, RunnerConcludes, RunnerExits,
         AllocDies, LoseEvent, MasterUnchanged, QueueRetry
<1>17. TickStep => Goal
  BY <1>2, <1>3, <1>4, <1>5, <1>6, <1>7, <1>8, <1>9, <1>10, <1>11, <1>12, <1>13, <1>16 DEF TickStep
<1>. QED BY <1>2, <1>6, <1>13, <1>14, <1>15, <1>16, <1>17 DEF Next, vars

LEMMA ReportedStep ==
  ASSUME Known, Spoken, VerdictIsReported, [Next]_vars
  PROVE  VerdictIsReported'
<1> SUFFICES ASSUME NEW r \in Born'
             PROVE  /\ run'[r].state = "failed" => "failed" \in said'[r]
                    /\ run'[r].state = "passed" => \E q \in SameJob(r)' : "passed" \in said'[q]
  BY DEF VerdictIsReported
<1>1. CASE r \notin Born
  <2>1. \E s, k : run'[r] = NewRun(s, k)
    BY <1>1, BornAs
  <2>. QED BY <2>1 DEF NewRun
<1>2. CASE r \in Born
  <2>1. r \in RunIds /\ said[r] \subseteq said'[r] /\ RunChange(r) /\ r \in SameJob(r)
    BY <1>2, SaidGrows, RunsChange DEF Born, Known, SameJob, RunsOf
  <2>2. CASE run'[r].state = run[r].state
    BY <1>2, <2>1, <2>2, PassShared DEF VerdictIsReported
  <2>3. CASE TickFinish /\ r = tick.cur /\ run'[r].state = tick.verdict
    BY <1>2, <2>3, PassShared DEF Spoken
  <2>4. ASSUME NEW h \in Handlers, HandlerFinish(h), r = handler[h].cur,
               run'[r].state = handler[h].verdict
        PROVE  /\ run'[r].state = "failed" => "failed" \in said'[r]
               /\ run'[r].state = "passed" => \E q \in SameJob(r)' : "passed" \in said'[q]
    <3>1. handler[h].verdict \in said[r]
      BY <2>4 DEF HandlerFinish, Spoken
    <3>. QED BY <1>2, <2>1, <2>4, <3>1, PassShared
  <2>. QED BY <2>1, <2>2, <2>3, <2>4 DEF RunChange
<1>. QED BY <1>1, <1>2

\* A run is recorded as failed only if its own runner said so, and as passed only
\* if its own runner did or that of a run with which it shares its Nomad job: no
\* timeout, retry, restart or event of another attempt invents a result.
THEOREM VerdictsAreReported == Spec => [](Spoken /\ VerdictIsReported)
<1>1. Init => Spoken /\ VerdictIsReported
  BY DEF Init, Spoken, VerdictIsReported, Born, IdleTick, IdleHandler
<1>2. /\ TypeOK /\ KnownRuns /\ Spoken /\ VerdictIsReported /\ [Next]_vars
      => Spoken' /\ VerdictIsReported'
  <2> SUFFICES ASSUME Known, Spoken, VerdictIsReported, [Next]_vars
               PROVE  Spoken' /\ VerdictIsReported'
    BY DEF Known
  <2>1. Spoken'
    BY WireSpoken, AllocSpoken, HandlerSpoken, TickSpoken DEF Spoken
  <2>. QED BY <2>1, ReportedStep
<1>. QED BY <1>1, <1>2, KnownAlways, PTL DEF Spec

-----------------------------------------------------------------------------
(* A passed regression was earned *)

\* Every step that is not a rollup leaves the regression, or submits or cancels it.
LEMMA RegWrites ==
  ASSUME [Next]_vars
  PROVE  UNCHANGED reg \/ Rollup \/ reg' \in {"pending", "canceled"}
<1>1. CASE TickStep
  BY <1>1 DEF TickStep, TickReconcile, TickFinish, TickAdmit, TickMarkDispatched, TickRollupAll,
     TickRollup, QueueRetry, TickTimeout, TickApplyRunning, TickApplyEnded, TickDispatch,
     TickDispatchFails, TickDispatchUnanswered, storeVars
<1>2. ASSUME NEW h \in Handlers, HandlerReceives(h) \/ HandlerGoesOn(h) PROVE UNCHANGED reg \/ Rollup
  BY <1>2 DEF HandlerReceives, HandlerGoesOn, EventStarted, EventProgress, EventFinished, Receive,
     HandlerFinish, HandlerRollup, QueueRetry
<1>3. ASSUME NEW c \in Clients, ClientAsks(c) \/ ClientGoesOn(c)
      PROVE  UNCHANGED reg \/ Rollup \/ reg' = "canceled"
  BY <1>3 DEF ClientAsks, ClientGoesOn, CancelBegin, CancelSuiteBegin, CancelEnd, ClientRollup,
     CancelStop, CancelMark, CancelSuiteMark, storeVars
<1>4. Outside \/ Restart => UNCHANGED reg
  BY DEF Outside, Restart, Reap, RunnerStarts, RunnerProgresses, RunnerConcludes, RunnerExits,
         AllocDies, LoseEvent, MasterUnchanged, storeVars
<1>5. Submit => reg' = "pending"
  BY DEF Submit
<1>. QED BY <1>1, <1>2, <1>3, <1>4, <1>5 DEF Next, vars, storeVars

\* Every suite a rollup counts as passed has an attempt that its runner passed.
LEMMA RollupEarned ==
  ASSUME Known, VerdictIsReported, Rollup, reg' = "passed"
  PROVE  \A s \in Suites : \E r \in RunsOf(s) : "passed" \in said[r]
<1> TAKE s \in Suites
<1>1. PICK latest \in LatestPerSuite :
        reg' = RollupState({run[latest[u]].state : u \in Suites})
  BY DEF Rollup
<1> DEFINE states == {run[latest[u]].state : u \in Suites}
<1>2. states \subseteq Verdict /\ states \intersect CountsErrored = {} /\ "failed" \notin states
  BY <1>1 DEF RollupState
<1>3. latest[s] \in RunsOf(s) /\ run[latest[s]].state \in states
  BY <1>1 DEF LatestPerSuite, Newest
<1>4. run[latest[s]].state = "passed"
  BY <1>2, <1>3 DEF Verdict, CountsErrored
<1>5. PICK q \in SameJob(latest[s]) : "passed" \in said[q]
  BY <1>3, <1>4 DEF VerdictIsReported, RunsOf
<1>. QED BY <1>3, <1>5 DEF SameJob, RunsOf

\* A regression shown as passed has, in every suite, an attempt that its own
\* runner classified as passed, however stale the rollup (Rollup).
THEOREM PassesAreEarned == Spec => []PassIsEarned
<1>1. Init => PassIsEarned
  BY DEF Init, PassIsEarned
<1>2. ASSUME Known, VerdictIsReported, PassIsEarned, [Next]_vars PROVE PassIsEarned'
  <2> SUFFICES ASSUME reg' = "passed", NEW s \in Suites
               PROVE  \E r \in RunsOf(s)' : "passed" \in said'[r]
    BY DEF PassIsEarned
  <2>1. \E r \in RunsOf(s) : "passed" \in said[r]
    <3>1. CASE UNCHANGED reg
      BY <1>2, <3>1 DEF PassIsEarned
    <3>2. CASE Rollup
      BY <1>2, <3>2, RollupEarned
    <3>. QED BY <1>2, <3>1, <3>2, RegWrites
  <2>2. PICK r \in RunsOf(s) : "passed" \in said[r]
    BY <2>1
  <2>3. r \in Born /\ r \in RunIds /\ run[r].suite = s
    BY DEF RunsOf, Born
  <2>4. r \in Born'
    BY <1>2, <2>3, RunsBorn, QueueRetryKnown DEF Submit, Known, KnownRuns
  <2>5. run'[r].suite = s
    BY <1>2, <2>3, RunsChange DEF SameIdentity
  <2>6. "passed" \in said'[r]
    BY <1>2, <2>2, <2>3, SaidGrows DEF Known
  <2>. QED BY <2>4, <2>5, <2>6 DEF RunsOf
<1>. QED BY <1>1, <1>2, KnownAlways, VerdictsAreReported, PTL DEF Known, Spec

-----------------------------------------------------------------------------
(* No job outlives its run *)

\* Nothing outside the master was ever told of r.
Untouched(r) == /\ alloc[r] = "none"
                /\ \A m \in wire : m.run # r
                /\ \A h \in Handlers : handler[h].cur # r

\* What is known of a job: a queued run has none, but for the launch under way;
\* the job of a run in flight is on record, but for the launch under way; of a
\* run that the tick is about to end, nothing is live that is not on record, and
\* nothing at all if it is over already; what the loops of the tick still have
\* before them is as their snapshots said, or was canceled since.
RunTracked(r) ==
  /\ run[r].state = "queued" => Untouched(r) \/ (tick.cur = r /\ tick.verdict = "none")
  /\ run[r].state \in InFlight => run[r].backendID \/ tick.cur = r
  /\ tick.cur = r /\ tick.verdict # "none" => alloc[r] \notin LiveAlloc \/ run[r].backendID
  /\ tick.pc = "admit" /\ r \in tick.todo =>
       run[r].state \in {"queued", "canceled"} /\ Untouched(r) /\ tick.cur # r
  /\ tick.pc = "reconcile" /\ r \in tick.todo => run[r].backendID
  /\ Terminal(run[r].state) /\ run[r].state # "canceled" /\ alloc[r] \in LiveAlloc
       => r \in reap \/ (tick.cur = r /\ tick.verdict = "none")

TickOrderly ==
  /\ tick.pc \in {"idle", "rollup"} => tick.cur = NoRun
  /\ tick.cur = NoRun => tick.verdict = "none"

JobsTracked == TickOrderly /\ \A r \in Born : RunTracked(r)

\* Every call to the backend is answered, and the master stays up.  Anyone may
\* cancel, tasks may die, events be lost or repeated, and run specs fail to build.
Undisturbed == FaultKinds \intersect {"stop", "register", "crash"} = {}

LEMMA OrderlyStep ==
  ASSUME Undisturbed, Known, TickOrderly, [Next]_vars PROVE TickOrderly'
<1>1. ~Restart
  BY DEF Undisturbed, Restart, Fault
<1>2. CASE UNCHANGED tick
  BY <1>2 DEF TickOrderly
<1>3. CASE TickStep
  <2>1. CASE TickReconcile
    BY <2>1 DEF TickReconcile, TickOrderly, Known, TypeOK, Tick
  <2>2. CASE TickFinish
    BY <2>2 DEF TickFinish, TickOrderly, Known, TypeOK, Tick
  <2>3. CASE TickAdmit
    BY <2>3 DEF TickAdmit, TickOrderly, Known, TypeOK, Tick
  <2>4. CASE TickMarkDispatched
    BY <2>4 DEF TickMarkDispatched, TickOrderly, Known, TypeOK, Tick
  <2>5. CASE TickRollupAll
    BY <2>5 DEF TickRollupAll, IdleTick, TickOrderly
  <2>6. CASE TickRollup
    BY <2>6 DEF TickRollup, IdleTick, TickOrderly
  <2>7. CASE QueueRetry("tick")
    BY <2>7, <1>2 DEF QueueRetry
  <2>8. ASSUME NEW r \in RunIds,
               TickTimeout(r) \/ TickApplyRunning(r) \/ TickApplyEnded(r) \/ TickDispatch(r)
                 \/ TickDispatchFails(r) \/ TickDispatchUnanswered(r)
        PROVE  TickOrderly'
    <3>1. r # NoRun /\ tick \in Tick /\ tick.pc \in {"reconcile", "admit"} /\ tick.cur = NoRun
      BY <2>8, NoRunAssumption DEF TickTimeout, TickApplyRunning, TickApplyEnded, TickDispatch,
         TickDispatchFails, TickDispatchUnanswered, TickTakes, Known, TypeOK
    <3>2. \/ tick' = [tick EXCEPT !.todo = @ \ {r}]
          \/ tick' = [tick EXCEPT !.todo = @ \ {r}, !.cur = r]
          \/ \E v : tick' = [tick EXCEPT !.todo = @ \ {r}, !.cur = r, !.verdict = v]
      BY <2>8 DEF TickTimeout, TickApplyRunning, TickApplyEnded, TickDispatch,
         TickDispatchFails, TickDispatchUnanswered
    <3>. QED BY <3>1, <3>2 DEF TickOrderly, Tick
  <2>. QED BY <1>3, <2>1, <2>2, <2>3, <2>4, <2>5, <2>6, <2>7, <2>8 DEF TickStep
<1>4. ASSUME NEW h \in Handlers, HandlerReceives(h) \/ HandlerGoesOn(h) PROVE UNCHANGED tick
  BY <1>4 DEF HandlerReceives, HandlerGoesOn, EventStarted, EventProgress, EventFinished, Receive,
     HandlerFinish, HandlerRollup, QueueRetry
<1>5. ASSUME NEW c \in Clients, ClientAsks(c) \/ ClientGoesOn(c) PROVE UNCHANGED tick
  BY <1>5 DEF ClientAsks, ClientGoesOn, CancelBegin, CancelSuiteBegin, CancelStop, CancelMark,
     CancelSuiteMark, CancelEnd, ClientRollup
<1>6. Submit \/ Outside => UNCHANGED tick
  BY DEF Submit, Outside, Reap, RunnerStarts, RunnerProgresses, RunnerConcludes, RunnerExits,
         AllocDies, LoseEvent, MasterUnchanged
<1>. QED BY <1>1, <1>2, <1>3, <1>4, <1>5, <1>6 DEF Next, vars

\* A stopped job takes every allocation of its runs with it.
LEMMA StopOf ==
  ASSUME Undisturbed, TypeOK, NEW q \in RunIds, Stop(q), NEW r \in Born
  PROVE  /\ \/ alloc'[r] = alloc[r]
            \/ alloc[r] # "none" /\ alloc'[r] = "lost"
         /\ q = r => alloc'[r] \notin LiveAlloc
<1>1. alloc' = [p \in RunIds |-> IF p \in SameJob(q) /\ alloc[p] # "none" THEN "lost" ELSE alloc[p]]
  BY DEF Stop, Fault, Undisturbed
<1>2. r \in RunIds /\ r \in SameJob(r)
  BY DEF SameJob, RunsOf, Born
<1>. QED BY <1>1, <1>2 DEF LiveAlloc

\* A run is tracked as long as neither it nor what is known of it changes, but
\* for an allocation that ends.
LEMMA TrackedStays ==
  ASSUME NEW r \in Born, RunTracked(r), run'[r].state = run[r].state, run'[r].backendID = run[r].backendID,
         \/ alloc'[r] \in {"none", alloc[r]}
         \/ alloc[r] # "none" /\ alloc'[r] = "lost",
         r \in reap => r \in reap',
         \A m \in wire' : m.run = r => m \in wire,
         \A h \in Handlers : handler'[h].cur = r => handler[h].cur = r \/ ~Untouched(r),
         tick' = tick
  PROVE  RunTracked(r)'
BY DEF RunTracked, Untouched, LiveAlloc

\* A run that was not in the store is unknown outside, and to every loop.
LEMMA NewIsTracked ==
  ASSUME Known, NEW r \in RunIds \ Born, run'[r].state = "queued",
         UNCHANGED <<tick, handler, alloc, wire>>
  PROVE  RunTracked(r)'
<1>1. Untouched(r)'
  BY NoRunAssumption DEF Known, KnownRuns, TypeOK, Untouched
<1>2. r \notin tick.todo /\ tick.cur # r
  BY NoRunAssumption DEF Known, KnownRuns
<1>3. ~Terminal(run'[r].state) /\ run'[r].state \notin InFlight
  BY DEF Terminal, Verdict, InFlight
<1>. QED BY <1>1, <1>2, <1>3 DEF RunTracked

LEMMA SubmitTracked ==
  ASSUME Known, Submit, NEW r \in Born' PROVE RunTracked(r)'
<1>1. Born = {} /\ r \in RunIds
  BY DEF Submit, Known, KnownRuns, Born
<1>2. UNCHANGED <<tick, handler, alloc, wire>>
  BY DEF Submit, world, jobVars
<1>3. run'[r].state = "queued"
  <2>1. PICK first \in [Suites -> RunIds] :
          run' = [q \in RunIds |-> IF \E s \in Suites : first[s] = q
                                   THEN NewRun(CHOOSE s \in Suites : first[s] = q, 1)
                                   ELSE Unborn]
    BY DEF Submit
  <2>2. run'[r] # Unborn
    BY DEF Born
  <2>. QED BY <1>1, <2>1, <2>2 DEF NewRun
<1>. QED BY <1>1, <1>2, <1>3, NewIsTracked

LEMMA RetryTracked ==
  ASSUME Known, JobsTracked, NEW t \in Finishers, QueueRetry(t), NEW r \in Born'
  PROVE  RunTracked(r)'
<1>1. UNCHANGED <<tick, handler, reap, alloc, wire>>
  BY DEF QueueRetry, world, jobVars
<1>2. CASE r \in Born
  BY <1>1, <1>2, QueueRetryKnown, TrackedStays DEF JobsTracked
<1>3. CASE r \notin Born
  <2>1. PICK n \in RunIds \ Born :
          run' = [run EXCEPT ![n] = NewRun(run[retry[t]].suite, run[retry[t]].attempt + 1)]
    BY DEF QueueRetry
  <2>2. r \in RunIds /\ run'[r] # Unborn /\ run[r] = Unborn
    BY <1>3 DEF Born
  <2>3. run'[r].state = "queued"
    BY <2>1, <2>2 DEF Known, TypeOK, NewRun
  <2>. QED BY <1>1, <1>3, <2>2, <2>3, NewIsTracked
<1>. QED BY <1>2, <1>3

\* The runner and Nomad go on with a job that is there already; one that dies or
\* is removed does not come back.
LEMMA OutsideTracked ==
  ASSUME Undisturbed, Known, JobsTracked, Outside, NEW r \in Born
  PROVE  RunTracked(r)'
<1>1. RunTracked(r) /\ r \in RunIds /\ alloc \in [RunIds -> Alloc]
  BY DEF JobsTracked, Born, Known, TypeOK
<1>2. ASSUME NEW q \in RunIds, Reap(q) PROVE RunTracked(r)'
  <2>1. UNCHANGED <<run, tick, handler, wire>> /\ reap' = reap \ {q}
    BY <1>2 DEF Reap, storeVars
  <2>2. Stop(q)
    BY <1>2 DEF Reap
  <2>3. CASE q = r
    <3>1. alloc'[r] \notin LiveAlloc /\ (alloc[r] = "none" => alloc'[r] = "none")
      BY <1>1, <2>2, <2>3, StopOf DEF Known
    <3>. QED BY <1>1, <2>1, <3>1 DEF RunTracked, Untouched
  <2>4. CASE q # r
    BY <1>1, <2>1, <2>2, <2>4, StopOf, TrackedStays DEF Known
  <2>. QED BY <2>3, <2>4
<1>3. ASSUME MasterUnchanged, UNCHANGED alloc, wire' \subseteq wire PROVE RunTracked(r)'
  BY <1>1, <1>3, TrackedStays DEF MasterUnchanged, storeVars
\* A job goes on: events and states of a run that was launched.
<1>4. ASSUME NEW q \in RunIds, MasterUnchanged, alloc[q] \in LiveAlloc,
             \A p \in RunIds \ {q} : alloc'[p] \in {"none", alloc[p]},
             \A m \in wire' : m \in wire \/ m.run = q
      PROVE  RunTracked(r)'
  <2>1. UNCHANGED <<run, tick, handler, reap>>
    BY <1>4 DEF MasterUnchanged, storeVars
  <2>2. CASE q = r
    <3>1. ~Untouched(r)
      BY <1>4, <2>2 DEF Untouched, LiveAlloc
    <3>. QED BY <1>1, <1>4, <2>1, <2>2, <3>1 DEF RunTracked
  <2>3. CASE q # r
    BY <1>1, <1>4, <2>1, <2>3, TrackedStays
  <2>. QED BY <2>2, <2>3
<1>5. ASSUME NEW q \in RunIds,
             \/ RunnerStarts(q) \/ RunnerProgresses(q) \/ RunnerExits(q) \/ AllocDies(q)
             \/ \E v \in RunnerVerdicts : RunnerConcludes(q, v)
      PROVE  RunTracked(r)'
  <2>1. MasterUnchanged /\ alloc[q] \in LiveAlloc
    BY <1>5 DEF RunnerStarts, RunnerProgresses, RunnerExits, AllocDies, RunnerConcludes, LiveAlloc
  <2>3. \A p \in RunIds \ {q} : alloc'[p] \in {"none", alloc[p]}
    BY <1>5, RunnerMoves DEF Known
  <2>4. \A m \in wire' : m \in wire \/ m.run = q
    BY <1>5 DEF RunnerStarts, RunnerProgresses, RunnerExits, AllocDies, RunnerConcludes
  <2>. QED BY <1>4, <2>1, <2>3, <2>4
<1>. QED BY <1>2, <1>3, <1>5 DEF Outside, LoseEvent


\* What a handler writes: the run of its event, and nothing the tick holds.
LEMMA HandlerTracked ==
  ASSUME Known, JobsTracked, NEW h \in Handlers, HandlerReceives(h) \/ HandlerGoesOn(h),
         ~QueueRetry(h), NEW r \in Born
  PROVE  RunTracked(r)'
<1>1. RunTracked(r) /\ r \in RunIds /\ run[r] \in Run /\ run \in [RunIds -> Run \union {Unborn}]
  BY BornRun DEF JobsTracked, Born, Known, TypeOK
<1>2. \A g \in Handlers \ {h} : handler'[g] = handler[g]
  BY DEF HandlerReceives, HandlerGoesOn, EventStarted, EventProgress, EventFinished,
         HandlerFinish, HandlerRollup, Known, TypeOK
<1>3. ASSUME NEW m \in wire, EventStarted(h, m) \/ EventProgress(h, m) \/ EventFinished(h, m)
      PROVE  RunTracked(r)'
  <2>1. UNCHANGED <<tick, reap, alloc>> /\ wire' \subseteq wire
    BY <1>3 DEF EventStarted, EventProgress, EventFinished, Receive
  <2>2. handler'[h].cur = m.run
    <3>1. \E pc, v : handler' = [handler EXCEPT ![h] = [pc |-> pc, cur |-> m.run, verdict |-> v]]
      BY <1>3 DEF EventStarted, EventProgress, EventFinished
    <3>2. handler'[h] = [pc |-> handler'[h].pc, cur |-> m.run, verdict |-> handler'[h].verdict]
      BY <3>1 DEF Known, TypeOK
    <3>. QED BY <3>2
  <2>3. CASE m.run # r
    <3>1. run'[r] = run[r]
      BY <1>1, <1>3, <2>3 DEF EventStarted, EventProgress, EventFinished
    <3>2. \A g \in Handlers : handler'[g].cur = r => handler[g].cur = r
      BY <1>2, <2>2, <2>3
    <3>. QED BY <1>1, <2>1, <3>1, <3>2, TrackedStays
  <2>4. CASE m.run = r
    <3>1. ~Untouched(r)
      BY <2>4 DEF Untouched
    <3>2. /\ run'[r].backendID = run[r].backendID
          /\ \/ run'[r].state = run[r].state
             \/ ~Terminal(run[r].state) /\ run'[r].state = "running"
      <4>1. CASE EventStarted(h, m)
        BY <1>1, <2>4, <4>1 DEF EventStarted, Run
      <4>2. CASE EventProgress(h, m)
        BY <1>1, <2>4, <4>2 DEF EventProgress, Run
      <4>3. CASE EventFinished(h, m)
        BY <1>1, <2>4, <4>3 DEF EventFinished, Run
      <4>. QED BY <1>3, <4>1, <4>2, <4>3
    <3>3. run[r].state \in RunState
      BY <1>1 DEF Run
    <3>. QED BY <1>1, <2>1, <3>1, <3>2, <3>3
             DEF RunTracked, InFlight, Terminal, Verdict, RunState
  <2>. QED BY <2>3, <2>4
<1>4. ASSUME HandlerFinish(h) PROVE RunTracked(r)'
  <2>1. /\ UNCHANGED <<tick, alloc, wire>> /\ Finish(h, handler[h].cur, handler[h].verdict)
        /\ handler[h].cur \in Born /\ handler[h].verdict \in Verdict
    BY <1>4 DEF HandlerFinish, world, jobVars, Known, KnownRuns, TypeOK, Handler
  <2>2. \A g \in Handlers : handler'[g].cur = handler[g].cur
    BY <1>4 DEF HandlerFinish, Known, TypeOK, Handler
  <2>3. reap \subseteq reap'
    BY <2>1 DEF Finish
  <2>4. CASE handler[h].cur # r \/ Terminal(run[r].state)
    <3>1. run'[r] = run[r]
      BY <1>1, <2>1, <2>4 DEF Finish
    <3>. QED BY <1>1, <2>1, <2>2, <2>3, <3>1, TrackedStays
  <2>5. CASE handler[h].cur = r /\ ~Terminal(run[r].state)
    <3>1. /\ run'[r].state = handler[h].verdict /\ run'[r].backendID = run[r].backendID
          /\ reap' = reap \union Removable(r)
      BY <1>1, <2>1, <2>5 DEF Finish, Run
    <3>2. ~Untouched(r)
      BY <2>5 DEF Untouched
    <3>3. run[r].state \in RunState /\ run[r].backendID \in BOOLEAN
      BY <1>1 DEF Run
    <3>4. run[r].backendID \/ tick.cur = r
      BY <1>1, <2>5, <3>2, <3>3 DEF RunTracked, RunState, Terminal, InFlight
    <3>5. \/ r \in reap' \/ alloc[r] \notin LiveAlloc
          \/ tick.cur = r /\ tick.verdict = "none"
      BY <1>1, <3>1, <3>4 DEF Removable, RunTracked
    <3>6. run'[r].state \notin {"queued"} \union InFlight
      BY <2>1, <3>1 DEF Verdict, InFlight
    <3>7. tick.pc = "admit" => r \notin tick.todo
      BY <1>1, <3>2 DEF RunTracked
    <3>. QED BY <1>1, <2>1, <3>1, <3>5, <3>6, <3>7 DEF RunTracked
  <2>. QED BY <2>4, <2>5
<1>5. ASSUME HandlerRollup(h) PROVE RunTracked(r)'
  <2>1. UNCHANGED <<run, tick, reap, alloc, wire>>
    BY <1>5 DEF HandlerRollup, Rollup, world, jobVars
  <2>2. \A g \in Handlers : handler'[g].cur = r => handler[g].cur = r
    BY <1>2, <1>5, NoRunAssumption, <1>1 DEF HandlerRollup, IdleHandler, Known, TypeOK
  <2>. QED BY <1>1, <2>1, <2>2, TrackedStays
<1>. QED BY <1>3, <1>4, <1>5 DEF HandlerReceives, HandlerGoesOn

\* A client stops and marks; what was never launched it does not launch.
LEMMA ClientTracked ==
  ASSUME Undisturbed, Known, JobsTracked, NEW c \in Clients, ClientAsks(c) \/ ClientGoesOn(c),
         NEW r \in Born
  PROVE  RunTracked(r)'
<1>1. /\ RunTracked(r) /\ r \in RunIds /\ run[r] \in Run /\ run \in [RunIds -> Run \union {Unborn}]
      /\ alloc \in [RunIds -> Alloc]
  BY BornRun DEF JobsTracked, Born, Known, TypeOK
<1>2. UNCHANGED <<tick, handler, reap, wire>>
  BY DEF ClientAsks, ClientGoesOn, CancelBegin, CancelSuiteBegin, CancelStop, CancelMark,
     CancelSuiteMark, CancelEnd, ClientRollup, Rollup, world, jobVars
<1>3. CASE UNCHANGED <<run, alloc>>
  BY <1>1, <1>2, <1>3, TrackedStays
<1>4. ASSUME NEW q \in RunIds, CancelStop(c, q) PROVE RunTracked(r)'
  <2>1. run' = run /\ Stop(q)
    BY <1>4 DEF CancelStop, storeVars
  <2>. QED BY <1>1, <1>2, <2>1, StopOf, TrackedStays DEF Known
<1>5. ASSUME NEW q \in RunIds, CancelMark(c, q) \/ CancelSuiteMark(c, q) PROVE RunTracked(r)'
  <2>1. alloc' = alloc /\ run' \in {run, [run EXCEPT ![q].state = "canceled"]}
    BY <1>5 DEF CancelMark, CancelSuiteMark, world, jobVars
  <2>2. run'[r].backendID = run[r].backendID /\ run'[r].state \in {run[r].state, "canceled"}
    BY <1>1, <2>1 DEF Run
  <2>. QED BY <1>1, <1>2, <2>1, <2>2 DEF RunTracked, Untouched, InFlight
<1>6. CancelBegin(c) \/ CancelEnd(c) \/ ClientRollup(c) \/ (\E t \in Suites : CancelSuiteBegin(c, t))
        => UNCHANGED <<run, alloc>>
  BY DEF CancelBegin, CancelSuiteBegin, CancelEnd, ClientRollup, Rollup, storeVars, world, jobVars
<1>. QED BY <1>3, <1>4, <1>5, <1>6 DEF ClientAsks, ClientGoesOn

\* The tick: what its snapshots hold, what it launches, and what it ends.
LEMMA TickTracked ==
  ASSUME Undisturbed, Known, JobsTracked, TickStep, ~QueueRetry("tick"), NEW r \in Born
  PROVE  RunTracked(r)'
<1>1. /\ RunTracked(r) /\ TickOrderly /\ r \in RunIds /\ r # NoRun /\ tick \in Tick
      /\ run[r] \in Run /\ run \in [RunIds -> Run \union {Unborn}]
      /\ alloc \in [RunIds -> Alloc]
  BY BornRun, NoRunAssumption DEF JobsTracked, Born, Known, TypeOK
<1>2. run[r].state \in RunState /\ run[r].backendID \in BOOLEAN
  BY <1>1 DEF Run
<1>3. UNCHANGED <<handler, wire>>
  BY DEF TickStep, TickReconcile, TickFinish, TickAdmit, TickMarkDispatched, TickRollupAll,
     TickRollup, Rollup, TickTimeout, TickApplyRunning, TickApplyEnded, TickDispatch,
     TickDispatchFails, TickDispatchUnanswered, world, jobVars
<1>4. CASE TickReconcile
  <2>1. UNCHANGED <<run, reap, alloc>>
    BY <1>4 DEF TickReconcile, storeVars, world, jobVars
  <2>2. /\ tick'.pc = "reconcile" /\ tick'.cur = tick.cur /\ tick'.verdict = tick.verdict
        /\ tick'.todo = Reconciled /\ tick.cur = NoRun
    BY <1>1, <1>4 DEF TickReconcile, Tick, TickOrderly
  <2>3. r \in Reconciled => run[r].backendID
    BY <1>1, <2>2 DEF Reconciled, InState, RunTracked
  <2>. QED BY <1>1, <1>3, <2>1, <2>2, <2>3 DEF RunTracked, Untouched
<1>5. CASE TickAdmit
  <2>1. UNCHANGED <<run, reap, alloc>>
    BY <1>5 DEF TickAdmit, storeVars, world, jobVars
  <2>2. /\ tick'.pc = "admit" /\ tick'.cur = tick.cur /\ tick'.verdict = tick.verdict
        /\ tick'.todo = InState({"queued"}) /\ tick.cur = NoRun
    BY <1>1, <1>5 DEF TickAdmit, Tick
  <2>3. run[r].state = "queued" => Untouched(r)
    BY <1>1, <2>2 DEF RunTracked
  <2>. QED BY <1>1, <1>3, <2>1, <2>2, <2>3 DEF RunTracked, Untouched, InState
<1>6. CASE TickRollupAll \/ TickRollup
  <2>1. UNCHANGED <<run, reap, alloc>>
    BY <1>6 DEF TickRollupAll, TickRollup, Rollup, storeVars, world, jobVars
  <2>2. tick'.pc \in {"idle", "rollup"} /\ tick'.cur = NoRun /\ tick'.verdict = "none" /\ tick.cur = NoRun
    BY <1>1, <1>6 DEF TickRollupAll, TickRollup, IdleTick, TickOrderly
  <2>. QED BY <1>1, <1>3, <2>1, <2>2 DEF RunTracked, Untouched
<1>7. CASE TickFinish
  <2>1. /\ UNCHANGED alloc /\ Finish("tick", tick.cur, tick.verdict) /\ tick.verdict \in Verdict
        /\ tick'.cur = NoRun /\ tick'.pc = tick.pc /\ tick'.todo = tick.todo /\ tick'.verdict = "none"
    BY <1>1, <1>7 DEF TickFinish, world, jobVars, Tick
  <2>2. reap \subseteq reap'
    BY <2>1 DEF Finish
  <2>3. CASE tick.cur # r
    <3>1. run'[r] = run[r]
      BY <1>1, <2>1, <2>3 DEF Finish
    <3>. QED BY <1>1, <1>3, <2>1, <2>2, <2>3, <3>1 DEF RunTracked, Untouched
  <2>4. CASE tick.cur = r
    <3>1. Terminal(run'[r].state) /\ run'[r].backendID = run[r].backendID
      BY <1>1, <2>1, <2>4 DEF Finish, Run, Terminal
    <3>2. run'[r].state \notin {"queued"} \union InFlight
      BY <3>1 DEF Terminal, Verdict, InFlight
    <3>3. \/ alloc[r] \notin LiveAlloc \/ r \in reap'
          \/ run'[r].state = "canceled"
      <4>1. CASE Terminal(run[r].state)
        BY <1>1, <1>7, <2>1, <2>2, <2>4, <4>1 DEF TickFinish, RunTracked, Finish
      <4>2. CASE ~Terminal(run[r].state)
        BY <1>1, <1>7, <2>1, <2>4, <4>2 DEF TickFinish, RunTracked, Finish, Removable
      <4>. QED BY <4>1, <4>2
    <3>4. tick.pc = "admit" => r \notin tick.todo
      BY <1>1, <2>4 DEF RunTracked
    <3>. QED BY <1>1, <1>3, <2>1, <3>1, <3>2, <3>3, <3>4 DEF RunTracked
  <2>. QED BY <2>3, <2>4
<1>8. CASE TickMarkDispatched
  <2>1. /\ UNCHANGED <<reap, alloc>>
        /\ tick'.cur = NoRun /\ tick'.pc = tick.pc /\ tick'.todo = tick.todo /\ tick'.verdict = "none"
    BY <1>1, <1>8 DEF TickMarkDispatched, world, jobVars, Tick
  <2>2. CASE tick.cur # r
    <3>1. run'[r] = run[r]
      BY <1>1, <1>8, <2>2 DEF TickMarkDispatched
    <3>. QED BY <1>1, <1>3, <2>1, <2>2, <3>1 DEF RunTracked, Untouched
  <2>3. CASE tick.cur = r
    <3>1. run'[r].state = "dispatched" /\ run'[r].backendID
      BY <1>1, <1>8, <2>3 DEF TickMarkDispatched, Run
    <3>2. tick.pc = "admit" => r \notin tick.todo
      BY <1>1, <2>3 DEF RunTracked
    <3>. QED BY <1>3, <2>1, <3>1, <3>2 DEF RunTracked, Terminal, Verdict
  <2>. QED BY <2>2, <2>3
<1>9. ASSUME NEW q \in RunIds, TickApplyRunning(q) PROVE RunTracked(r)'
  <2>1. /\ UNCHANGED <<reap, alloc>>
        /\ tick'.cur = tick.cur /\ tick'.pc = tick.pc /\ tick'.todo \subseteq tick.todo
        /\ tick'.verdict = tick.verdict /\ tick.pc = "reconcile"
    BY <1>1, <1>9 DEF TickApplyRunning, TickTakes, world, jobVars, Tick
  <2>2. /\ run'[r].backendID = run[r].backendID
        /\ \/ run'[r].state = run[r].state
           \/ run[r].state = "dispatched" /\ run'[r].state = "running"
    BY <1>1, <1>9 DEF TickApplyRunning, Run
  <2>. QED BY <1>1, <1>3, <2>1, <2>2 DEF RunTracked, Untouched, Terminal, Verdict, InFlight
<1>10. ASSUME NEW q \in RunIds, TickTimeout(q) PROVE RunTracked(r)'
  <2>1. /\ UNCHANGED <<run, reap>> /\ tick.cur = NoRun /\ tick.pc = "reconcile" /\ q \in tick.todo
        /\ tick'.cur = q /\ tick'.pc = tick.pc /\ tick'.todo \subseteq tick.todo
        /\ tick'.verdict = "timeout"
    BY <1>1, <1>10 DEF TickTimeout, TickTakes, storeVars, Tick
  <2>2. q \in Born => run[q].backendID
    BY <2>1 DEF JobsTracked, RunTracked
  <2>3. q \in Born
    BY <2>1 DEF Known, KnownRuns
  <2>4. Stop(q)
    BY <1>10, <2>2, <2>3 DEF TickTimeout
  <2>5. CASE q # r
    <3>1. alloc'[r] = alloc[r] \/ (alloc[r] # "none" /\ alloc'[r] = "lost")
      BY <1>1, <2>3, <2>4, StopOf DEF Known
    <3>. QED BY <1>1, <1>3, <2>1, <2>5, <3>1 DEF RunTracked, Untouched, LiveAlloc
  <2>6. CASE q = r
    <3>1. alloc'[r] \notin LiveAlloc /\ (alloc[r] = "none" => alloc'[r] = "none")
      BY <1>1, <2>3, <2>4, <2>6, StopOf DEF Known
    <3>. QED BY <1>1, <1>3, <2>1, <2>6, <3>1 DEF RunTracked, Untouched
  <2>. QED BY <2>5, <2>6
<1>11. ASSUME NEW q \in RunIds, TickApplyEnded(q) PROVE RunTracked(r)'
  <2>1. /\ UNCHANGED <<run, reap, alloc>> /\ tick.cur = NoRun /\ tick.pc = "reconcile"
        /\ tick'.cur = q /\ tick'.pc = tick.pc /\ tick'.todo \subseteq tick.todo
    BY <1>1, <1>11 DEF TickApplyEnded, TickTakes, storeVars, world, jobVars, Tick
  <2>2. q = r => run[r].backendID /\ ~Terminal(run[r].state)
    BY <1>1, <1>11, <2>1 DEF TickApplyEnded, TickTakes, RunTracked
  <2>. QED BY <1>1, <1>3, <2>1, <2>2 DEF RunTracked, Untouched
<1>12. ASSUME NEW q \in RunIds, TickDispatch(q) PROVE RunTracked(r)'
  <2>1. /\ UNCHANGED <<run, reap>> /\ tick.cur = NoRun /\ tick.pc = "admit" /\ q \in tick.todo
        /\ tick'.cur = q /\ tick'.pc = tick.pc /\ tick'.todo = tick.todo \ {q}
        /\ tick'.verdict = tick.verdict /\ tick.verdict = "none"
    BY <1>1, <1>12 DEF TickDispatch, TickTakes, storeVars, Tick, TickOrderly
  <2>2. q # r => alloc'[r] \in {"none", alloc[r]}
    BY <1>1, <1>12, RegisterKnown DEF TickDispatch, Known
  <2>3. q = r => run[r].state \in {"queued", "canceled"}
    BY <1>1, <2>1 DEF RunTracked
  <2>. QED BY <1>1, <1>3, <2>1, <2>2, <2>3
           DEF RunTracked, Untouched, Terminal, Verdict, InFlight, LiveAlloc
<1>13. ASSUME NEW q \in RunIds, TickDispatchFails(q) PROVE RunTracked(r)'
  <2>1. /\ UNCHANGED <<run, reap, alloc>> /\ tick.cur = NoRun /\ tick.pc = "admit" /\ q \in tick.todo
        /\ tick'.cur = q /\ tick'.pc = tick.pc /\ tick'.todo = tick.todo \ {q}
    BY <1>1, <1>13 DEF TickDispatchFails, TickTakes, storeVars, jobVars, Tick
  <2>2. q = r => run[r].state \in {"queued", "canceled"} /\ Untouched(r)
    BY <1>1, <2>1 DEF RunTracked
  <2>. QED BY <1>1, <1>3, <2>1, <2>2 DEF RunTracked, Untouched, Terminal, Verdict, InFlight, LiveAlloc
<1>14. ASSUME NEW q \in RunIds, TickDispatchUnanswered(q) PROVE FALSE
  BY <1>14 DEF TickDispatchUnanswered, Fault, Undisturbed
<1>. QED BY <1>4, <1>5, <1>6, <1>7, <1>8, <1>9, <1>10, <1>11, <1>12, <1>13, <1>14 DEF TickStep

LEMMA JobsStep ==
  ASSUME Undisturbed, Known, JobsTracked, [Next]_vars PROVE JobsTracked'
<1>1. TickOrderly'
  BY OrderlyStep DEF JobsTracked
<1>2. ~Restart
  BY DEF Undisturbed, Restart, Fault
<1>3. ASSUME NEW r \in Born' PROVE RunTracked(r)'
  <2>1. CASE Submit
    BY <2>1, SubmitTracked
  <2>2. ASSUME NEW t \in Finishers, QueueRetry(t) PROVE RunTracked(r)'
    BY <2>2, RetryTracked
  <2>3. CASE ~Submit /\ \A t \in Finishers : ~QueueRetry(t)
    <3>1. r \in Born
      BY <2>3, RunsBorn
    <3>2. "tick" \in Finishers /\ \A h \in Handlers : h \in Finishers
      BY DEF Finishers
    <3>3. CASE UNCHANGED vars
      BY <3>1, <3>3, TrackedStays DEF vars, storeVars, world, jobVars, JobsTracked
    <3>4. CASE Next
      BY <1>2, <2>3, <3>1, <3>2, <3>4, TickTracked, HandlerTracked,
         ClientTracked, OutsideTracked DEF Next
    <3>. QED BY <3>3, <3>4
  <2>. QED BY <2>1, <2>2, <2>3
<1>. QED BY <1>1, <1>3 DEF JobsTracked

\* Unless a call to the backend fails or the master goes down, no job outlives
\* its run, whoever cancels, whatever tasks die and posts are lost or repeated:
\* it has ended, somebody is about to remove it, or its launch is under way and
\* puts the run back in flight; only a run that was canceled may leave its job
\* behind (finish, enforceTimeout, dispatch, Cancel).
THEOREM JobsAreRemoved == ASSUME Undisturbed PROVE Spec => []JobsRemoved
<1>1. Init => JobsTracked
  BY DEF Init, JobsTracked, TickOrderly, IdleTick, Born
<1>2. TypeOK /\ KnownRuns /\ JobsTracked /\ [Next]_vars => JobsTracked'
  BY JobsStep DEF Known
<1>3. JobsTracked => JobsRemoved
  BY DEF JobsTracked, RunTracked, JobsRemoved
<1>. QED BY <1>1, <1>2, <1>3, KnownAlways, PTL DEF Spec
=============================================================================
