# Verification of the distributed test platform

TLA+ models of the `dtp` master, its backends and its runners, checked with TLC
and, for the properties that matter most, proved with TLAPS. Paths such as
`internal/sched/admit.go:118` refer to the repository.

## 1. The system

A **regression** is a submission of **suites**. Every suite is run in
**attempts**, each a **run** with a token of its own. `dtp-master` keeps
regressions and runs in a **store**, admits queued runs against slots and quota
rules, launches each as a Nomad job (or a local process), and follows it to a
verdict. Inside the job `dtp-runner` fetches the build, runs the suite and posts
events back. `dtp-node` labels nodes and prunes caches. The **catalog** (pools,
nodes, groups, quota rules) can be edited while all of this goes on.

| Component | State | Operations | Interacts through | Hard behaviour | What makes it correct |
|---|---|---|---|---|---|
| Scheduler tick (`internal/sched`) | none between ticks; snapshots within one | `refreshInventory`, `reconcile`, `admit`, `rollupAll`, once a second | store lock, backend calls | snapshots outlived by handlers; deadlines; fast runners | every attempt ends, retries are neither lost nor surplus, verdicts stay |
| Event ingestion (`reconcile.go` `Ingest`, `api/regressions.go`) | none | `started`, `progress`, `finished`, then `Rollup` | runner posts, store lock | repeated, late, abandoned posts; two critical sections per `finished` | an event of an ended run changes no verdict |
| Submission and cancellation (`submit.go`) | none | `Submit`, `Cancel`, `CancelSuite` | store lock, `be.Stop` | cancels from a snapshot while the tick and the runner go on | what is canceled stays so and stops |
| Rollup (`rollup.go`) | the regression's state and totals | `Rollup` from the tick, handlers and `CancelSuite` | store lock, object store | stale decision to roll up; manifests out of order | a final state is earned, and is that of the newest attempts |
| Store (`internal/store`) | records by regression, run and token; revision; waiters | `Create`, `AddRun`, `UpdateRun`, `UpdateRegression`, `OpenWith`, `Wait` | one lock; a file per record or PostgreSQL | failed writes; crashes between writes; requeueing | memory and disk agree after the next mutation; no lost wake-up |
| Ledger and admission (`ledger.go`, `admit.go`, `config/quota.go`) | slots and use per node, pool, user, group, for one pass | `newLedger`, `block`, `pick`, `charge` | catalog snapshot, run snapshot | priorities, fair share, together rules, zero limits | no limit or slot count is exceeded; nothing eligible is skipped for less |
| Catalog (`config/catalog.go`, `sched/catalog.go`, `nodes.go`) | the live catalog, the stored one | `ApplyCatalog`, `ReloadCatalog`, edits, heartbeats | pointer swap, store | read-modify-write by several writers; readers with old snapshots; a save whose connection and transaction the store's writes share | an invalid catalog never goes live; what is live is what is stored |
| Nomad backend (`backend/nomadbackend.go`) | none; Nomad's jobs | `Dispatch`, `Poll`, `PollAll`, `Stop`, `Inventory` | Nomad's HTTP API | deterministic job ids, which two runs of one attempt share; purged jobs, unanswered calls | a poll says what Nomad holds |
| Local backend (`backend/localbackend.go`) | slots and processes | `Dispatch`, `Poll`, `Stop` | child processes | exits racing calls; stops; runs dispatched again | slots are released once, a poll tells the truth |
| Runner (`internal/runner`) | workspace, progress of one attempt | `Execute`: set up, start, progress, classify, upload, report | posts, build cache | master away; timeout; SIGTERM; background processes that hold the suite's output | one verdict, consistent with the exit status |
| Build cache (`runner/cache.go`) | directories and lock files shared by a node's runners | `Ensure`, `acquire`, `waitReady` | file system | stale locks, crashes while extracting, pruning | a build is used only when complete |
| Node agent (`internal/agent`, `cmd/dtp-node`) | what it remembers having applied and installed; the client's metadata, the runner's file | `Labels`, `ApplyLabels`, `SendHeartbeat`, `EnsureRunner`, `PruneCache`, once a tick or by command | Nomad client, master | reading and writing metadata in two requests; unanswered writes; downloads cut short | the labels come to be what node.yaml says, none lingers; the runner installed is a whole one |
| Build repository, S3 (`internal/buildrepo`, `internal/s3`) | objects | `Resolve`, publish | HTTP | — | the resolved build is the one named |
| PostgreSQL client (`internal/pg`) | one connection | query, transaction | TCP | calls of several users on one connection | a transaction is not interleaved |
| HTTP API, dashboard, CLI, Nomad client, JUnit and YAML parsers, deployment files | — | conversion and presentation | — | — | left to their tests |

`PROJECT.json` lists every hazard of this code at its line, with the properties
that would notice it going wrong, or why there is none.

## 2. Modules

| Module | What it is |
|---|---|
| `RunStates` | run and regression states and their classification (`internal/model/model.go`) |
| `RunLifecycle` | the life of a regression: store, tick, event handlers, cancel handlers, Nomad jobs, runners, crashes |
| `MCRunLifecycle` | constants and symmetry for TLC |
| `QuotaRules` | the catalog as admission reads it, and which rule governs whom (`config/quota.go`, `poolsOf`) |
| `Admission` | the ledger and the tick's admission pass, against everything that happens meanwhile |
| `AdmissionProofs` | theorems about `Admission` with their proofs |
| `MCAdmission` | a lab of two nodes, three pools and five rules for TLC |
| `RunLifecycleProofs` | theorems about `RunLifecycle` with their proofs |
| `PromiseProofs` | the proof that `RunLifecycle` implements `SuiteAttempts` |
| `SuiteAttempts` | abstract: what a regression promises its submitter; `RunLifecycle` implements it |
| `Store` | memory, files or PostgreSQL, and what the next start finds; the long poll |
| `Catalog` | pools, nodes, groups, users and rules: edits, heartbeats, validation, saving, reloading |
| `BuildCache` | an entry of a node's build cache: runners, lock file, staging, pruning |
| `RunnerAttempt` | the runner process: suite, deadline, signals, progress goroutine, verdict, reports |
| `JobPhases` | abstract: what the control loop takes for granted of a backend's polls; `LocalBackend` implements it |
| `LocalBackend` | child processes and slots of the local backend, composed with `RunnerAttempt` |
| `NodeAgent` | dtp-node's tick and `dtp-node apply`, the Nomad client's labels, the runner's installation |
| `StoreProofs`, `CatalogProofs`, `BuildCacheProofs`, `LocalBackendProofs`, `NodeAgentProofs` | theorems about these with their proofs |
| `MCStore`, `MCCatalog`, `MCBuildCache`, `MCLocalBackend`, `MCNodeAgent` | their constants for TLC |

### RunLifecycle and the code

A step is **one critical section of the store's lock, or one call to the
backend**. Everything a Go function does between two such points is local to its
goroutine, so the interleavings of the model are those of the program.

| Variable | In the code |
|---|---|
| `run` | `Store.byRun`: suite, attempt, state, whether `BackendID` is set, whether `Summary.Tests > 0` |
| `reg` | `Regression.State` |
| `tick` | the scheduler goroutine: phase, runs left of the phase's snapshot, the run between two steps |
| `handler[h]` | a goroutine in `Server.runEvent` |
| `client[c]` | a goroutine in `cancelRegression` or `cancelSuite`, with its snapshot |
| `retry[t]` | the `finished` copy a goroutine holds inside `Scheduler.finish` between the verdict and `AddRun` |
| `reap` | goroutines `finish` spawned to call `be.Stop` |
| `alloc[r]` | the newest allocation that carries the spec (the token) of run r, and how far its runner is; runs of one attempt share a job (`SameJob`), so at most the newest of theirs counts |
| `said[r]` | history: what the run's runners classified |
| `wire` | posts that may still reach the master |
| `crashed`, `faults` | history: a restart happened; the number of faults so far |

| Actions | Code |
|---|---|
| `Submit` | `Scheduler.Submit`, `Store.Create` |
| `TickReconcile`, `TickTimeout`, `TickApplyRunning`, `TickApplyEnded`, `TickFinish`, `QueueRetry("tick")` | `reconcile`, `enforceTimeout`, `applyStatus`, `finish` |
| `TickAdmit`, `TickDispatch`, `TickDispatchUnanswered`, `TickDispatchFails`, `TickMarkDispatched` | `admit`, `dispatch` |
| `TickRollupAll`, `TickRollup` | `rollupAll`, `Rollup` |
| `EventStarted`, `EventProgress`, `EventFinished`, `HandlerFinish`, `QueueRetry(h)`, `HandlerRollup` | `runEvent`, `Ingest`, `finish`, `Rollup` |
| `CancelBegin`, `CancelStop`, `CancelMark`, `CancelEnd` | `Cancel` |
| `CancelSuiteBegin`, `CancelStop`, `CancelSuiteMark`, `ClientRollup` | `CancelSuite` |
| `Reap` | the goroutine in `finish` |
| `RunnerStarts`, `RunnerProgresses`, `RunnerConcludes`, `RunnerExits`, `LoseEvent` | `runner.Execute`, `reportProgress`, `post` |
| `AllocDies` | Nomad: a task is killed or its node is lost |
| `Restart` | a crash at any point, then `store.OpenWith` |

Abstractions, all of which only add behaviour or leave out what no property
tells apart:

* Admission may pick any queued run of its snapshot, or none. Slots, quotas,
  priorities and the node a run gets are `Admission`'s.
* Wall-clock deadlines may pass at any time; a run still in flight is past its
  deadline eventually.
* `reconcile` applies deadlines and polls in one loop over its snapshot instead
  of two, and reads a status when it is applied. While the tick reconciles, an
  allocation only moves forward (only `admit` registers jobs), so a status read
  earlier by `PollAll` has the effect it would have had at its reading.
* When one attempt number was minted twice, either run may count as the newest.
  `LatestPerSuite` takes the first of the record's list.
* Of a run's results only "some tests" is kept. `passed` and `failed` imply some
  tests (`classify`); the other verdicts leave it open.
* A runner posts one event at a time and waits for the answer, unless a "post"
  fault makes it give up; a post it gave up may still arrive, once or twice.
* The id of a job is made of the regression, the suite and the attempt
  (`nomadbackend.go:139`). When an attempt was minted twice, its two runs share the
  job: a stop or removal for one takes the other's allocation, which its next poll
  finds lost; launching the second registers the job anew, so what was not placed
  yet never will be; and a poll of either goes by the newest allocation, so one may
  be judged by the exit of the other's runner.
* Nomad is modelled from its use: stopping a job purges it (`StopJob(…, true)`),
  so a poll finds it gone; registering an id again keeps a live allocation or
  replaces it (`ARCHITECTURE.md` 3). A stopped runner posts nothing more: its
  context is canceled and `post` uses that context.
* The manifest uploaded after a rollup, messages, timestamps and placement
  fields are left out.

### Admission and the code

`Admission` looks at the same scheduler from the other side: a run is queued, in
flight or over, and what matters is who gets the next slot, and where.

| Variable | In the code |
|---|---|
| `run` | `Store.byRun`: state, and `NodeName` |
| `alloc[r]` | the node Nomad holds, or will hold, the run's task on |
| `live` | `Config.live`, the live catalog |
| `tick` | the locals of `admit`: the ledger (`cat`, `ready`, `at`), the queue of the snapshot, and, between `be.Dispatch` and the store update, the run being launched |
| `edits`, `faults` | bounds: catalog edits, faults so far |

| Actions | Code |
|---|---|
| `TickAdmit` | `AllRuns` and `newLedger` |
| `TickLaunch`, `TickLaunchFails`, `TickLaunchUnanswered` | one turn of the loop of `admit`: the pick, `buildRunSpec`, `be.Dispatch` |
| `TickMark` | the store update of `dispatch`, then `charge` |
| `TickDone` | nothing queued is eligible |
| `Submit`, `RunStarts`, `RunEnds` | `Store.Create`; a started event or a poll; any of the ways a run ends |
| `EditCatalog` | `ApplyCatalog`, `SetCatalog` |
| `Restart` | a crash, then `store.OpenWith` |

The choice of run is written twice: `Best` says who should come first, `Scan` and
`ScanQueue` are the loop of the code with its early break, over `Sorted`, every
order that the sort may leave the queue in; `ScanFindsBest` relates them. Runs of
one priority and age stay as the store lists them, which is a map's order: the pass
launches any run of `Best`, so the order among equals is open.

* A node's slots and the nodes whose labels satisfy a suite are constants; the
  inventory, the set of nodes ready, may be any of a few for each pass.
* `block` without a node looks at a part of the scopes it looks at with one, so
  `Eligible` needs only the latter.
* The message a waiting run gets (`note`) is left out.
* A run that ends takes its job with it, and a retry is one more submission: what
  happens around the end of a run is `RunLifecycle`'s.

### RunLifecycle and SuiteAttempts

`SuiteAttempts` knows neither goroutines nor jobs: per suite the number of its
newest attempt, whether that is open or over, which ended attempts are owed a
successor, and what its runners reported; and the state shown. `RunLifecycle`
implements it (`PromiseKept`) under the mapping `Promise`: `attempts` and `newest`
are `NewestAttempt` and `NewestStates`, from the runs `LatestPerSuite` may return,
`owed` is `Owed`, from the goroutines between `finish` and `AddRun`, `reported` is
`Reported`, from `said`, and `shown` is `reg`. Most steps
(events, stops, posts, polls that change nothing) stutter. The abstraction says
what the races of the code cost and no more: a launch mark may reopen an attempt
(`Reopen`), an attempt may be followed twice by one number (`Retry`), a crash
forgets what is owed (`Crash`), and a state is shown only if the suites earn it in
that very step, although rollups work for stale reasons.

### Store and the code

A step is one mutation together with its write, which the store makes under its
lock; creating a regression in PostgreSQL is one statement a row, and the
catalog's transaction, which does not take the lock, runs between statements.

| Variable | In the code |
|---|---|
| `mem`, `revision`, `client` | `byReg`, `byRun`; `revision`; dashboards in `Wait` or reading |
| `disk` | the record files, or the committed rows |
| `tx`, `session`, `saving` | the transaction `SaveCatalog` opens on the shared connection, what the connection sees in it, and whether that goroutine is still at it |
| `create` | a `Create` between two rows |
| `answer`, `written`, `swallowed`, `restarted` | history |

| Actions | Code |
|---|---|
| `Update`, `AddRun` | `UpdateRun`, `UpdateRegression`, `AddRun`, with `persistErr` and `touch` |
| `CreateInFile`; `CreateInDatabase`, `CreateRow`, `CreateReturns` | `Create` with `SaveRecord` of either backend |
| `CatalogBegins`, `CatalogCommits`, `CatalogRollsBack` | `pgBackend.SaveCatalog` |
| `Poll`, `Wakes`, `Reads` | `Wait`; `overview`, which reads the regressions after the revision |
| `Restart` | a crash, then `OpenWith` and the backends' `Load` |

A write fails cleanly, fails although it happened, or breaks the connection (`exec`
then repeats it on a new one, and the server rolls back the old one's
transaction). Of an object's fields only its stage is kept; a run's row needs its
regression's (`HasRegression`, the foreign key).

### Catalog and the code

| Variable | In the code |
|---|---|
| `raw` | `Config.RawCatalog`, the catalog in force as authored |
| `stored`, `tx` | `catalog.json` or the committed rows; the rows inside `SaveCatalog`'s transaction, or that the server aborted it |
| `catMu` | the scheduler's `catMu` |
| `client[c]` | a handler or heartbeat with the copy it edited |
| `reload` | a goroutine in `ReloadCatalog`, section by section of `LoadCatalog` |
| `astray` | history: the store has a reason to differ from what is in force |

| Actions | Code |
|---|---|
| `PutNode` … `DeleteUser`, `PutRule`, `DeleteRule`, `PutConfig` | the handlers of `catalog_api.go` with the edits of `config/catalog.go`, `quota.go` |
| `Heartbeat` | `Scheduler.Heartbeat` of a node the catalog does not know |
| `Refuse`, `NoChange`, `BeginSave`, `SaveFile`, `SaveBatch`, `Commit`, `SaveFails`, `MakeLive` | `ApplyCatalog`, `SaveCatalog`, `SetCatalog` |
| `StoreRefused`, `StoreReconnects` | `exec` of a run's or regression's write on the same connection |
| `LoadBegins`, `LoadSection`, `LoadFails`, `LoadSet` | `ReloadCatalog`, `LoadCatalog` |
| `Restart` | a crash, then the start of `dtp-master` |
| `EditedBySql` | a pool dropped, or a node assigned, with psql |

Validation (`Valid`) is the whole of `Normalize` and `validateQuotas` for catalogs
without duplicate names, which sets have anyway: spans, inheritance from the first
member, agreement of members, assignments, memberships, shapes and references of
rules. Of a pool's settings only the runtime is kept: the others are inherited in
the same way, and none is related to anything.

A save is a `BEGIN`, fourteen batches (`Batches`: a loop of INSERTs, or a DELETE with
the cascades of the schema), and a `COMMIT`, on the connection that every write of
the store uses too. A batch is one step: between its statements nobody sees more
than between batches, except where it is cut short. A statement that fails ends the
save with those before it kept back by the transaction or, without one, committed
(`LeftBy`). Two writes of the store change what the save is in:

* One that the server refuses aborts the transaction (`StoreRefused`). The next
  statement of the save fails, and so does a reload; but when none is left, `COMMIT`
  is answered with `ROLLBACK` and no error (`pg.go:432`), and `SaveCatalog` reports a
  save that did not happen.
* One that finds the connection broken replaces it (`StoreReconnects`,
  `postgres.go:85`). The server rolls back what the save did; its closure takes the
  new connection for its remaining statements, which are committed one by one, and
  `COMMIT` without a transaction is no error either. Whether those statements go
  through depends on what the tables held before: a row whose foreign key does not
  resolve, or a membership that is there already, is refused (`Fits`).

So "SaveCatalog replaces every catalog row in one transaction" (`catalog_pg.go:128`)
is not all there is to it; `astray` remembers that one of the two happened to a save
that reported success.

### BuildCache and the code

A step is one system call on a file that others use, or a group of calls nobody
else can tell apart. One entry: entries share no files.

| Variable | In the code |
|---|---|
| `pc[r]` | where runner r is in `Ensure`, or using the entry |
| `lock` | `<key>.lock`, fresh or past its 30 minutes |
| `staging`, `dir` | `<key>.staging` and `<key>`: download, payload, `.ready` and its age |
| `pruner` | the agent inside `PruneCache` |
| `doubled`, `raced` | history: the lock was held twice; a hit fell into a pruning |

| Actions | Code |
|---|---|
| `Hit`, `Miss`, `Acquire`, `Steal`, `WaitEnds`, `WaitTimesOut`, `Recheck` | `Ensure` to the lock, `acquire`, `waitReady` |
| `ClearStaging` … `Publish`, `Release` | `Ensure` from the lock to the rename and the deferred removal |
| `PruneJudges`, `PruneRemovesSome`, `PruneRemovesAll` | `PruneCache` |
| `Crash`, `LockAges`, `EntryAges`, `Done` | a kill; the clock; the end of an attempt |

`SlowHolders = FALSE`: a live runner does not hold the lock for 30 minutes (an S3
client times out after 10, HTTP after 30 together with the whole transfer), so a
lock grows stale only after a crash. It is stolen by several runners all the same.

### RunnerAttempt, LocalBackend and the code

| Variable | In the code |
|---|---|
| `runner[i]` | process i: where `Execute` is, its context and `runCtx`, the suite's process, whether a descendant holds its output, what its results say, the progress goroutine, the verdict, and (history) the last event delivered |
| `child[i]` | the run and node it was started for, and its waiting goroutine |
| `procs`, `nodeUse` | the maps of `LocalBackend` |
| `dispatch`, `stopping` | the scheduler inside `Dispatch`; a handler inside `Stop` after its look-up |

| Actions | Code |
|---|---|
| `Setup`, `PrepareBuild`, `SuiteReturns`, `Judge`, `Report`, `Exit` | `Execute` |
| `ProgressTicks`, `ProgressPosts`, `ProgressStops` | the goroutine of `reportProgress` |
| `SuiteWrites`, `SuiteExits`, `SuiteForks`, `HolderEnds`, `DeadlinePasses`, `KillSuite` | the suite and its background processes, `runCtx` and `cmd.Cancel` in `runSuite` |
| `Term`, `StopLooksUp`, `StopKills` | a SIGTERM; `Stop` |
| `Claim`, `StartFails`, `Start`, `Register`, `WaitReleases`, `WaitRecords` | `claim`, `Dispatch` and its goroutine |

`RunnerAttempt` has actions and no `Next`: whoever starts the processes composes
them. `RunLifecycle` keeps its own, coarser runner, which is what a master sees of
one: there it may say anything in its turn, here it is shown what it can say.

The suite's output goes to a `MultiWriter` (`runner.go:325`), that is through a
pipe, and the command has no `WaitDelay`: `cmd.Run` returns when the suite's process
has ended **and** every descendant has closed the pipe. `cmd.Cancel` is called only
while the suite's process lives; a background process that outlives it
(`run-suite.sh:112` starts one, and kills it only if its script gets that far) is out
of the deadline's reach, and keeps the runner in `runSuite` for as long as it lives.
"so a wedged Eclipse and its children die together" (`runner.go:321`) holds until the
suite's process has ended, and for children that stay in its group. Then only the
master's deadline, through `Stop`, ends the runner.

`JobPhases` knows a run's newest task and what polls say of it. `LocalBackend`
implements it (`PollsFollowTasks`) under the mapping `Jobs`: `task` is `Task`, how the
process registered in `procs` is doing, and `phase` is `Poll`. `Register` is the launch;
the runner ends the task; `WaitRecords` makes polls tell. `reconcile` relies on this
when it ends a run on the word of a poll: a run that ended wrongly would be retried
while its suite still runs. Pending and lost are phases of Nomad's only.

### NodeAgent and the code

| Variable | In the code |
|---|---|
| `yaml`, `facts` | node.yaml as it is now; what `Detect` would find |
| `meta` | the Nomad client's dynamic metadata: labels, and the agent's bookkeeping of its keys in both forms |
| `cfg`, `lastLabels`, `agent` | the locals of `run`; where its tick is |
| `apply` | `ApplyLabels` between its GET and its POST, in the daemon and in the command |
| `binary`, `sum` | the master's runner; its cached checksum with the size and time it is for |
| `runner`, `tmp` | the installed runner; the download |
| `owned`, `writer`, `overlapped` | history |

| Actions | Code |
|---|---|
| `TickBegins`, `GetMetadata`, `PostMetadata` | `run`'s tick, `Labels`, `ApplyLabels` |
| `CommandBegins` | `dtp-node apply` |
| `SendHeartbeat`, `MasterHashes`, `Compare`, `Fetch`, `Install` | `SendHeartbeat`, the master's `runner`, `EnsureRunner` |
| `EditYaml`, `MachineChanges`, `PublishRunner`, `Crash`, `StartsAgain` | the operator, the machine, the supervisor |

Which Nomad node fingerprint detection finds is an input; pruning is in
`BuildCache`.

## 3. Properties and runs

### Safety

* `VerdictIsReported` — a run recorded as failed was classified so by its own
  runner, and one recorded as passed by its own or by that of a run that shares its
  job, whatever polls, restarts and late events did. The second case is one of the
  code: a poll takes the exit of a job's newest allocation for that of every run
  with the job's id (`nomadbackend.go:386`), and interim results of the run's own
  suffice for a pass then (`reconcile.go:82`).
* `PassIsEarned` — a regression shown as passed has, for every suite, an attempt
  that a runner of it classified as passed.
* `AttemptsContiguous` — attempts stay within the allowance and leave no gap,
  also when an attempt ends twice.
* `NoRetryLost` — while the master stays up, an attempt that earned a retry has
  its successor, or a goroutine about to queue it.
* `VerdictStable` — how a run ended changes only by the two unguarded updates of
  the code: a cancellation that saw the run open, and a launch mark under way.
* `JobsRemoved` — while calls are answered and the master stays up, no job
  outlives its run, whoever cancels and whatever tasks die, but for one whose
  removal is under way or whose launch the tick is about to mark, whether the job is
  one run's or two runs'. A canceled run is the exception: `Cancel` stops what had a
  job when it looked.
* `PromiseKept` — all of it implements `SuiteAttempts`.
* `SlotsRespected` — before any fault, no node has more runs in flight than
  slots, although runs end, start and are canceled behind the ledger, nodes drop
  out and change pools.
* `RulesRespected` — before any fault, a launch takes no rule of the pass's
  catalog past its limit for any user the rule governs. Which rule governs is said
  anew there (`Governs`), by rank, and usage is counted from the store's runs
  instead of the ledger.
* `ScanFindsBest` — the loop that breaks off early finds a run that no other
  eligible run precedes, and finds one whenever there is one, in whatever order the
  sort left runs of one priority and age.

* `AcceptedIsWritten` — an accepted submission is on disk with all its runs,
  whatever fails later, unless it went into the catalog's transaction.
* `WrittenIsDurable` — an object whose last write went well is on disk as it is in
  memory, however many of its writes failed before.
* `VerdictSurvives` — a verdict that was written is never run again by a restart.
* `NoStaleSleep` — a dashboard sleeps only on what is still so: no change falls
  between the revision it read, the regressions it read, and its next poll.
* `NothingDangles` — every name in the catalog in force is of something that is in
  it, whatever edits, reloads and restarts met.
* `InForceIsStored` — what is in force is what is stored, unless there is a named
  reason (`astray`): a write of the store aborted the save's transaction or replaced
  its connection, a commit was not answered, the tables were edited by hand, a reload
  met a save, or there is no pool. So the inserts, deletes and cascades of a save add
  up, on top of whatever an earlier save left behind, and a save that fails cleanly
  changes nothing.
* `RemovalsAccepted` — whatever is there can be removed: what goes with it leaves a
  valid catalog. The one exception is named.
* `HeartbeatMovesNobody` — a heartbeat whose copy is not behind moves no node the
  catalog knows.
* `ReadyIsWhole`, `UsedIsWhole` — a marked entry has its whole payload, and keeps
  it for as long as an attempt uses it. Excepted are a lock held twice and a hit
  that falls into a pruning, which the code leaves open.
* `SlotsAccounted`, `SuitesFitSlots` — what the backend counts is what is there,
  and no more suites, with what they left in the background, run on a node than it
  has slots, until a stop.
* `PassIsGenuine` — a verdict passed stands for a suite that ended by itself with
  status 0 and results without a failure, whatever deadlines, signals and stops met.
  With the next, so does a poll that says complete (`PollSpeaksTrue`, in section 4).
* `PollsFollowTasks` — the local backend implements `JobPhases`: a poll says running
  until the newest process of the run has ended, and then for good how that one
  ended, also when an earlier process of the run ends or is waited for later.
* `FinishedIsLast` — no interim result is delivered after the verdict.
* `NothingLingers` — what an agent wrote is in the client's metadata only as long
  as the bookkeeping lists it, whichever agent wrote it and whatever failed since.

### Liveness

| Property | Says | Fairness, and why the code justifies it |
|---|---|---|
| `EveryRunEnds`, `RegressionSettles` | every attempt ends for good, the regression gets a final state | weak fairness of the tick (the loop of `Scheduler.Run`) and of a handler that has an event (a goroutine that only takes locks); strong fairness of a run's deadline (the clock passes it and `enforceTimeout` reads it every tick) and of its admission (slots are freed when runs end). Nothing of runners, clients, Nomad or the network: the runner may be silent for ever |
| `EnsureReturns` | nobody waits for ever on a holder that failed or died | weak fairness of a runner inside `Ensure`: transfers have a timeout (`s3.go:44`, `cache.go:168-176`), the wait has a deadline |
| `SlotsComeBack` | every child is waited for and its slot comes back, also when the suite hangs, unless a descendant of the suite, which itself has ended, holds its output for ever (`PipeHeld`) | weak fairness of a runner's own steps, its progress goroutine (posts have a timeout), the clock and the waiting goroutine. Nothing of the suite or what it started |
| `LabelsSettle` | once node.yaml and the machine stay as they are, so do the labels, and they are the right ones | weak fairness of the daemon: its ticker, timeouts on every call, a supervisor that restarts it |
| `RunnerSettles` | once the master's runner stays, the node has it | the same |

### Runs

| Run | Bounds | Shows |
|---|---|---|
| `Retries` | one suite, 2 attempts, 3 run ids, runners that say passed or failed (polls add errored), interim results | types, attempts, retries, verdicts, job removal and the refinement with nothing but the suite failing; 578,000 states |
| `Cancel` | one suite, one attempt, one cancel request, two faults of any kind | cancellation in every state, with crashes, and the refinement; 685,000 states |
| `Liveness` | 2 attempts, 2 run ids, one crash | every attempt ends, the regression settles; 60,000 states |
| `Admission` | 3 runs of 2 users (one with a run in the virtual pool and a later one of higher priority in a member), 2 nodes of 2 and 1 slots, 2 catalogs and one edit, 2 inventories, one fault | a full pass and several in a row, with every rule kind, at its limit; 221,000 states |
| `Store` | one regression of two suites and a retry, 3 mutations, 2 faults, one dashboard, both backends | what is durable when writes fail and meet a transaction |
| `Catalog` | two concrete pools and a virtual one, a node, a group, a user, three rules (one malformed), both backends; 3 events, of which at most 2 edits by 2 clients, one reload and 2 faults | edits, saves, reloads, restarts and the store's own writes against each other; 806,000 states |
| `BuildCache` | 3 runners, one crash | lock, fetch and pruning |
| `LocalBackend` | one run dispatched up to twice, one slot, 2 processes, stops and SIGTERMs | slots, verdicts and polls, and the refinement of `JobPhases`; 385,000 states |
| `NodeAgent` | a detected and a configured label, three forms of node.yaml, 2 edits, a new runner, 2 faults | labels and the runner |

Three run ids for two attempts: an attempt that ends twice is retried twice, and the
two retries share a job. Two
attempts are enough to tell the first, a middle and the last attempt apart in
the guard `attempt < MaxAttempts`, and two faults are enough for each kind and
each pair; the proofs cover all other values. Symmetry of run ids and handlers is
used in `Retries`, of clients in `Catalog`: no action or property tells them
apart.

In `Admission`, each user is capped in the virtual pool, the group together in a
member, the members of the group at two slots each but one of them at one, and
one node is closed to one user; the other catalog has no rules and one pool
less. Three runs are one more than the smaller and as many as all slots, so a
pass meets a full node, a run at every kind of limit, and a run it must skip. One run
has a priority of its own and was submitted after one of lower priority, so the scan
breaks off at a lower priority, or goes past the higher one when that is not eligible.
`SlotsRespected` and `RulesRespected` say nothing after a fault: a restart queues
runs whose jobs live on.

In `Store` a regression, a run and a second run are one row that others refer to
and two that do not refer to each other; three mutations are a creation, a write
that fails and one that makes up for it. Two faults are a failed write and a
crash. In `Catalog` two requests are an edit and one from an older copy; the catalog
it starts from has one reference of every kind, so every cascade has something to
take along. Three events (`MaxEvents`) are two edits and a fault between them, an
edit under two faults, such as a reconnect that leaves half a save behind and a
failing statement after it, or any two of these and a reload. Three runners in
`BuildCache` are the two who steal a stale lock and one that waits; with one crash,
because after it every state of the files recurs. Two processes for one slot in
`LocalBackend` are a run dispatched again while its first process lives. `Store`,
`Catalog`, `LocalBackend` and `NodeAgent` really stop when their bounds are used up,
so deadlock is not checked there.

### Where the documentation and the code part

Each of these runs checks one sentence of the documentation and ends in a
counterexample.

| Run | Sentence | Counterexample |
|---|---|---|
| `DocAttemptUnique` | `UNIQUE (regression_id, suite, attempt)`, `schema.sql:181` | a fast runner ends the run before the launch mark (`admit.go:118`) revives it; it ends again, and both ends queue attempt 2 |
| `DocAcceptedIsKept` | "a caller never gets an ID the store might forget", `store.go:207` | a submission is written while the catalog's transaction is open on the connection; the transaction is rolled back, or the master crashes before its end |
| `DocStartKeepsCatalog` | "nil when nothing has been stored yet", `store.go:37` | the last pool is deleted; the master restarts and takes the stored nodes, users and rules for nothing |

Further configurations, to be run by hand with the module named, end in a
counterexample to a sentence as well:

| Configuration | Module | Sentence | Counterexample |
|---|---|---|---|
| `DocCanceledRegression` | `MCRunLifecycle` | "canceling the regression sets the regression to `canceled`", `ARCHITECTURE.md:168` | `rollupAll` looked before the cancellation's last step and rolls up after it |
| `DocCancelStopsAll` | `MCRunLifecycle` | "Cancel stops every non-terminal run in a regression.", `submit.go:141` | the launch mark follows the cancel mark |
| `DocRetryAfterRestart` | `MCRunLifecycle` | "If the suite still has attempts left, a new run is queued", `ARCHITECTURE.md:141` | a crash between the verdict and `AddRun` |
| `DocOverCommit` | `MCAdmission` | "The master never hands Nomad more work than the nodes can run", `ARCHITECTURE.md:252` | a restart queues a run whose job lives on; the ledger charges it no slot, and a run ahead of it is launched on the node |
| `DocLockExclusive` | `MCBuildCache` | "acquire takes an exclusive lock file", `cache.go:215` | two runners find the lock stale; the second removes the file the first has just made (`cache.go:226-228`) |
| `DocStopKillsSuite` | `MCLocalBackend` | "Kill the whole process group: the runner may have an Eclipse child.", `localbackend.go:195` | the suite has a process group of its own (`runner.go:322`) and lives on |
| `DocTimeoutKills` | `MCLocalBackend` | "suite exceeded its timeout and was killed", `runner.go:177` | the suite exits by itself, then the deadline passes before the context is read (`runner.go:335`) |
| `DocLabelsTakeEffect` | `MCNodeAgent` | "an edited slot count or label takes effect without a restart", `cmd/dtp-node/main.go:156` | a POST is applied and not answered; node.yaml goes back to what the daemon remembers having applied, so nothing is posted again |

`TwoSuites`, `LostPosts`, `BackendFaults` and `Cancellations` (`MCRunLifecycle`) are
passing configurations of the same kind: two suites rolled up from several
goroutines' snapshots, two handlers for one run, faults of the backend with retries,
and `JobsRemoved` against two cancellations at once, of the regression, of a suite or
of both, with a task that dies, a post lost or repeated, or a spec that cannot be built.

Some more was met while modelling, and is in the models without a property of its
own. A heartbeat that suggests a virtual pool is refused by validation each time,
so its node is never registered (`nodes.go:50-56`, `catalog.go:100-108`). A
deleted node does not come back unassigned (`catalog_api.go:50`) when its node.yaml
suggests a pool. Two edits made from the same copy both succeed, and the later
undoes the earlier. A virtual pool with a runtime of its own that loses its last
member becomes a concrete one. `SaveCatalog` and `LoadCatalog` do not reconnect as
the store's other statements do; when one of those does so during a save, or is
refused by the server, a save that is not stored is reported as done and goes live,
and the next start brings back the older catalog or a mixture. Two runs of one attempt
share a Nomad job: the first of them to end takes the allocation of the other along,
whose poll then makes an error of it, and a poll may pass one for the other's exit.
A suite that leaves a process holding its output keeps its runner, and its slot, past
every deadline of the runner. A refused submission whose first rows were
written comes back with the next start (`postgres.go:132-142`).

## 4. Proofs

`RunLifecycleProofs` proves, for every set of suites, run ids, handlers and
clients, every allowance and every bound on faults:

| Theorem | Statement |
|---|---|
| `TypeCorrect` | `Spec => []TypeOK` |
| `KnownAlways` | `Spec => [](TypeOK /\ KnownRuns)` |
| `VerdictsStable` | `Spec => VerdictStable` |
| `AttemptsAreContiguous` | `Spec => []AttemptsContiguous` |
| `RetriesAreKept` | `Spec => []NoRetryLost` |
| `VerdictsAreReported` | `Spec => []VerdictIsReported` |
| `PassesAreEarned` | `Spec => []PassIsEarned` |
| `JobsAreRemoved` | `Undisturbed` implies `Spec => []JobsRemoved` |

The assumptions are those of `RunLifecycle`: `NoRun` is not a run id, a submission
has a suite (`model.go:127` refuses it otherwise), allowances are positive, runners
report no `canceled`, and "tick" is not a handler.

The argument. Type correctness alone is not inductive: a goroutine that acts on
a run must act on one the store holds. `KnownRuns` says so of every goroutine,
snapshot, job and event, and `TypeOK /\ KnownRuns` is inductive; one step per
action. `RunChange`-style lemmas then say once what each action can do to
`run`: mint a run, move it along, or leave it alone; the other theorems are
argued from those facts instead of from the actions. `VerdictIsReported` needs
a strengthening, `Spoken`: an event or a handler carries only what was said, and
an allocation that exits with status 0 was reported passed; what a poll says of a run
it says of an allocation of a run that shares its job, which is why the statement
goes over `SameJob`. `AttemptsContiguous`
needs that a goroutine owing a retry holds a run with attempts left; runs are
never removed and never change their suite or attempt, so a gap cannot open.
`PassIsEarned` follows from `VerdictIsReported` and what a rollup folds.

`JobsRemoved` does not hold once a call to the backend fails or the master crashes:
a stop that fails is only logged (`reconcile.go:126`), a launch without an answer
leaves no record of its job. So `JobsAreRemoved` has a hypothesis, `Undisturbed`:
no faults of the kinds "stop", "register" and "crash". Cancellations are covered,
any number of them; tasks may die, events be lost or repeated, and run specs fail to
build. The strengthening, `JobsTracked`, follows a job from launch to reaping: a
queued run has none, but for the launch under way; the job of a run in flight is on
record, but for the launch under way; a run the tick is about to end has no live
job; and of what the loops of the tick still have before them, each run is as the
snapshot said or was canceled since. That last part is what carries the invariant
through a snapshot gone stale: a run of the queue's snapshot that somebody cancels
is launched all the same, but its mark puts it back in flight, where reconciliation
finds it. A job stays for good where a cancellation saw the run queued, and so had
nothing to stop, and marks it canceled after its launch. Runs that share a job only
take allocations from each other: no stop, launch or placement gives a live one to a
run that had none, except the launched run itself.

`PromiseProofs` proves, under the same assumptions:

| Theorem | Statement |
|---|---|
| `PromiseImplemented` | `Spec => PromiseKept`, that is `Spec => Promise!Spec` |

The argument. Four lemmas say what the mapped variables mean without the
`CHOOSE`s and cardinalities of the mapping: a suite's attempts are the highest
attempt among its runs, its newest states are those of the runs with that
attempt, and so on (`Readings`). Then each step the submitter can see is one step
of `SuiteAttempts`, one lemma each (`SubmitFollows`, `ReportFollows`, `EndFollows`,
`FinishFollows`, `MarkFollows`, `ReopenFollows`, `RetryFollows`, `RollupFollows`,
`CancelFollows`, `CrashFollows`), and every other step leaves the five alone
(`TouchFollows`). The lemmas use `AttemptsContiguous`, `Spoken` and
`VerdictIsReported` from `RunLifecycleProofs`, and `Seen`: a suite that was submitted
has a newest attempt, runs not in the store have said nothing, nobody cancels a
regression that does not exist, and a goroutine that owes a successor is past the
`finish` that earned it and has nothing else in hand (`OneDebtAtATime`).

`AdmissionProofs` proves, for every lab, every set of runs and catalogs and every
sequence of inventories:

| Theorem | Statement |
|---|---|
| `AdmissionTypes` | `Spec => []TypeOK` |
| `NodesAreNotOverCommitted` | `Spec => []SlotsRespected` |
| `RulesAreRespected` | `Spec => RulesRespected` |
| `ScanKeepsLead` | a turn of `Scan` keeps the lead, if the runs come by priority and age |
| `LeadIsBest` | the lead after the whole queue is in `Best`, or `NoRun` if `Best` is empty |
| `QueueCanBeSorted` | `Sorted` of a queue is not empty |
| `ScanIsRight` | for every ledger and every order of its queue in `Sorted`, `ScanQueue` is in `Best`, or `NoRun` if `Best` is empty |
| `ScanFindsTheBest` | `Spec => []ScanFindsBest` |

The assumptions are those of `QuotaRules` and `Admission`: finitely many runs, at
least one slot a node, well-formed catalogs (a rule that counts together is never
a user's).

The argument. `SlotsRespected` says nothing of the ledger, and the ledger is what
admission decides on. `SlotsInv` ties the two: a placed job belongs to a run in
flight on that node or to the one being launched (`JobsKnown`); during a pass each
run in flight is charged where it is, or is the one being launched, and what is
still queued is neither (`LedgerKnows`); the runs charged to a node, with the one
being launched, fit its slots (`LedgerFits`). Runs that end or start outside the
pass then only make the ledger pessimistic. For the rules, what is in flight after
the launch is part of what the ledger had counted when `Blocked` was evaluated,
and the launched run; and every rule that governs a user is one that `UserCap` or
`TogetherRules` returns (`GoverningRuleIsLookedUp`).

The others are the loop of `admit`. `Leads` is its invariant: the run held comes
first among those looked at. That a turn keeps it (`ScanKeepsLead`) rests on the
order of the queue alone (no run met later precedes, by priority or age, one met
before), and covers the early break and the changeover to a user with fewer slots.
`ScanIsRight` is the induction over the turns. `ScanQueue` is a recursive function,
and `ScanTurns` gives its defining equation, by taking a smallest turn without one:
numbers have least members (`LeastNumber`), which needs no induction theorem with an
operator for parameter. `QueueCanBeSorted` is done the same way, by a smallest set
without an order (`SmallestSet`); it keeps `ScanFindsBest`, which quantifies over
orders, from being empty. `Sorted` is a set and not a sequence because the order of
two runs of one priority and age is the store's, which the sort keeps and nothing
else says.

`BuildCacheProofs` proves, for every set of runners, slow holders or not, and any
number of crashes:

| Theorem | Statement |
|---|---|
| `CacheInvariant` | `Spec => []Inv` |
| `CacheTypes` | `Spec => []TypeOK` |
| `MarkedIsWhole` | `Spec => []ReadyIsWhole` |
| `UsedStaysWhole` | `Spec => []UsedIsWhole` |

The argument is who may be at work where. Until the lock has been held twice, it
is held once (`OneHolder`), and the holder knows at each step of its fetch what is
in `staging` and `dir` (`Fetching`). An entry that is ready and old is one no
runner has to do with (`Unwanted`: each `touch` renews it before the entry is
used), so the entry the agent removes is not in use unless a runner came between
its judgement and the removal, which `raced` remembers (`Taken`). `UsedIsWhole` is
claimed until the lock was held twice or the removal raced; those two hazards are
the code's, and `doubled` and `raced` name them.

`LocalBackendProofs` proves, for every set of processes, runs and nodes and every
number of slots, whatever signals come:

| Theorem | Statement |
|---|---|
| `LocalInvariant` | `Spec => []Inv` |
| `LocalTypes` | `Spec => []TypeOK` |
| `SlotsAreAccounted` | `Spec => []SlotsAccounted` |
| `SuitesFit` | `Spec => []SuitesFitSlots` |
| `PassesAreGenuine` | `Spec => []PassIsGenuine` |
| `PollsSpeakTrue` | `Spec => []PollSpeaksTrue` |
| `ReportsAreLast` | `Spec => FinishedIsLast` |
| `PollsAreFaithful` | `Spec => PollsFollowTasks`, that is `Spec => Jobs!Spec` |

The assumptions are those of `LocalBackend`: there is a node, `NoRun` and `NoProc`
are no run and no process. The set of processes need not be finite.

The argument. `RunnerSound` says what the suite, the progress goroutine, the
verdict and the posts of a runner can be at each point of `Execute`; a verdict of
"passed" is one that `Execute` computed from a clean suite, and no progress
follows the last report because the progress goroutine was waited for. `Launching`
ties a process to the `Dispatch` that starts it and the goroutine that waits for
it. `SlotsHeld` is the count: a node's use is the number of processes being
launched or waited for there, and there are finitely many. Suites that run, and those
whose output is still held, are among those, which gives `SuitesFitSlots`.

That polls implement `JobPhases` needs to know whose process is whose
(`ProcessesKnown`): a run's process was started for it, so no two runs share one,
and a process just started is nobody's until `Dispatch` registers it. Then one step
of `JobPhases` per step of the backend: `Register` is a launch (`RegisterLaunches`),
a runner's exit or death ends the task (`RunnerEnds`), and the second critical
section of the goroutine that waits is when polls begin to tell (`RecordTells`), if
the process is still the run's; all else is a stutter (`PollLooksAtOne`).

`NodeAgentProofs` proves, for every set of labels and values, any number of edits,
faults and versions:

| Theorem | Statement |
|---|---|
| `AgentInvariant` | `Spec => []Inv` |
| `AgentTypes` | `Spec => []TypeOK` |
| `LabelsAreListed` | `Spec => []NothingLingers` |
| `RunnersAreWhole` | `Spec => []RunnerIsWhole` |

The argument. `NothingLingers` fails inside an apply: what the client has beyond
the configuration is either in the bookkeeping or about to be cleared by the post
under way (`ClearSound`), as long as no two applies overlapped. That the runner
installed is never one cut short needs that the hash compared with is one the
master announced (`AgentSound`).

`StoreProofs` proves, for every set of regressions and runs, both drivers, and any
number of dashboards, mutations and faults:

| Theorem | Statement |
|---|---|
| `StoreInvariant` | `Spec => []Inv` |
| `StoreTypes` | `Spec => []TypeOK` |
| `AcceptedStaysWritten` | `Spec => []AcceptedIsWritten` |
| `WritesAreDurable` | `Spec => []WrittenIsDurable` |
| `NobodySleepsThrough` | `Spec => []NoStaleSleep` |
| `VerdictsSurvive` | `Spec => VerdictSurvives` |
| `NothingIsOrphaned` | `Spec => [](\A o \in Objects : Loaded[o] = Requeued(o, disk[o]))` |

The argument. Memory, disk and the catalog's transaction differ only by writes
that failed (`WritesSound`), except for what a `Create` under way has not written
yet (`CreateSound`); a run's row is never anywhere without its regression's
(`Rooted`), so a load finds a regression for every run it keeps. What a parked
dashboard was shown is the memory of its revision (`ViewsSound`), and a revision
that moved wakes it.

`CatalogProofs` proves, for every set of pools, nodes, people and rules, both
drivers, and any number of edits, reloads and faults:

| Theorem | Statement |
|---|---|
| `CatalogInvariant` | `Spec => []Inv` |
| `CatalogTypes` | `Spec => []TypeOK` |
| `NamesResolve` | `Spec => []NothingDangles` |
| `StoreHoldsCatalog` | `Spec => []InForceIsStored` |
| `RemovalsPass` | `Spec => RemovalsAccepted` |
| `AssignmentWins` | `Spec => HeartbeatMovesNobody` |

The assumptions are those of `Catalog`: `None` and `Absent` are no names, `None` and
`Aborted` are no catalogs and differ, and what `apply` and `PUT` are given is typed.

The argument. The catalog in force passes validation (`RawValid`), and whoever is
past validation holds `catMu` with a valid next catalog. `SoFar` says what the rows of
an open transaction have in common with the next catalog before each batch, from
nothing at the first to everything at the commit, whatever was stored before; that a
batch takes one to the next is `BatchAdds`. It is claimed of a transaction that is
open and not aborted; a save without one is already marked as astray (`RowsSound`),
and a commit that the server turns into a rollback is marked when it is answered.
Until the commit the store has what is in force (`ClientSound`). `ReloadSound` is the
same for the reader: what an unhurried reload has read is what is stored. That
removals are accepted is one lemma per kind of removal (`RemoveNodeValid`,
`RemoveUserValid`, `RemoveGroupValid`, `RemovePoolValid`, `RemoveRuleValid`): what
is left is valid, or a virtual pool lost its last member and has no runtime of its
own, the one case the code refuses (`Bare`).

Only model-checked:

* Liveness (`EveryRunEnds`, `RegressionSettles`, `EnsureReturns`, `SlotsComeBack`,
  `LabelsSettle`, `RunnerSettles`): outside what the prover supports.

The documentation's sentences of section 3 are refuted, not proved. Several
theorems hold until something that the code allows has happened, and say so by a
variable that remembers it (`doubled`, `raced`, `overlapped`, `swallowed`, `astray`,
`restarted`, `faults`); the violations that follow are the findings.

## 5. Not modelled

* The validation of a submission, the views, and why a waiting run waits: pure
  functions of what the modules have, tested in the repository.
* The manifest. It is written after a rollup and never read by the program. Two
  uploads that overlap can leave the older one, which takes an upload that lasts
  longer than a whole later attempt.
* Job ids and rule keys as strings. That all runs of one attempt share a job is
  modelled; that sanitizing and truncating a suite's name (`nomadbackend.go:136`) can
  give two suites one job as well is not, nor that a rule key does not survive a name
  with `@`, `:` or a final `/together`. Names are model values here.
* Requests that the server handles after their client gave up on them, in two places:
  a progress post aborted by the suite's deadline or a SIGTERM is delivered before the
  runner goes on or not at all (`RunnerAttempt`; `RunLifecycle` has posts that arrive
  late, twice or never), and a write of node metadata takes effect before its client's
  timeout or never (`NodeAgent`).
* Background processes of a suite that have closed its output: they hold nothing that
  the runner or the backend waits for. What they write to the results after the suite's
  process has ended is left out with them.
* A statement that times out on the catalog's own calls leaves answers unread on the
  connection; it is treated as a broken connection. Edits with psql fall between
  saves, not into an open transaction.
* The runner's environment, file layout and upload keys; archive formats beyond
  what an extraction can come to; the rendering of Nomad jobs and configurations.
* Build resolution and the S3 client: requests without state. Wire protocols,
  parsers, the HTTP routing, the dashboard, the command line and deployment files:
  conversion of data.

## 6. Plan

The model is complete as far as section 5 says, and every invariant and action
property that a run checks is a theorem, both refinements included. What is worth
doing next:

1. `JobsRemoved` under failing stops, unanswered launches and crashes: what exactly
   a job that is left behind owes to which of them, instead of the hypothesis
   `Undisturbed`.
2. `JobPhases` for the Nomad backend, with jobs that are purged or lost, as a second
   implementation of it.
3. Shorter proofs where a lemma serves two components: finite sets that gain or
   lose one element (`Admission`, `LocalBackend`), functions with one entry
   replaced (`Store`, `Catalog`).
