------------------------------ MODULE Admission ------------------------------
(***************************************************************************)
(* Which queued runs the scheduler's tick starts, and where.  Each pass    *)
(* takes a snapshot of the runs, of the catalog and of the nodes that are  *)
(* ready, charges the runs in flight to a ledger, and then launches one    *)
(* run after the other, charging each, until no queued run may start.      *)
(* Meanwhile runs end, are canceled or start, the catalog is edited, and   *)
(* the master may crash: all of that goes past the pass's ledger.          *)
(*                                                                         *)
(* How a run ends, and what follows, is RunLifecycle's subject: here a run *)
(* is queued, in flight (dispatched or running) or over.                   *)
(***************************************************************************)
EXTENDS QuotaRules, Integers, FiniteSets

CONSTANTS
  RunIds,      \* runs ever submitted
  NoRun,
  Job,         \* Job[r]: what the submission of r asks for
  Slots,       \* Slots[n]: slots node n declares
  Catalogs,    \* catalogs an operator may apply
  Inventories, \* sets of nodes the backend may report as ready
  MaxEdits,    \* edits of the catalog considered (bounds the model)
  FaultKinds,  \* "crash": of the master, "launch": a launch without answer
  MaxFaults    \* faults considered

ASSUME NoRunAssumption == NoRun \notin RunIds
ASSUME RunIdsAssumption == IsFiniteSet(RunIds)
ASSUME JobAssumption ==
  Job \in [RunIds -> [user: Users, pool: Pools, priority: Nat, queuedAt: Nat,
                      suits: SUBSET Nodes]]   \* nodes whose labels satisfy the suite
ASSUME SlotsAssumption == Slots \in [Nodes -> Nat \ {0}]
ASSUME CatalogsAssumption == Catalogs \subseteq Catalog
ASSUME InventoriesAssumption == Inventories \subseteq SUBSET Nodes
ASSUME FaultKindsAssumption == FaultKinds \subseteq {"crash", "launch"}
ASSUME BoundsAssumption == MaxEdits \in Nat /\ MaxFaults \in Nat

VARIABLES
  run,      \* store: state and node of each run
  alloc,    \* backend: the node that holds, or will hold, the run's task
  live,     \* the live catalog
  tick,     \* the scheduler's pass
  edits,    \* edits of the catalog so far
  faults    \* crashes and unanswered launches so far

vars == <<run, alloc, live, tick, edits, faults>>

-----------------------------------------------------------------------------

Run == [state: {"new", "queued", "over"}, node: Nodes \union {NoNode}]
          \union [state: {"inflight"}, node: Nodes]

IdleTick == [pc |-> "idle"]

Tick == [pc: {"admit", "mark"},
         cat: Catalogs,                            \* the ledger's catalog
         ready: Inventories,                       \* the ledger's inventory
         at: [RunIds -> Nodes \union {NoNode}],    \* node each run is charged to
         queue: SUBSET RunIds,                     \* queued runs of the snapshot
         cur: RunIds \union {NoRun},               \* run being launched
         on: Nodes \union {NoNode}]

TypeOK ==
  /\ run \in [RunIds -> Run]
  /\ alloc \in [RunIds -> Nodes \union {NoNode}]
  /\ live \in Catalogs
  /\ tick \in Tick \union {IdleTick}
  /\ edits \in 0..MaxEdits
  /\ faults \in 0..MaxFaults

-----------------------------------------------------------------------------
(* The ledger.  at[r] is the node r is charged to, NoNode when it is not. *)

Charged(at) == {r \in RunIds : at[r] # NoNode}

ChargedTo(at, n) == {r \in RunIds : at[r] = n}

\* nodeLedger.free; more runs than slots also leave none.
Free(l, n) ==
  IF n \in l.ready /\ l.cat.nodePool[n] # NoPool
  THEN Slots[n] - Cardinality(ChargedTo(l.at, n)) ELSE 0

ByUser(at, u) == Cardinality({r \in Charged(at) : Job[r].user = u})

InScope(cat, r, n, scope) ==
  \/ scope = <<"everywhere">>
  \/ scope = <<"node", n>>
  \/ \E p \in PoolsOf(cat, Job[r].pool, n) : scope = <<"pool", p>>

\* The runs a rule counts, for user u.
Counted(cat, at, rule, u) ==
  {r \in Charged(at) :
     /\ InScope(cat, r, at[r], rule.scope)
     /\ IF rule.together THEN Covers(cat, rule, Job[r].user) ELSE Job[r].user = u}

\* Mutant: only the pool of the submission is looked at.
ScopesOfSubmission(cat, r, n) == {<<"everywhere">>, <<"pool", Job[r].pool>>, <<"node", n>>}

\* The scopes looked at for r on n.
Scopes(cat, r, n) ==
  {<<"everywhere">>, <<"node", n>>}
     \union {<<"pool", p>> : p \in PoolsOf(cat, Job[r].pool, n)}

\* Some rule that governs r on n is at its limit.
Blocked(l, r, n) ==
  LET u == Job[r].user
  IN \E scope \in Scopes(l.cat, r, n) :
       \E rule \in UserCap(l.cat, u, scope) \union TogetherRules(l.cat, u, scope) :
         Cardinality(Counted(l.cat, l.at, rule, u)) >= rule.max

\* Nodes the pool of r may place on, ready, with a free slot, fitting labels,
\* and no rule in the way.
Candidates(l, r) ==
  {n \in Job[r].suits : /\ l.cat.nodePool[n] \in NodePools(l.cat, Job[r].pool)
                        /\ Free(l, n) > 0
                        /\ ~Blocked(l, r, n)}

\* Relative to its slots no candidate is freer.  (Of several the first by name
\* is picked, left open here.)
Pick(l, r) ==
  {n \in Candidates(l, r) :
     \A m \in Candidates(l, r) : Free(l, n) * Slots[m] >= Free(l, m) * Slots[n]}

Eligible(l, r) == Job[r].pool \in l.cat.pools /\ Candidates(l, r) # {}

\* Whom the next slot goes to: priority outright, then the user who holds the
\* fewest slots, then the run that waits longest.
Precedes(l, r, q) ==
  LET held(x) == ByUser(l.at, Job[x].user)
  IN \/ Job[r].priority > Job[q].priority
     \/ /\ Job[r].priority = Job[q].priority
        /\ \/ held(r) < held(q)
           \/ held(r) = held(q) /\ Job[r].queuedAt <= Job[q].queuedAt

Best(l) ==
  {r \in l.queue : Eligible(l, r) /\ \A q \in l.queue : Eligible(l, q) => Precedes(l, r, q)}

-----------------------------------------------------------------------------
(* The loop of admit that finds the next run, as written: one scan of the  *)
(* queue sorted by priority and age.                                       *)

QueueOrder(r, q) ==
  \/ Job[r].priority > Job[q].priority
  \/ Job[r].priority = Job[q].priority /\ Job[r].queuedAt < Job[q].queuedAt

\* Mutant: the loop does not break off at a lower priority.
ScanPastPriority(l, best, r) ==
  IF ~Eligible(l, r) THEN best
  ELSE IF best = NoRun THEN r
  ELSE IF ByUser(l.at, Job[r].user) < ByUser(l.at, Job[best].user) THEN r ELSE best

\* One turn of the loop.  Once a run of lower priority is met nothing changes
\* any more, which is where the code breaks off.
Scan(l, best, r) ==
  IF ~Eligible(l, r) THEN best
  ELSE IF best = NoRun THEN r
  ELSE IF Job[r].priority < Job[best].priority THEN best
  ELSE IF ByUser(l.at, Job[r].user) < ByUser(l.at, Job[best].user) THEN r ELSE best

\* The orders the sort may leave a queue in; runs of one priority and age stay
\* as the store happens to list them.
Sorted(S) ==
  {q \in [1..Cardinality(S) -> S] :
     \A i, j \in DOMAIN q : i < j => q[i] # q[j] /\ ~QueueOrder(q[j], q[i])}

\* What the loop holds when it has met all of q.
ScanQueue(l, q) ==
  LET lead[i \in 0..Cardinality(l.queue)] ==
        IF i = 0 THEN NoRun ELSE Scan(l, lead[i - 1], q[i])
  IN  lead[Cardinality(l.queue)]

-----------------------------------------------------------------------------
(* One pass of the scheduler *)

Init ==
  /\ run = [r \in RunIds |-> [state |-> "new", node |-> NoNode]]
  /\ alloc = [r \in RunIds |-> NoNode]
  /\ live \in Catalogs
  /\ tick = IdleTick
  /\ edits = 0 /\ faults = 0

InFlight == {r \in RunIds : run[r].state = "inflight"}

Queued == {r \in RunIds : run[r].state = "queued"}

\* The node of each run in flight, in a store of runs.
Placement(store) ==
  [r \in RunIds |-> IF store[r].state = "inflight" THEN store[r].node ELSE NoNode]

\* newLedger: the runs in flight are charged, on the live catalog and the
\* inventory at hand.
NewLedger(ready) ==
  [pc |-> "admit", cat |-> live, ready |-> ready,
   at |-> Placement(run),
   queue |-> Queued, cur |-> NoRun, on |-> NoNode]

\* The nodes ready are those of the last inventory, whatever it was.
TickAdmit ==
  /\ tick.pc = "idle"
  /\ \E ready \in Inventories : tick' = NewLedger(ready)
  /\ UNCHANGED <<run, alloc, live, edits, faults>>

\* The run spec of the run chosen is built, and its job registered on n.
TickLaunch(r, n) ==
  /\ Job[r].pool \in live.pools
  /\ alloc' = [alloc EXCEPT ![r] = n]
  /\ tick' = [tick EXCEPT !.pc = "mark", !.queue = @ \ {r}, !.cur = r, !.on = n]
  /\ UNCHANGED <<run, live, edits, faults>>

\* The spec is built from the live catalog: without the pool the run ends as
\* errored (its retry is RunLifecycle's subject).
TickLaunchFails(r, n) ==
  /\ Job[r].pool \notin live.pools
  /\ run' = [run EXCEPT ![r].state = "over"]
  /\ tick' = [tick EXCEPT !.queue = @ \ {r}]
  /\ UNCHANGED <<alloc, live, edits, faults>>

Fault(kind) == kind \in FaultKinds /\ faults < MaxFaults /\ faults' = faults + 1

\* The backend refuses or does not answer, and may have registered the job.
TickLaunchUnanswered(r, n) ==
  /\ Job[r].pool \in live.pools
  /\ Fault("launch")
  /\ alloc' \in {alloc, [alloc EXCEPT ![r] = n]}
  /\ tick' = [tick EXCEPT !.queue = @ \ {r}]
  /\ UNCHANGED <<run, live, edits>>

\* The loop of admit takes its next run and node.
TickLaunches ==
  /\ tick.pc = "admit"
  /\ \E r \in Best(tick) : \E n \in Pick(tick, r) :
       TickLaunch(r, n) \/ TickLaunchFails(r, n) \/ TickLaunchUnanswered(r, n)

\* Mutant: a launched run is not charged.
ChargeNothing(l) == [l EXCEPT !.pc = "admit", !.cur = NoRun, !.on = NoNode]

\* charge: the launched run takes its slot in the ledger.
Charge(l) == [l EXCEPT !.pc = "admit", !.at[l.cur] = l.on, !.cur = NoRun, !.on = NoNode]

\* Mutant: the node is not recorded on the run.
DispatchedNowhere(n) == [state |-> "inflight", node |-> NoNode]

Dispatched(n) == [state |-> "inflight", node |-> n]

\* The store update after the launch; it looks at nothing.
TickMark ==
  /\ tick.pc = "mark"
  /\ run' = [run EXCEPT ![tick.cur] = Dispatched(tick.on)]
  /\ tick' = Charge(tick)
  /\ UNCHANGED <<alloc, live, edits, faults>>

TickDone ==
  /\ tick.pc = "admit" /\ Best(tick) = {}
  /\ tick' = IdleTick
  /\ UNCHANGED <<run, alloc, live, edits, faults>>

-----------------------------------------------------------------------------
(* What goes on meanwhile *)

Submit(r) ==
  /\ run[r].state = "new"
  /\ run' = [run EXCEPT ![r].state = "queued"]
  /\ UNCHANGED <<alloc, live, tick, edits, faults>>

\* A "started" event, or a poll, of a run whose job is placed: usually of one
\* dispatched, but also of one that is queued (again).
RunStarts(r) ==
  /\ alloc[r] # NoNode /\ run[r].state # "over"
  /\ run' = [run EXCEPT ![r] = [state |-> "inflight", node |-> alloc[r]]]
  /\ UNCHANGED <<alloc, live, tick, edits, faults>>

\* A run ends, by its runner's report, a poll, its deadline or a cancellation,
\* and its job is gone (when the job outlives it is RunLifecycle's subject).
RunEnds(r) ==
  /\ run[r].state \in {"queued", "inflight"}
  /\ run' = [run EXCEPT ![r].state = "over"]
  /\ alloc' = [alloc EXCEPT ![r] = NoNode]
  /\ UNCHANGED <<live, tick, edits, faults>>

\* The catalog is edited; a pass under way keeps the one it took.
EditCatalog ==
  /\ edits < MaxEdits /\ edits' = edits + 1
  /\ live' \in Catalogs \ {live}
  /\ UNCHANGED <<run, alloc, tick, faults>>

\* The master restarts, with every run in flight queued again and its job
\* where it was.
Restart ==
  /\ Fault("crash")
  /\ run' = [r \in RunIds |-> IF r \in InFlight
                              THEN [run[r] EXCEPT !.state = "queued"] ELSE run[r]]
  /\ tick' = IdleTick
  /\ UNCHANGED <<alloc, live, edits>>

Next ==
  \/ TickAdmit \/ TickLaunches \/ TickMark \/ TickDone
  \/ \E r \in RunIds : Submit(r) \/ RunStarts(r) \/ RunEnds(r)
  \/ EditCatalog \/ Restart

Spec == Init /\ [][Next]_vars

-----------------------------------------------------------------------------
(* Properties *)

\* Unless the master restarted or a launch went unanswered, no node has more
\* runs in flight than slots, however its pool, the inventory and the runs
\* changed behind the pass's back (newLedger, charge, free).
SlotsRespected ==
  faults = 0 => \A n \in Nodes :
    Cardinality({r \in InFlight : run[r].node = n}) <= Slots[n]

Rank(rule) == IF rule.subject[1] = "user" THEN 3
              ELSE IF rule.subject[1] = "group" THEN 2 ELSE 1

\* A rule governs a user it covers when it counts users together, or when no
\* rule of its scope is more specific, nor more permissive among the groups'.
Governs(cat, rule, u) ==
  /\ Covers(cat, rule, u)
  /\ rule.together
       \/ \A q \in cat.rules :
            ~q.together /\ q.scope = rule.scope /\ Covers(cat, q, u) =>
              \/ Rank(q) < Rank(rule)
              \/ Rank(q) = Rank(rule) /\ q.max <= rule.max

\* Slots that rule sees taken, for user u, in a store of runs.
Usage(cat, store, rule, u) == Cardinality(Counted(cat, Placement(store), rule, u))

\* A launch never takes any rule of the pass's catalog past its limit, for any
\* user it governs, in whatever pools the run counts (block, count, poolsOf).
RulesRespected ==
  [][tick.pc = "mark" /\ faults = 0 =>
       \A rule \in tick.cat.rules, u \in Users :
         Governs(tick.cat, rule, u) =>
           \/ Usage(tick.cat, run', rule, u) <= Usage(tick.cat, run, rule, u)
           \/ Usage(tick.cat, run', rule, u) <= rule.max]_vars

\* The scan that breaks off early finds a run that no other eligible one
\* precedes, whatever is queued, charged and at its limit, and in whatever order
\* the sort leaves runs of one priority and age (admit).
ScanFindsBest ==
  tick.pc = "admit" =>
    LET best == Best(tick)
    IN \A q \in Sorted(tick.queue) :
         IF best = {} THEN ScanQueue(tick, q) = NoRun ELSE ScanQueue(tick, q) \in best

\* ARCHITECTURE.md: "The master never hands Nomad more work than the nodes can
\* run".  Here: the unfinished runs with a job on a node fit its slots.
NeverOverCommitted ==
  \A n \in Nodes :
    Cardinality({r \in RunIds : alloc[r] = n /\ run[r].state # "over"}) <= Slots[n]
=============================================================================
