--------------------------- MODULE AdmissionProofs ---------------------------
(***************************************************************************)
(* Theorems about Admission: types, slots, quota rules, and the loop that  *)
(* picks the next run.  For slots and rules an invariant ties the store's  *)
(* runs to the ledger of the pass under way: a run in flight is charged    *)
(* where it is, or is the one being launched; and with that one included   *)
(* the ledger never exceeds a node's slots.  For the loop an invariant of  *)
(* its turns: the run it holds comes first among those looked at.          *)
(***************************************************************************)
EXTENDS Admission, FiniteSetTheorems, TLAPS

-----------------------------------------------------------------------------
(* Types *)

\* While a launch is marked there is a run, and a node it is launched on.
Marking ==
  tick.pc = "mark" => tick.cur \in RunIds /\ tick.on \in Nodes

TypeInv == TypeOK /\ Marking

\* What the loop picks is a run of the queue and a node (admit, pick).
LEMMA PicksAreRuns ==
  ASSUME NEW l, NEW r \in Best(l), NEW n \in Pick(l, r), l.queue \subseteq RunIds
  PROVE  r \in l.queue /\ r \in RunIds /\ n \in Candidates(l, r) /\ n \in Nodes
<1>1. r \in l.queue /\ r \in RunIds
  BY DEF Best
<1>2. n \in Candidates(l, r)
  BY DEF Pick
<1>3. Job[r].suits \subseteq Nodes
  BY <1>1, JobAssumption
<1>. QED
  BY <1>1, <1>2, <1>3 DEF Candidates

\* A pass keeps its ledger, its queue only shrinks.
LEMMA TypeStep == TypeInv /\ [Next]_vars => TypeInv'
<1>. SUFFICES ASSUME TypeInv, [Next]_vars PROVE TypeInv'
  OBVIOUS
<1>. USE NoRunAssumption, NoNodeAssumption, BoundsAssumption
<1>1. CASE TickAdmit
  <2>1. PICK ready \in Inventories : tick' = NewLedger(ready)
    BY <1>1 DEF TickAdmit
  <2>2. Placement(run) \in [RunIds -> Nodes \union {NoNode}]
    BY DEF TypeInv, TypeOK, Placement, Run
  <2>3. tick' \in Tick /\ tick'.pc = "admit"
    BY <2>1, <2>2 DEF NewLedger, Tick, Queued, TypeInv, TypeOK
  <2>. QED
    BY <1>1, <2>3 DEF TickAdmit, TypeInv, TypeOK, Marking
<1>2. CASE TickLaunches
  <2>1. tick \in Tick /\ tick.pc = "admit" /\ tick.queue \subseteq RunIds
    BY <1>2 DEF TickLaunches, TypeInv, TypeOK, Tick, IdleTick
  <2>. PICK r \in Best(tick) : \E n \in Pick(tick, r) :
         TickLaunch(r, n) \/ TickLaunchFails(r, n) \/ TickLaunchUnanswered(r, n)
    BY <1>2 DEF TickLaunches
  <2>2. PICK n \in Pick(tick, r) :
          TickLaunch(r, n) \/ TickLaunchFails(r, n) \/ TickLaunchUnanswered(r, n)
    OBVIOUS
  <2>3. r \in RunIds /\ n \in Nodes
    BY <2>1, PicksAreRuns
  <2>4. CASE TickLaunch(r, n)
    <3>1. tick' \in Tick
      BY <2>1, <2>3, <2>4 DEF TickLaunch, Tick
    <3>2. tick'.cur = r /\ tick'.on = n
      BY <2>1, <2>4 DEF TickLaunch, Tick
    <3>. QED
      BY <2>3, <2>4, <3>1, <3>2 DEF TickLaunch, TypeInv, TypeOK, Marking
  <2>5. CASE TickLaunchFails(r, n)
    <3>1. tick' \in Tick /\ tick'.pc = "admit"
      BY <2>1, <2>5 DEF TickLaunchFails, Tick
    <3>2. [run[r] EXCEPT !.state = "over"] \in Run
      BY <2>3 DEF TypeInv, TypeOK, Run
    <3>. QED
      BY <2>3, <2>5, <3>1, <3>2 DEF TickLaunchFails, TypeInv, TypeOK, Marking
  <2>6. CASE TickLaunchUnanswered(r, n)
    <3>1. tick' \in Tick /\ tick'.pc = "admit"
      BY <2>1, <2>6 DEF TickLaunchUnanswered, Tick
    <3>. QED
      BY <2>3, <2>6, <3>1 DEF TickLaunchUnanswered, Fault, TypeInv, TypeOK, Marking
  <2>. QED
    BY <2>2, <2>4, <2>5, <2>6
<1>3. CASE TickMark
  <2>1. tick \in Tick /\ tick.cur \in RunIds /\ tick.on \in Nodes
    BY <1>3 DEF TickMark, TypeInv, TypeOK, Marking, Tick, IdleTick
  <2>2. tick' \in Tick /\ tick'.pc = "admit"
    BY <1>3, <2>1 DEF TickMark, Charge, Tick
  <2>3. Dispatched(tick.on) \in Run
    BY <2>1 DEF Dispatched, Run
  <2>. QED
    BY <1>3, <2>1, <2>2, <2>3 DEF TickMark, TypeInv, TypeOK, Marking
<1>4. CASE TickDone
  BY <1>4 DEF TickDone, IdleTick, TypeInv, TypeOK, Marking
<1>5. ASSUME NEW r \in RunIds, Submit(r) PROVE TypeInv'
  <2>1. [run[r] EXCEPT !.state = "queued"] \in Run
    BY <1>5 DEF Submit, TypeInv, TypeOK, Run
  <2>. QED
    BY <1>5, <2>1 DEF Submit, TypeInv, TypeOK, Marking
<1>6. ASSUME NEW r \in RunIds, RunStarts(r) PROVE TypeInv'
  <2>1. [state |-> "inflight", node |-> alloc[r]] \in Run
    BY <1>6 DEF RunStarts, TypeInv, TypeOK, Run
  <2>. QED
    BY <1>6, <2>1 DEF RunStarts, TypeInv, TypeOK, Marking
<1>7. ASSUME NEW r \in RunIds, RunEnds(r) PROVE TypeInv'
  <2>1. [run[r] EXCEPT !.state = "over"] \in Run
    BY DEF TypeInv, TypeOK, Run
  <2>. QED
    BY <1>7, <2>1 DEF RunEnds, TypeInv, TypeOK, Marking
<1>8. CASE EditCatalog
  BY <1>8 DEF EditCatalog, TypeInv, TypeOK, Marking
<1>9. CASE Restart
  <2>1. \A r \in RunIds : [run[r] EXCEPT !.state = "queued"] \in Run
    BY DEF TypeInv, TypeOK, Run
  <2>. QED
    BY <1>9, <2>1 DEF Restart, Fault, IdleTick, TypeInv, TypeOK, Marking
<1>10. CASE UNCHANGED vars
  BY <1>10 DEF vars, TypeInv, TypeOK, Marking
<1>. QED
  BY <1>1, <1>2, <1>3, <1>4, <1>5, <1>6, <1>7, <1>8, <1>9, <1>10 DEF Next

LEMMA TypeInit == Init => TypeInv
  BY BoundsAssumption DEF Init, TypeInv, TypeOK, Marking, Run, IdleTick

\* Every reachable state is well typed; in particular a run in flight is always
\* on a node, whatever the launch mark overwrites (dispatch).
THEOREM AdmissionTypes == Spec => []TypeOK
<1>1. TypeInv => TypeOK
  BY DEF TypeInv
<1>. QED
  BY <1>1, TypeInit, TypeStep, PTL DEF Spec

-----------------------------------------------------------------------------
(* Slots *)

\* A job that is placed belongs to a run in flight there, or to the one being
\* launched there.
JobsKnown ==
  \A r \in RunIds :
    alloc[r] # NoNode =>
      \/ run[r].state = "inflight" /\ run[r].node = alloc[r]
      \/ tick.pc = "mark" /\ tick.cur = r /\ tick.on = alloc[r]

\* While a pass is under way: a run in flight is charged where it is, or is the
\* one being launched; what is still queued is neither in flight nor charged.
LedgerKnows ==
  tick.pc # "idle" =>
    /\ \A r \in InFlight : \/ tick.at[r] = run[r].node
                           \/ tick.pc = "mark" /\ tick.cur = r /\ tick.on = run[r].node
    /\ \A r \in tick.queue : r \notin InFlight /\ tick.at[r] = NoNode
    /\ tick.pc = "mark" => tick.cur \notin tick.queue /\ tick.at[tick.cur] = NoNode

\* The runs that the ledger has on n, with the one being launched.
Taken(n) ==
  ChargedTo(tick.at, n) \union
    {r \in RunIds : tick.pc = "mark" /\ tick.cur = r /\ tick.on = n}

\* The ledger fits the slots; between passes the store does.
LedgerFits ==
  \A n \in Nodes :
    IF tick.pc = "idle"
    THEN Cardinality({r \in InFlight : run[r].node = n}) <= Slots[n]
    ELSE Cardinality(Taken(n)) <= Slots[n]

SlotsInv == faults = 0 => JobsKnown /\ LedgerKnows /\ LedgerFits

\* A set of runs that is part of one that fits, fits.
LEMMA PartFits ==
  ASSUME NEW S \in SUBSET RunIds, NEW T \in SUBSET S, NEW k \in Nat, Cardinality(S) <= k
  PROVE  Cardinality(T) <= k
<1>1. IsFiniteSet(S)
  BY RunIdsAssumption, FS_Subset
<1>2. IsFiniteSet(T) /\ Cardinality(T) <= Cardinality(S)
  BY <1>1, FS_Subset
<1>. QED
  BY <1>1, <1>2, FS_CardinalityType

\* Where there is room there is room for one more run.
LEMMA OneMoreFits ==
  ASSUME NEW S \in SUBSET RunIds, NEW r \in RunIds, NEW k \in Nat, Cardinality(S) < k
  PROVE  Cardinality(S \union {r}) <= k
<1>1. IsFiniteSet(S)
  BY RunIdsAssumption, FS_Subset
<1>2. Cardinality(S) \in Nat /\ Cardinality(S \union {r}) \in {Cardinality(S), Cardinality(S) + 1}
  BY <1>1, FS_AddElement, FS_CardinalityType
<1>. QED
  BY <1>2

\* The runs in flight on a node are among those the ledger has there.
LEMMA InFlightTaken ==
  ASSUME TypeOK, LedgerKnows, tick.pc # "idle", NEW n \in Nodes
  PROVE  {r \in InFlight : run[r].node = n} \subseteq Taken(n)
BY DEF LedgerKnows, Taken, ChargedTo, InFlight

LEMMA FitsMeansSlots ==
  ASSUME TypeOK, LedgerKnows, LedgerFits, NEW n \in Nodes
  PROVE  Cardinality({r \in InFlight : run[r].node = n}) <= Slots[n]
<1>1. CASE tick.pc = "idle"
  BY <1>1 DEF LedgerFits
<1>2. CASE tick.pc # "idle"
  <2>1. Cardinality(Taken(n)) <= Slots[n]
    BY <1>2 DEF LedgerFits
  <2>2. Taken(n) \in SUBSET RunIds
    BY DEF Taken, ChargedTo
  <2>3. Slots[n] \in Nat
    BY SlotsAssumption
  <2>. QED
    BY <1>2, <2>1, <2>2, <2>3, InFlightTaken, PartFits
<1>. QED
  BY <1>1, <1>2

\* A candidate has a slot left in the ledger (free).
LEMMA CandidateHasRoom ==
  ASSUME TypeOK, tick.pc = "admit", NEW r \in RunIds, NEW n \in Nodes, n \in Candidates(tick, r)
  PROVE  Cardinality(ChargedTo(tick.at, n)) < Slots[n]
<1>1. Free(tick, n) > 0
  BY DEF Candidates
<1>2. IsFiniteSet(ChargedTo(tick.at, n))
  BY RunIdsAssumption, FS_Subset DEF ChargedTo
<1>3. Cardinality(ChargedTo(tick.at, n)) \in Nat /\ Slots[n] \in Nat
  BY <1>2, SlotsAssumption, FS_CardinalityType
<1>4. Free(tick, n) = 0 \/ Free(tick, n) = Slots[n] - Cardinality(ChargedTo(tick.at, n))
  BY DEF Free
<1>. QED
  BY <1>1, <1>3, <1>4

LEMMA SlotsInit == Init => SlotsInv
<1>. SUFFICES ASSUME Init PROVE SlotsInv
  OBVIOUS
<1>1. \A n \in Nodes : {r \in InFlight : run[r].node = n} = {}
  BY DEF Init, InFlight
<1>2. \A n \in Nodes : Slots[n] \in Nat
  BY SlotsAssumption
<1>3. \A n \in Nodes : Cardinality({r \in InFlight : run[r].node = n}) <= Slots[n]
  <2>. TAKE n \in Nodes
  <2>1. Cardinality({r \in InFlight : run[r].node = n}) = 0
    BY <1>1, FS_EmptySet
  <2>. QED
    BY <1>2, <2>1
<1>4. LedgerFits
  BY <1>3 DEF Init, LedgerFits, IdleTick
<1>. QED
  BY <1>4 DEF Init, SlotsInv, JobsKnown, LedgerKnows, IdleTick

\* Steps outside the pass that put no run in flight keep what the ledger knows.
LEMMA LedgerKept ==
  ASSUME TypeInv, LedgerKnows, LedgerFits, UNCHANGED tick,
         \A r \in RunIds : run'[r].state = "inflight" =>
                             run[r].state = "inflight" /\ run'[r].node = run[r].node
  PROVE  LedgerKnows' /\ LedgerFits'
<1>1. InFlight' \subseteq InFlight /\ \A r \in InFlight' : run'[r].node = run[r].node
  BY DEF InFlight
<1>2. LedgerKnows'
  BY <1>1 DEF LedgerKnows
<1>3. ASSUME NEW n \in Nodes, tick.pc = "idle"
      PROVE  Cardinality({r \in InFlight' : run'[r].node = n}) <= Slots[n]
  <2>1. {r \in InFlight' : run'[r].node = n} \subseteq {r \in InFlight : run[r].node = n}
    BY <1>1
  <2>2. {r \in InFlight : run[r].node = n} \in SUBSET RunIds
    BY DEF InFlight
  <2>3. Cardinality({r \in InFlight : run[r].node = n}) <= Slots[n] /\ Slots[n] \in Nat
    BY <1>3, SlotsAssumption DEF LedgerFits
  <2>. QED
    BY <2>1, <2>2, <2>3, PartFits
<1>4. ASSUME NEW n \in Nodes, tick.pc # "idle"
      PROVE  Cardinality(Taken(n)') <= Slots[n]
  <2>1. Taken(n)' = Taken(n)
    BY DEF Taken
  <2>. QED
    BY <1>4, <2>1 DEF LedgerFits
<1>. QED
  BY <1>2, <1>3, <1>4 DEF LedgerFits

LEMMA AdmitKeepsSlots ==
  ASSUME TypeInv, JobsKnown, LedgerKnows, LedgerFits, TickAdmit
  PROVE  JobsKnown' /\ LedgerKnows' /\ LedgerFits'
<1>1. PICK ready \in Inventories : tick' = NewLedger(ready)
  BY DEF TickAdmit
<1>2. /\ tick'.pc = "admit" /\ tick'.at = Placement(run) /\ tick'.queue = Queued
      /\ UNCHANGED <<run, alloc>> /\ tick.pc = "idle"
  BY <1>1 DEF NewLedger, TickAdmit
<1>3. JobsKnown'
  BY <1>2 DEF JobsKnown
<1>4. LedgerKnows'
  BY <1>2 DEF LedgerKnows, InFlight, Queued, Placement
<1>5. \A n \in Nodes : Taken(n)' = {r \in InFlight : run[r].node = n}
  BY <1>2, NoNodeAssumption DEF Taken, ChargedTo, InFlight, Placement
<1>6. LedgerFits'
  BY <1>2, <1>5 DEF LedgerFits
<1>. QED
  BY <1>3, <1>4, <1>6

LEMMA LaunchKeepsSlots ==
  ASSUME TypeInv, JobsKnown, LedgerKnows, LedgerFits, TickLaunches, faults' = 0
  PROVE  JobsKnown' /\ LedgerKnows' /\ LedgerFits'
<1>1. tick \in Tick /\ tick.pc = "admit" /\ tick.queue \subseteq RunIds
  BY DEF TickLaunches, TypeInv, TypeOK, Tick, IdleTick
<1>. PICK r \in Best(tick) : \E n \in Pick(tick, r) :
       TickLaunch(r, n) \/ TickLaunchFails(r, n) \/ TickLaunchUnanswered(r, n)
  BY DEF TickLaunches
<1>2. PICK n \in Pick(tick, r) :
        TickLaunch(r, n) \/ TickLaunchFails(r, n) \/ TickLaunchUnanswered(r, n)
  OBVIOUS
<1>3. r \in tick.queue /\ r \in RunIds /\ n \in Nodes /\ n \in Candidates(tick, r)
  BY <1>1, PicksAreRuns
<1>4. CASE TickLaunch(r, n)
  <2>1. /\ tick'.pc = "mark" /\ tick'.at = tick.at /\ tick'.queue = tick.queue \ {r}
        /\ tick'.cur = r /\ tick'.on = n
    BY <1>1, <1>4 DEF TickLaunch, Tick
  <2>2. run' = run /\ alloc' = [alloc EXCEPT ![r] = n]
    BY <1>4 DEF TickLaunch
  <2>3. JobsKnown'
    BY <1>1, <1>3, <2>1, <2>2 DEF JobsKnown, TypeInv, TypeOK
  <2>4. LedgerKnows'
    BY <1>1, <1>3, <2>1, <2>2 DEF LedgerKnows, InFlight
  <2>5. ASSUME NEW m \in Nodes PROVE Cardinality(Taken(m)') <= Slots[m]
    <3>1. ChargedTo(tick.at, m) \in SUBSET RunIds /\ Slots[m] \in Nat
      BY SlotsAssumption DEF ChargedTo
    <3>2. CASE m = n
      <4>1. Taken(m)' = ChargedTo(tick.at, m) \union {r}
        BY <1>3, <2>1, <3>2 DEF Taken
      <4>2. Cardinality(ChargedTo(tick.at, m)) < Slots[m]
        BY <1>1, <1>3, <3>2, CandidateHasRoom DEF TypeInv
      <4>. QED
        BY <1>3, <3>1, <4>1, <4>2, OneMoreFits
    <3>3. CASE m # n
      <4>1. Taken(m)' = Taken(m)
        BY <1>1, <2>1, <3>3 DEF Taken
      <4>. QED
        BY <1>1, <4>1 DEF LedgerFits
    <3>. QED
      BY <3>2, <3>3
  <2>6. LedgerFits'
    BY <2>1, <2>5 DEF LedgerFits
  <2>. QED
    BY <2>3, <2>4, <2>6
<1>5. CASE TickLaunchFails(r, n)
  <2>1. tick'.pc = "admit" /\ tick'.at = tick.at /\ tick'.queue = tick.queue \ {r}
    BY <1>1, <1>5 DEF TickLaunchFails, Tick
  <2>2. alloc' = alloc /\ run' = [run EXCEPT ![r].state = "over"]
    BY <1>5 DEF TickLaunchFails
  <2>3. \A q \in RunIds : q # r => run'[q] = run[q]
    BY <2>2 DEF TypeInv, TypeOK
  <2>4. run'[r].state = "over"
    BY <1>3, <2>2 DEF TypeInv, TypeOK, Run
  <2>. alloc[r] = NoNode
    BY <1>1, <1>3 DEF JobsKnown, LedgerKnows, InFlight
  <2>5. JobsKnown'
    BY <1>1, <2>1, <2>2, <2>3, <2>4 DEF JobsKnown
  <2>6. LedgerKnows'
    BY <1>1, <2>1, <2>3, <2>4 DEF LedgerKnows, InFlight
  <2>7. \A m \in Nodes : Taken(m)' = Taken(m)
    BY <1>1, <2>1 DEF Taken
  <2>8. LedgerFits'
    BY <1>1, <2>1, <2>7 DEF LedgerFits
  <2>. QED
    BY <2>5, <2>6, <2>8
<1>6. CASE TickLaunchUnanswered(r, n)
  BY <1>6 DEF TickLaunchUnanswered, Fault, TypeInv, TypeOK
<1>. QED
  BY <1>2, <1>4, <1>5, <1>6

LEMMA MarkKeepsSlots ==
  ASSUME TypeInv, JobsKnown, LedgerKnows, LedgerFits, TickMark
  PROVE  JobsKnown' /\ LedgerKnows' /\ LedgerFits'
<1>1. tick \in Tick /\ tick.pc = "mark" /\ tick.cur \in RunIds /\ tick.on \in Nodes
  BY DEF TickMark, TypeInv, TypeOK, Marking, Tick, IdleTick
<1>2. /\ tick'.pc = "admit" /\ tick'.queue = tick.queue
      /\ tick'.at = [tick.at EXCEPT ![tick.cur] = tick.on]
  BY <1>1 DEF TickMark, Charge, Tick
<1>3. alloc' = alloc /\ run' = [run EXCEPT ![tick.cur] = Dispatched(tick.on)]
  BY DEF TickMark
<1>4. \A r \in RunIds : IF r = tick.cur
                        THEN run'[r].state = "inflight" /\ run'[r].node = tick.on
                        ELSE run'[r] = run[r]
  BY <1>3 DEF TypeInv, TypeOK, Dispatched
<1>5. \A r \in RunIds : tick'.at[r] = IF r = tick.cur THEN tick.on ELSE tick.at[r]
  BY <1>1, <1>2 DEF Tick
<1>. USE DEF TypeInv
<1>6. JobsKnown'
  <2>. SUFFICES ASSUME NEW r \in RunIds, alloc[r] # NoNode
                PROVE  run'[r].state = "inflight" /\ run'[r].node = alloc[r]
    BY <1>3 DEF JobsKnown
  <2>1. CASE r # tick.cur
    BY <1>4, <2>1 DEF JobsKnown
  <2>2. CASE r = tick.cur
    <3>1. tick.at[r] = NoNode
      BY <1>1, <2>2 DEF LedgerKnows
    <3>2. r \in InFlight => tick.on = run[r].node
      BY <1>1, <2>2, <3>1, NoNodeAssumption DEF LedgerKnows, InFlight, TypeOK, Run
    <3>3. tick.on = alloc[r]
      BY <2>2, <3>2 DEF JobsKnown, InFlight
    <3>. QED
      BY <1>4, <2>2, <3>3
  <2>. QED
    BY <2>1, <2>2
<1>7. LedgerKnows'
  BY <1>1, <1>2, <1>4, <1>5 DEF LedgerKnows, InFlight, TypeOK
<1>8. ASSUME NEW n \in Nodes PROVE Cardinality(Taken(n)') <= Slots[n]
  <2>1. Taken(n)' \subseteq Taken(n)
    BY <1>1, <1>2, <1>5 DEF Taken, ChargedTo
  <2>2. Taken(n) \in SUBSET RunIds /\ Slots[n] \in Nat /\ Cardinality(Taken(n)) <= Slots[n]
    BY <1>1, SlotsAssumption DEF Taken, ChargedTo, LedgerFits
  <2>. QED
    BY <2>1, <2>2, PartFits
<1>9. LedgerFits'
  BY <1>2, <1>8 DEF LedgerFits
<1>. QED
  BY <1>6, <1>7, <1>9

LEMMA DoneKeepsSlots ==
  ASSUME TypeInv, JobsKnown, LedgerKnows, LedgerFits, TickDone
  PROVE  JobsKnown' /\ LedgerKnows' /\ LedgerFits'
<1>1. tick.pc = "admit" /\ tick'.pc = "idle" /\ UNCHANGED <<run, alloc>>
  BY DEF TickDone, IdleTick
<1>2. \A n \in Nodes : Cardinality({r \in InFlight : run[r].node = n}) <= Slots[n]
  BY FitsMeansSlots DEF TypeInv
<1>3. LedgerFits'
  BY <1>1, <1>2 DEF LedgerFits, InFlight
<1>. QED
  BY <1>1, <1>3 DEF JobsKnown, LedgerKnows

LEMMA SubmitKeepsSlots ==
  ASSUME TypeInv, JobsKnown, LedgerKnows, LedgerFits, NEW r \in RunIds, Submit(r)
  PROVE  JobsKnown' /\ LedgerKnows' /\ LedgerFits'
<1>1. run[r].state = "new" /\ run' = [run EXCEPT ![r].state = "queued"]
  BY DEF Submit
<1>2. UNCHANGED <<alloc, tick>>
  BY DEF Submit
<1>3. \A q \in RunIds : IF q = r THEN run'[q].state = "queued" ELSE run'[q] = run[q]
  BY <1>1 DEF TypeInv, TypeOK, Run
<1>4. JobsKnown'
  BY <1>1, <1>2, <1>3 DEF JobsKnown
<1>. QED
  BY <1>2, <1>3, <1>4, LedgerKept

\* A run that starts is in flight already, on that node, or is being launched
\* there: without faults a job is placed for no other.
LEMMA StartKeepsSlots ==
  ASSUME TypeInv, JobsKnown, LedgerKnows, LedgerFits, NEW r \in RunIds, RunStarts(r)
  PROVE  JobsKnown' /\ LedgerKnows' /\ LedgerFits'
<1>1. /\ alloc[r] # NoNode
      /\ run' = [run EXCEPT ![r] = [state |-> "inflight", node |-> alloc[r]]]
      /\ UNCHANGED <<alloc, tick>>
  BY DEF RunStarts
<1>2. \A q \in RunIds : IF q = r
                        THEN run'[q].state = "inflight" /\ run'[q].node = alloc[r]
                        ELSE run'[q] = run[q]
  BY <1>1 DEF TypeInv, TypeOK
<1>3. JobsKnown'
  BY <1>1, <1>2 DEF JobsKnown
<1>4. CASE run[r].state = "inflight" /\ run[r].node = alloc[r]
  BY <1>1, <1>2, <1>3, <1>4, LedgerKept
<1>5. CASE tick.pc = "mark" /\ tick.cur = r /\ tick.on = alloc[r]
  <2>1. LedgerKnows'
    BY <1>1, <1>2, <1>5 DEF LedgerKnows, InFlight
  <2>2. \A n \in Nodes : Taken(n)' = Taken(n)
    BY <1>1 DEF Taken
  <2>3. LedgerFits'
    BY <1>1, <1>5, <2>2 DEF LedgerFits
  <2>. QED
    BY <1>3, <2>1, <2>3
<1>. QED
  BY <1>1, <1>4, <1>5 DEF JobsKnown

LEMMA EndKeepsSlots ==
  ASSUME TypeInv, JobsKnown, LedgerKnows, LedgerFits, NEW r \in RunIds, RunEnds(r)
  PROVE  JobsKnown' /\ LedgerKnows' /\ LedgerFits'
<1>1. /\ run' = [run EXCEPT ![r].state = "over"] /\ alloc' = [alloc EXCEPT ![r] = NoNode]
      /\ UNCHANGED tick
  BY DEF RunEnds
<1>2. \A q \in RunIds : IF q = r THEN run'[q].state = "over" /\ alloc'[q] = NoNode
                        ELSE run'[q] = run[q] /\ alloc'[q] = alloc[q]
  BY <1>1 DEF TypeInv, TypeOK, Run
<1>3. JobsKnown'
  BY <1>1, <1>2 DEF JobsKnown
<1>. QED
  BY <1>1, <1>2, <1>3, LedgerKept

LEMMA SlotsStep == TypeInv /\ SlotsInv /\ [Next]_vars => SlotsInv'
<1>. SUFFICES ASSUME TypeInv, SlotsInv, [Next]_vars, faults' = 0
              PROVE  JobsKnown' /\ LedgerKnows' /\ LedgerFits'
  BY DEF SlotsInv
<1>1. faults = 0 /\ ~Restart
  <2>1. faults \in Nat
    BY BoundsAssumption DEF TypeInv, TypeOK
  <2>2. faults' = faults \/ faults' = faults + 1
    BY DEF Next, vars, TickAdmit, TickLaunches, TickLaunch, TickLaunchFails,
           TickLaunchUnanswered, TickMark, TickDone, Submit, RunStarts, RunEnds,
           EditCatalog, Restart, Fault
  <2>. QED
    BY <2>1, <2>2 DEF Restart, Fault
<1>2. JobsKnown /\ LedgerKnows /\ LedgerFits
  BY <1>1 DEF SlotsInv
<1>3. CASE UNCHANGED <<run, alloc, tick>>
  <2>1. JobsKnown' /\ LedgerKnows' /\ LedgerFits'
    BY <1>2, <1>3 DEF JobsKnown, LedgerKnows, LedgerFits, InFlight, Taken
  <2>. QED
    BY <2>1
<1>4. CASE EditCatalog \/ UNCHANGED vars
  BY <1>3, <1>4 DEF EditCatalog, vars
<1>. QED
  BY <1>1, <1>2, <1>4, AdmitKeepsSlots, LaunchKeepsSlots, MarkKeepsSlots, DoneKeepsSlots,
     SubmitKeepsSlots, StartKeepsSlots, EndKeepsSlots DEF Next

\* As long as the master does not crash and every launch is answered, no node
\* has more runs in flight than slots, however the catalog, the inventory and
\* the runs change behind the ledger (newLedger, charge, free, dispatch).
THEOREM NodesAreNotOverCommitted == Spec => []SlotsRespected
<1>1. TypeInv /\ SlotsInv => SlotsRespected
  BY FitsMeansSlots DEF TypeInv, SlotsInv, SlotsRespected
<1>. QED
  BY <1>1, TypeInit, TypeStep, SlotsInit, SlotsStep, PTL DEF Spec

-----------------------------------------------------------------------------
(* Quota rules *)

\* No rule stood in the way of the run being launched.
Allowed == tick.pc = "mark" => ~Blocked(tick, tick.cur, tick.on)

LEMMA BlockedByLedger ==
  ASSUME NEW l, NEW k, k.cat = l.cat, k.at = l.at, NEW r, NEW n
  PROVE  Blocked(k, r, n) = Blocked(l, r, n)
BY DEF Blocked

LEMMA AllowedStep == TypeInv /\ Allowed /\ [Next]_vars => Allowed'
<1>. SUFFICES ASSUME TypeInv, Allowed, [Next]_vars, tick'.pc = "mark"
              PROVE  ~Blocked(tick', tick'.cur, tick'.on)
  BY DEF Allowed
<1>1. CASE UNCHANGED tick
  BY <1>1 DEF Allowed
<1>2. CASE TickLaunches
  <2>1. tick \in Tick /\ tick.pc = "admit" /\ tick.queue \subseteq RunIds
    BY <1>2 DEF TickLaunches, TypeInv, TypeOK, Tick, IdleTick
  <2>. PICK r \in Best(tick) : \E n \in Pick(tick, r) :
         TickLaunch(r, n) \/ TickLaunchFails(r, n) \/ TickLaunchUnanswered(r, n)
    BY <1>2 DEF TickLaunches
  <2>2. PICK n \in Pick(tick, r) :
          TickLaunch(r, n) \/ TickLaunchFails(r, n) \/ TickLaunchUnanswered(r, n)
    OBVIOUS
  <2>3. TickLaunch(r, n)
    BY <2>1, <2>2 DEF TickLaunchFails, TickLaunchUnanswered, Tick
  <2>4. tick'.cat = tick.cat /\ tick'.at = tick.at /\ tick'.cur = r /\ tick'.on = n
    BY <2>1, <2>3 DEF TickLaunch, Tick
  <2>5. ~Blocked(tick, r, n)
    BY <2>1, PicksAreRuns DEF Candidates
  <2>. QED
    BY <2>4, <2>5, BlockedByLedger
<1>3. CASE TickMark
  <2>1. tick \in Tick
    BY <1>3 DEF TickMark, TypeInv, TypeOK, IdleTick
  <2>. QED
    BY <1>3, <2>1 DEF TickMark, Charge, Tick
<1>. QED
  BY <1>1, <1>2, <1>3 DEF Next, vars, TickAdmit, NewLedger, TickDone, IdleTick, Submit,
     RunStarts, RunEnds, EditCatalog, Restart

\* A governing rule is one of those that block looks up for that user (UserCap,
\* TogetherRules).
LEMMA GoverningRuleIsLookedUp ==
  ASSUME NEW cat \in Catalog, NEW u \in Users, NEW rule \in cat.rules, Governs(cat, rule, u)
  PROVE  rule \in UserCap(cat, u, rule.scope) \union TogetherRules(cat, u, rule.scope)
<1>1. CASE rule.together
  BY <1>1 DEF TogetherRules, Governs
<1>2. CASE ~rule.together
  <2>. DEFINE caps  == {r \in cat.rules : ~r.together /\ r.scope = rule.scope /\ Covers(cat, r, u)}
              own   == {r \in caps : r.subject[1] = "user"}
              group == {r \in caps : r.subject[1] = "group"}
  <2>1. rule \in caps
    BY <1>2 DEF Governs
  <2>2. \A q \in caps : \/ Rank(q) < Rank(rule)
                        \/ Rank(q) = Rank(rule) /\ q.max <= rule.max
    BY <1>2 DEF Governs
  <2>3. CASE own # {}
    <3>1. rule.subject[1] = "user"
      BY <2>2, <2>3 DEF Rank
    <3>. QED
      BY <2>1, <2>3, <3>1 DEF UserCap
  <2>4. CASE own = {} /\ group # {}
    <3>1. rule.subject[1] # "user"
      BY <2>1, <2>4
    <3>2. rule.subject[1] = "group"
      BY <2>2, <2>4, <3>1 DEF Rank
    <3>3. \A q \in group : q.max <= rule.max
      BY <2>2, <3>2 DEF Rank
    <3>. QED
      BY <2>1, <2>4, <3>2, <3>3 DEF UserCap
  <2>5. CASE own = {} /\ group = {}
    BY <2>1, <2>5 DEF UserCap
  <2>. QED
    BY <2>3, <2>4, <2>5
<1>. QED
  BY <1>1, <1>2

\* While a launch is under way, runs in flight are charged, or being launched.
LEMMA PlacedIsCharged ==
  ASSUME TypeInv, LedgerKnows, tick.pc = "mark", NEW r \in RunIds
  PROVE  /\ tick.at[tick.cur] = NoNode
         /\ Placement(run)[r] # NoNode =>
              \/ r # tick.cur /\ Placement(run)[r] = tick.at[r]
              \/ r = tick.cur /\ Placement(run)[r] = tick.on
BY DEF LedgerKnows, Placement, InFlight

\* A step then puts no run in flight but the one being launched.
LEMMA OnlyTheLaunched ==
  ASSUME TypeInv, JobsKnown, LedgerKnows, tick.pc = "mark", [Next]_vars, NEW r \in RunIds
  PROVE  Placement(run')[r] # NoNode =>
           \/ Placement(run')[r] = Placement(run)[r]
           \/ r = tick.cur /\ Placement(run')[r] = tick.on
<1>. USE DEF Placement, TypeInv, TypeOK
<1>1. CASE TickMark
  BY <1>1 DEF TickMark, Dispatched
<1>2. ASSUME NEW q \in RunIds, Submit(q) \/ RunEnds(q)
      PROVE  run'[r].state = "inflight" => run'[r] = run[r]
  BY <1>2 DEF Submit, RunEnds, Run
<1>3. ASSUME NEW q \in RunIds, RunStarts(q)
      PROVE  run'[r].state = "inflight" =>
               \/ run'[r].node = run[r].node /\ run[r].state = "inflight"
               \/ r = tick.cur /\ run'[r].node = tick.on
  BY <1>3 DEF RunStarts, JobsKnown
<1>4. CASE Restart
  <2>1. run'[r].state # "inflight"
    BY <1>4 DEF Restart, InFlight, Run
  <2>. QED
    BY <2>1
<1>5. CASE UNCHANGED run
  BY <1>5
<1>. QED
  BY <1>1, <1>2, <1>3, <1>4, <1>5 DEF Next, vars, TickAdmit, TickLaunches, TickDone, EditCatalog

\* What a governing rule counts after such a step is what it counted before, or
\* what the ledger counted, with the launched run: at most its limit.
LEMMA LimitKept ==
  ASSUME TypeInv, JobsKnown, LedgerKnows, Allowed, tick.pc = "mark", [Next]_vars,
         NEW rule \in tick.cat.rules, NEW u \in Users, Governs(tick.cat, rule, u)
  PROVE  \/ Usage(tick.cat, run', rule, u) <= Usage(tick.cat, run, rule, u)
         \/ Usage(tick.cat, run', rule, u) <= rule.max
<1>. DEFINE before == Counted(tick.cat, Placement(run), rule, u)
            after  == Counted(tick.cat, Placement(run'), rule, u)
            seen   == Counted(tick.cat, tick.at, rule, u)
<1>1. tick \in Tick /\ tick.cur \in RunIds /\ tick.on \in Nodes
  BY DEF TypeInv, TypeOK, Marking, Tick, IdleTick
<1>2. tick.cat \in Catalog /\ rule \in QuotaRule /\ rule.max \in Nat
  BY <1>1, CatalogsAssumption DEF Tick, Catalog, QuotaRule
<1>3. before \in SUBSET RunIds /\ after \in SUBSET RunIds /\ seen \in SUBSET RunIds
  BY DEF Counted, Charged
<1>4. Cardinality(before) \in Nat
  BY <1>3, RunIdsAssumption, FS_Subset, FS_CardinalityType
<1>5. CASE tick.cur \notin after
  <2>1. after \subseteq before
    BY <1>5, OnlyTheLaunched DEF Counted, Charged
  <2>2. Cardinality(after) <= Cardinality(before)
    BY <1>3, <1>4, <2>1, PartFits
  <2>. QED
    BY <2>2 DEF Usage
<1>6. CASE tick.cur \in after
  <2>1. Placement(run')[tick.cur] = tick.on
    BY <1>1, <1>6, OnlyTheLaunched, PlacedIsCharged DEF Counted, Charged
  <2>2. \A r \in after : r # tick.cur => Placement(run')[r] = tick.at[r]
    BY <1>3, OnlyTheLaunched, PlacedIsCharged DEF Counted, Charged
  <2>3. after \subseteq seen \union {tick.cur}
    BY <2>2 DEF Counted, Charged
  <2>4. /\ InScope(tick.cat, tick.cur, tick.on, rule.scope)
        /\ IF rule.together THEN Covers(tick.cat, rule, Job[tick.cur].user)
                            ELSE Job[tick.cur].user = u
    BY <1>6, <2>1 DEF Counted
  <2>5. rule.scope \in Scopes(tick.cat, tick.cur, tick.on)
    BY <2>4 DEF InScope, Scopes
  <2>6. rule \in UserCap(tick.cat, Job[tick.cur].user, rule.scope)
                   \union TogetherRules(tick.cat, Job[tick.cur].user, rule.scope)
    <3>1. CASE rule.together
      BY <2>4, <3>1 DEF TogetherRules
    <3>2. CASE ~rule.together
      BY <1>2, <2>4, <3>2, GoverningRuleIsLookedUp
    <3>. QED
      BY <3>1, <3>2
  <2>7. Counted(tick.cat, tick.at, rule, Job[tick.cur].user) = seen
    BY <2>4 DEF Counted
  <2>8. ~(Cardinality(seen) >= rule.max)
    BY <2>5, <2>6, <2>7 DEF Allowed, Blocked
  <2>9. Cardinality(seen) < rule.max
    BY <1>2, <1>3, <2>8, RunIdsAssumption, FS_Subset, FS_CardinalityType
  <2>10. Cardinality(seen \union {tick.cur}) <= rule.max
    BY <1>1, <1>2, <1>3, <2>9, OneMoreFits
  <2>11. Cardinality(after) <= rule.max
    BY <1>1, <1>2, <1>3, <2>3, <2>10, PartFits
  <2>. QED
    BY <2>11 DEF Usage
<1>. QED
  BY <1>5, <1>6

\* Before any fault, a launch takes no rule of the pass's catalog past its
\* limit, for any user it governs: the scopes looked at, the rules looked up and
\* the runs counted by the ledger are all that matter (block, count, UserCap).
THEOREM RulesAreRespected == Spec => RulesRespected
<1>. DEFINE Respected ==
       tick.pc = "mark" /\ faults = 0 =>
         \A rule \in tick.cat.rules, u \in Users :
           Governs(tick.cat, rule, u) =>
             \/ Usage(tick.cat, run', rule, u) <= Usage(tick.cat, run, rule, u)
             \/ Usage(tick.cat, run', rule, u) <= rule.max
<1>1. TypeInv /\ SlotsInv /\ Allowed /\ [Next]_vars => [Respected]_vars
  BY LimitKept DEF SlotsInv
<1>2. Init => Allowed
  BY DEF Init, Allowed, IdleTick
<1>3. Spec => [][Respected]_vars
  BY <1>1, <1>2, TypeInit, TypeStep, SlotsInit, SlotsStep, AllowedStep, PTL DEF Spec
<1>. QED
  BY <1>3 DEF RulesRespected

-----------------------------------------------------------------------------
(* The loop that finds the next run *)

\* The loop holds the run that comes first among those looked at, if any of
\* them may start.
Leads(l, best, seen) ==
  IF \E r \in seen : Eligible(l, r)
  THEN best \in seen /\ Eligible(l, best) /\ \A q \in seen : Eligible(l, q) => Precedes(l, best, q)
  ELSE best = NoRun

\* Before the first turn of the loop nothing has been looked at.
LEMMA ScanStarts == \A l : Leads(l, NoRun, {})
BY DEF Leads

\* The numbers that Precedes compares.
LEMMA JobNumbers ==
  ASSUME NEW r \in RunIds, NEW at
  PROVE  /\ Job[r].priority \in Int /\ Job[r].queuedAt \in Int
         /\ ByUser(at, Job[r].user) \in Int
<1>1. Job[r].priority \in Int /\ Job[r].queuedAt \in Int
  BY JobAssumption
<1>2. {q \in Charged(at) : Job[q].user = Job[r].user} \subseteq RunIds
  BY DEF Charged
<1>3. IsFiniteSet({q \in Charged(at) : Job[q].user = Job[r].user})
  BY <1>2, RunIdsAssumption, FS_Subset
<1>4. ByUser(at, Job[r].user) \in Nat
  BY <1>3, FS_CardinalityType DEF ByUser
<1>. QED
  BY <1>1, <1>4

\* A turn of the loop that meets the runs by priority and age keeps the lead:
\* skipping a run that may not start, staying with the first once the priority
\* drops, and changing over only to a user who holds fewer slots never pass over
\* the run that should come first (admit, the loop with its early break).
THEOREM ScanKeepsLead ==
  ASSUME NEW l, NEW seen \in SUBSET RunIds, NEW best, Leads(l, best, seen),
         NEW r \in RunIds, \A q \in seen : ~QueueOrder(r, q)
  PROVE  Leads(l, Scan(l, best, r), seen \union {r})
<1>1. CASE ~Eligible(l, r)
  BY <1>1 DEF Scan, Leads
<1>2. CASE Eligible(l, r) /\ ~\E q \in seen : Eligible(l, q)
  <2>1. Scan(l, best, r) = r
    BY <1>2 DEF Scan, Leads
  <2>2. Precedes(l, r, r)
    BY JobNumbers DEF Precedes
  <2>. QED
    BY <1>2, <2>1, <2>2 DEF Leads
<1>3. CASE Eligible(l, r) /\ \E q \in seen : Eligible(l, q)
  <2>1. /\ best \in seen /\ best \in RunIds /\ best # NoRun /\ Eligible(l, best)
        /\ \A q \in seen : Eligible(l, q) => Precedes(l, best, q)
    BY <1>3, NoRunAssumption DEF Leads
  <2>2. PICK held \in [RunIds -> Int] : \A q \in RunIds : held[q] = ByUser(l.at, Job[q].user)
    <3>1. [q \in RunIds |-> ByUser(l.at, Job[q].user)] \in [RunIds -> Int]
      BY JobNumbers
    <3>. QED
      BY <3>1
  <2>3. \A p, q \in RunIds :
          Precedes(l, p, q) <=>
            \/ Job[p].priority > Job[q].priority
            \/ /\ Job[p].priority = Job[q].priority
               /\ held[p] < held[q] \/ (held[p] = held[q] /\ Job[p].queuedAt <= Job[q].queuedAt)
    BY <2>2 DEF Precedes
  <2>4. \A q \in RunIds : Job[q].priority \in Int /\ Job[q].queuedAt \in Int
    BY JobNumbers
  <2>5. \/ Job[best].priority > Job[r].priority
        \/ Job[best].priority = Job[r].priority /\ Job[best].queuedAt <= Job[r].queuedAt
    BY <2>1, <2>4 DEF QueueOrder
  <2>6. Scan(l, best, r) = IF Job[best].priority = Job[r].priority /\ held[r] < held[best]
                           THEN r ELSE best
    BY <1>3, <2>1, <2>2, <2>4, <2>5 DEF Scan
  <2>7. CASE Job[best].priority = Job[r].priority /\ held[r] < held[best]
    <3>1. \A q \in seen : Eligible(l, q) => Precedes(l, r, q)
      BY <2>1, <2>3, <2>4, <2>7
    <3>2. Precedes(l, r, r)
      BY <2>3, <2>4
    <3>. QED
      BY <1>3, <2>6, <2>7, <3>1, <3>2 DEF Leads
  <2>8. CASE ~(Job[best].priority = Job[r].priority /\ held[r] < held[best])
    <3>1. Precedes(l, best, r)
      BY <2>1, <2>3, <2>4, <2>5, <2>8
    <3>. QED
      BY <1>3, <2>1, <2>6, <2>8, <3>1 DEF Leads
  <2>. QED
    BY <2>7, <2>8
<1>. QED
  BY <1>1, <1>2, <1>3

\* When the whole queue has been looked at, the run the loop holds is one that
\* comes first in it, and it holds none only if none may start.
THEOREM LeadIsBest ==
  ASSUME NEW l, NEW best, Leads(l, best, l.queue)
  PROVE  IF Best(l) = {} THEN best = NoRun ELSE best \in Best(l)
BY DEF Leads, Best

-----------------------------------------------------------------------------
(* The whole loop.  The provers know no induction; in its stead a set of    *)
(* counterexamples, were it not empty, would have a least member.           *)

LEMMA LeastNumber ==
  ASSUME NEW T \in SUBSET Nat, T # {}
  PROVE  \E m \in T : \A k \in T : m <= k
<1>. DEFINE Below == {0..m : m \in T}
<1>1. Below \subseteq FiniteSubsetsOf(Nat)
  <2>1. ASSUME NEW m \in T PROVE 0..m \in FiniteSubsetsOf(Nat)
    BY FS_Interval DEF FiniteSubsetsOf
  <2>. QED
    BY <2>1
<1>2. Below # {}
  OBVIOUS
<1>3. IsWellFoundedOn(StrictSubsetOrdering(Nat), FiniteSubsetsOf(Nat))
  BY FS_StrictSubsetOrderingWellFounded
<1>. HIDE DEF Below
<1>4. PICK low \in Below : \A s \in Below : <<s, low>> \notin StrictSubsetOrdering(Nat)
  BY <1>1, <1>2, <1>3, WFMin
<1>5. PICK m \in T : low = 0..m
  BY DEF Below
<1>6. ASSUME NEW k \in T, k < m PROVE FALSE
  <2>1. 0..k \in Below
    BY DEF Below
  <2>2. 0..k \subseteq 0..m /\ m \in 0..m /\ m \notin 0..k
    BY <1>6
  <2>3. <<0..k, 0..m>> \in StrictSubsetOrdering(Nat)
    BY <2>2 DEF StrictSubsetOrdering
  <2>. QED
    BY <1>4, <1>5, <2>1, <2>3
<1>. QED
  BY <1>6

\* Priority and age put a queue in a strict order.
LEMMA QueueOrderIsStrict ==
  /\ \A p \in RunIds : ~QueueOrder(p, p)
  /\ \A p, q, r \in RunIds : QueueOrder(p, q) /\ QueueOrder(q, r) => QueueOrder(p, r)
BY JobNumbers DEF QueueOrder

\* What holds of a set of runs whenever it holds of the smaller ones holds of
\* every set of runs: those of which it fails would have a smallest among them.
LEMMA SmallestSet ==
  ASSUME NEW F \in SUBSET (SUBSET RunIds), F # {}
  PROVE  \E S \in F : \A T \in F : T \subseteq S => T = S
<1>1. FiniteSubsetsOf(RunIds) = SUBSET RunIds
  BY RunIdsAssumption, FS_FiniteSubsetsOfFinite
<1>2. IsWellFoundedOn(StrictSubsetOrdering(RunIds), SUBSET RunIds)
  BY <1>1, FS_StrictSubsetOrderingWellFounded
<1>3. PICK S \in F : \A T \in F : <<T, S>> \notin StrictSubsetOrdering(RunIds)
  BY <1>2, WFMin
<1>. QED
  BY <1>3 DEF StrictSubsetOrdering

\* Some run of a queue need not come before any other.
LEMMA QueueHasLast ==
  ASSUME NEW S \in SUBSET RunIds, S # {}
  PROVE  \E r \in S : \A q \in S : ~QueueOrder(r, q)
<1>. DEFINE Ends(T) == \E r \in T : \A q \in T : ~QueueOrder(r, q)
            Endless == {T \in SUBSET RunIds : T # {} /\ ~Ends(T)}
<1>1. SUFFICES Endless = {}
  OBVIOUS
<1>2. SUFFICES ASSUME Endless # {} PROVE FALSE
  OBVIOUS
<1>3. PICK T \in Endless : \A U \in Endless : U \subseteq T => U = T
  <2>1. Endless \in SUBSET (SUBSET RunIds)
    OBVIOUS
  <2>. HIDE DEF Endless
  <2>. QED
    BY <1>2, <2>1, SmallestSet
<1>4. PICK x \in T : TRUE
  OBVIOUS
<1>5. CASE T = {x}
  BY <1>5, QueueOrderIsStrict
<1>6. CASE T # {x}
  <2>1. Ends(T \ {x})
    <3>1. T \ {x} \in SUBSET RunIds /\ T \ {x} # {} /\ T \ {x} \subseteq T /\ T \ {x} # T
      BY <1>3, <1>4, <1>6
    <3>2. T \ {x} \notin Endless
      BY <1>3, <3>1
    <3>. QED
      BY <3>1, <3>2
  <2>2. PICK y \in T \ {x} : \A q \in T \ {x} : ~QueueOrder(y, q)
    BY <2>1
  <2>3. CASE QueueOrder(y, x)
    BY <2>2, <2>3, QueueOrderIsStrict
  <2>4. CASE ~QueueOrder(y, x)
    BY <2>2, <2>4
  <2>. QED
    BY <2>3, <2>4
<1>. QED
  BY <1>5, <1>6

\* Every queue can be sorted, so the statements below about sorted queues are
\* about every queue (admit, SliceStable).
THEOREM QueueCanBeSorted ==
  ASSUME NEW S \in SUBSET RunIds
  PROVE  Sorted(S) # {}
<1>. DEFINE Unsorted == {T \in SUBSET RunIds : Sorted(T) = {}}
<1>1. SUFFICES ASSUME Unsorted # {} PROVE FALSE
  OBVIOUS
<1>2. PICK T \in Unsorted : \A U \in Unsorted : U \subseteq T => U = T
  <2>1. Unsorted \in SUBSET (SUBSET RunIds)
    OBVIOUS
  <2>. HIDE DEF Unsorted
  <2>. QED
    BY <1>1, <2>1, SmallestSet
<1>3. IsFiniteSet(T) /\ Cardinality(T) \in Nat
  BY RunIdsAssumption, FS_Subset, FS_CardinalityType
<1>4. CASE T = {}
  <2>1. Cardinality(T) = 0
    BY <1>4, FS_EmptySet
  <2>2. [i \in 1..0 |-> i] \in Sorted(T)
    BY <1>4, <2>1 DEF Sorted
  <2>. QED
    BY <2>2
<1>5. CASE T # {}
  <2>1. PICK r \in T : \A q \in T : ~QueueOrder(r, q)
    BY <1>5, QueueHasLast
  <2>2. PICK q \in Sorted(T \ {r}) : TRUE
    BY <1>2, <2>1
  <2>. DEFINE n == Cardinality(T)
              s == [i \in 1..n |-> IF i = n THEN r ELSE q[i]]
  <2>3. Cardinality(T \ {r}) = n - 1 /\ n \in Nat \ {0}
    BY <1>3, <1>5, <2>1, FS_RemoveElement, FS_EmptySet
  <2>4. /\ q \in [1..(n - 1) -> T \ {r}]
        /\ \A i, j \in 1..(n - 1) : i < j => q[i] # q[j] /\ ~QueueOrder(q[j], q[i])
    BY <2>3 DEF Sorted
  <2>. HIDE DEF n
  <2>5. s \in [1..n -> T]
    BY <2>1, <2>3, <2>4
  <2>6. ASSUME NEW i \in 1..n, NEW j \in 1..n, i < j
        PROVE  s[i] # s[j] /\ ~QueueOrder(s[j], s[i])
    <3>1. i \in 1..(n - 1) /\ i # n /\ s[i] = q[i] /\ q[i] \in T \ {r}
      BY <2>3, <2>4, <2>6
    <3>2. CASE j = n
      BY <2>1, <3>1, <3>2
    <3>3. CASE j # n
      <4>1. j \in 1..(n - 1) /\ s[j] = q[j]
        BY <2>3, <3>3
      <4>. QED
        BY <2>4, <2>6, <3>1, <4>1
    <3>. QED
      BY <3>2, <3>3
  <2>7. s \in Sorted(T)
    BY <2>5, <2>6 DEF Sorted, n
  <2>. QED
    BY <2>7
<1>. QED
  BY <1>4, <1>5

\* A sorted queue has every run of the queue in it.
LEMMA SortedIsAll ==
  ASSUME NEW S \in SUBSET RunIds, NEW q \in Sorted(S)
  PROVE  /\ Cardinality(S) \in Nat
         /\ \A i \in 1..Cardinality(S) : q[i] \in S
         /\ S = {q[i] : i \in 1..Cardinality(S)}
<1>. DEFINE n == Cardinality(S)
<1>1. IsFiniteSet(S) /\ n \in Nat
  BY RunIdsAssumption, FS_Subset, FS_CardinalityType
<1>2. q \in [1..n -> S] /\ \A i, j \in 1..n : i < j => q[i] # q[j]
  BY DEF Sorted
<1>3. IsFiniteSet(1..n) /\ Cardinality(1..n) = n
  BY <1>1, FS_Interval
<1>. HIDE DEF n
<1>4. \A i, j \in 1..n : q[i] = q[j] => i = j
  BY <1>1, <1>2
<1>5. q \in Injection(1..n, S)
  BY <1>2, <1>4 DEF Injection, IsInjective
<1>6. q \in Surjection(1..n, S)
  BY <1>1, <1>3, <1>5, FS_Injection DEF n
<1>. QED
  BY <1>1, <1>2, <1>6 DEF Surjection, n

\* The turns of the loop follow one another: what it holds after the first i of
\* q is what it made of the i-th and what it held before.
LEMMA ScanTurns ==
  ASSUME NEW l, NEW q, NEW n \in Nat
  PROVE  \E lead : lead = [i \in 0..n |-> IF i = 0 THEN NoRun ELSE Scan(l, lead[i - 1], q[i])]
<1>. DEFINE Turns(k, f) == f = [i \in 0..k |-> IF i = 0 THEN NoRun ELSE Scan(l, f[i - 1], q[i])]
            Endless == {k \in Nat : ~\E f : Turns(k, f)}
<1>1. SUFFICES Endless = {}
  OBVIOUS
<1>2. SUFFICES ASSUME Endless # {} PROVE FALSE
  OBVIOUS
<1>3. PICK m \in Endless : \A k \in Endless : m <= k
  BY <1>2, LeastNumber
<1>4. m # 0
  <2>1. Turns(0, [i \in 0..0 |-> NoRun])
    OBVIOUS
  <2>. QED
    BY <2>1
<1>5. m - 1 \in Nat /\ m - 1 \notin Endless
  <2>. HIDE DEF Turns
  <2>1. m \in Nat
    OBVIOUS
  <2>2. m - 1 \in Nat /\ ~(m <= m - 1)
    BY <1>4, <2>1
  <2>3. m - 1 \notin Endless
    BY <1>3, <2>2
  <2>. QED
    BY <2>2, <2>3
<1>6. PICK f : Turns(m - 1, f)
  BY <1>5
<1>. DEFINE g == [i \in 0..m |-> IF i = 0 THEN NoRun ELSE Scan(l, f[i - 1], q[i])]
<1>7. \A i \in 0..(m - 1) : g[i] = f[i]
  BY <1>3, <1>6
<1>8. \A i \in 0..m : i # 0 => i - 1 \in 0..(m - 1)
  BY <1>3
<1>9. Turns(m, g)
  BY <1>7, <1>8
<1>. QED
  BY <1>9

\* The loop finds a run that no other eligible one precedes, or that there is
\* none: for every ledger and every queue, in whatever order the sort leaves it
\* (admit).
THEOREM ScanIsRight ==
  ASSUME NEW l, l.queue \in SUBSET RunIds, NEW q \in Sorted(l.queue)
  PROVE  IF Best(l) = {} THEN ScanQueue(l, q) = NoRun ELSE ScanQueue(l, q) \in Best(l)
<1>. DEFINE n == Cardinality(l.queue)
            Turns(f) == f = [i \in 0..n |-> IF i = 0 THEN NoRun ELSE Scan(l, f[i - 1], q[i])]
            lead == CHOOSE f : Turns(f)
            Met(k) == {q[i] : i \in 1..k}
            Astray == {k \in 0..n : ~Leads(l, lead[k], Met(k))}
<1>1. n \in Nat /\ l.queue = Met(n) /\ \A i \in 1..n : q[i] \in l.queue
  BY SortedIsAll
<1>2. \A i, j \in 1..n : i < j => ~QueueOrder(q[j], q[i])
  BY DEF Sorted
<1>3. ScanQueue(l, q) = lead[n]
  BY DEF ScanQueue
<1>. HIDE DEF n
<1>4. Turns(lead)
  BY <1>1, ScanTurns
<1>. HIDE DEF lead
<1>5. Leads(l, lead[0], Met(0))
  <2>1. lead[0] = NoRun /\ Met(0) = {}
    BY <1>1, <1>4
  <2>. QED
    BY <2>1, ScanStarts
<1>6. ASSUME NEW m \in 1..n, Leads(l, lead[m - 1], Met(m - 1))
      PROVE  Leads(l, lead[m], Met(m))
  <2>1. m - 1 \in 0..n /\ m \in 0..n /\ m # 0
    BY <1>1
  <2>2. lead[m] = Scan(l, lead[m - 1], q[m])
    BY <1>4, <2>1
  <2>3. Met(m) = Met(m - 1) \union {q[m]}
    BY <1>1
  <2>4. Met(m - 1) \in SUBSET RunIds /\ q[m] \in RunIds
    BY <1>1
  <2>5. \A p \in Met(m - 1) : ~QueueOrder(q[m], p)
    BY <1>1, <1>2
  <2>. HIDE DEF Met
  <2>. QED
    BY <1>6, <2>2, <2>3, <2>4, <2>5, ScanKeepsLead
<1>7. Astray = {}
  <2>. SUFFICES ASSUME Astray # {} PROVE FALSE
    OBVIOUS
  <2>1. Astray \in SUBSET Nat
    OBVIOUS
  <2>2. PICK m \in Astray : \A k \in Astray : m <= k
    BY <2>1, LeastNumber
  <2>3. m # 0
    BY <1>5
  <2>. HIDE DEF Met
  <2>4. m \in 0..n /\ ~Leads(l, lead[m], Met(m))
    OBVIOUS
  <2>5. m \in 1..n /\ m - 1 \in 0..n /\ ~(m <= m - 1)
    BY <1>1, <2>3, <2>4
  <2>6. m - 1 \notin Astray
    BY <2>2, <2>5
  <2>. QED
    BY <1>6, <2>4, <2>5, <2>6
<1>8. Leads(l, lead[n], l.queue)
  <2>1. n \in 0..n
    BY <1>1
  <2>. HIDE DEF Met
  <2>. QED
    BY <1>1, <1>7, <2>1
<1>. QED
  BY <1>3, <1>8, LeadIsBest

\* What a pass launches next is what the loop of admit finds, in every pass.
THEOREM ScanFindsTheBest == Spec => []ScanFindsBest
<1>1. TypeInv => ScanFindsBest
  <2>. SUFFICES ASSUME TypeInv, tick.pc = "admit", NEW q \in Sorted(tick.queue)
                PROVE  IF Best(tick) = {} THEN ScanQueue(tick, q) = NoRun
                                          ELSE ScanQueue(tick, q) \in Best(tick)
    BY DEF ScanFindsBest
  <2>1. tick.queue \in SUBSET RunIds
    BY DEF TypeInv, TypeOK, Tick, IdleTick
  <2>. QED
    BY <2>1, ScanIsRight
<1>. QED
  BY <1>1, TypeInit, TypeStep, PTL DEF Spec
=============================================================================
