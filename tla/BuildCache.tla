----------------------------- MODULE BuildCache -----------------------------
(***************************************************************************)
(* One entry of a node's build cache: the runners of the node's slots that *)
(* want the same build at the same time, the lock file they fetch it       *)
(* under, the two directories an entry goes through, and the node agent    *)
(* that prunes entries nobody used for a while.  Entries have files and a  *)
(* lock of their own, so one of them is enough.                            *)
(*                                                                         *)
(* A step is one system call on a file that others use, or a group of them *)
(* that nobody else can tell apart.                                        *)
(***************************************************************************)
EXTENDS Naturals, FiniteSets

CONSTANTS
  Runners,     \* runner processes of the node, one after the other in a slot
  NoRunner,
  SlowHolders, \* whether a live runner may hold the lock past its 30 minutes
  MaxCrashes   \* runners killed while in Ensure or at work (bounds the model)

ASSUME NoRunnerAssumption == NoRunner \notin Runners
ASSUME BoundsAssumption == SlowHolders \in BOOLEAN /\ MaxCrashes \in Nat

VARIABLES
  pc,       \* where each runner is in Ensure
  lock,     \* <key>.lock
  staging,  \* <key>.staging
  dir,      \* <key>
  pruner,   \* the node agent inside PruneCache
  doubled,  \* history: a runner took the lock while another one held it
  raced,    \* history: a runner took the entry while it was being pruned
  crashes   \* runners killed so far

vars == <<pc, lock, staging, dir, pruner, doubled, raced, crashes>>

-----------------------------------------------------------------------------

Absent == [there |-> FALSE]

(* <key>.staging: the download in it, by whom, and what is unpacked of it.  *)
Staging == [there: {TRUE}, by: Runners \union {NoRunner}, whole: BOOLEAN,
            payload: {"none", "partial", "whole"}, ready: BOOLEAN]

EmptyStaging == [there |-> TRUE, by |-> NoRunner, whole |-> FALSE,
                 payload |-> "none", ready |-> FALSE]

(* <key>: the payload, the .ready marker, and whether that is older than    *)
(* cache_keep.                                                             *)
Entry == [there: {TRUE}, payload: {"none", "partial", "whole"},
          ready: BOOLEAN, old: BOOLEAN]

Holding == {"recheck", "clearStaging", "clearDir", "create", "fetch", "unpack",
            "mark", "publish", "releaseOk", "releaseFail"}

Holders == {r \in Runners : pc[r] \in Holding}

Ready == dir.there /\ dir.ready

TypeOK ==
  /\ pc \in [Runners -> {"idle", "acquire", "steal", "wait", "using"} \union Holding]
  /\ lock \in {"free", "fresh", "stale"}
  /\ staging \in {Absent} \union Staging
  /\ dir \in {Absent} \union Entry
  /\ pruner \in {"idle", "judged", "removing"}
  /\ doubled \in BOOLEAN
  /\ raced \in BOOLEAN
  /\ crashes \in 0 .. MaxCrashes

Init ==
  /\ pc = [r \in Runners |-> "idle"]
  /\ lock = "free"
  /\ staging = Absent
  /\ dir = Absent
  /\ pruner = "idle"
  /\ doubled = FALSE
  /\ raced = FALSE
  /\ crashes = 0

Goto(r, where) == pc' = [pc EXCEPT ![r] = where]

DiskUnchanged == UNCHANGED <<staging, dir, pruner>>
HistoryUnchanged == UNCHANGED <<doubled, raced, crashes>>

(* A runner found the marker and goes on to use the entry.                  *)
Takes == /\ raced' = (raced \/ pruner # "idle")
         /\ UNCHANGED <<doubled, crashes>>

-----------------------------------------------------------------------------
(* Ensure: the marker, then the lock                                        *)

(* A hit touches the marker, which keeps the agent from pruning the entry.  *)
Hit(r) ==
  /\ pc[r] = "idle"
  /\ Ready
  /\ dir' = [dir EXCEPT !.old = FALSE]
  /\ Goto(r, "using")
  /\ Takes
  /\ UNCHANGED <<lock, staging, pruner>>

Miss(r) ==
  /\ pc[r] = "idle"
  /\ ~Ready
  /\ Goto(r, "acquire")
  /\ DiskUnchanged /\ HistoryUnchanged /\ UNCHANGED lock

(* A lock that vanishes between the failed open and the look at its age is  *)
(* one still held, to the runner that looks.                                *)
Acquire(r) ==
  /\ pc[r] = "acquire"
  /\ \/ /\ lock = "free"
        /\ lock' = "fresh"
        /\ Goto(r, "recheck")
        /\ doubled' = (doubled \/ Holders # {})
     \/ /\ lock = "stale"
        /\ Goto(r, "steal")
        /\ UNCHANGED <<lock, doubled>>
     \/ /\ lock = "fresh"
        /\ Goto(r, "wait")
        /\ UNCHANGED <<lock, doubled>>
  /\ DiskUnchanged /\ UNCHANGED <<raced, crashes>>

(* The lock file removed is the one there is now, not the one looked at.    *)
Steal(r) ==
  /\ pc[r] = "steal"
  /\ lock' = "free"
  /\ Goto(r, "acquire")
  /\ DiskUnchanged /\ HistoryUnchanged

(* waitReady: until the marker is there, or for 30 minutes.                 *)
WaitEnds(r) ==
  /\ pc[r] = "wait"
  /\ Ready
  /\ Goto(r, "using")
  /\ Takes
  /\ DiskUnchanged /\ UNCHANGED lock

\* Mutant: the deadline is computed anew at each turn.
WaitTimesOutNever(r) == pc[r] = "wait" /\ UNCHANGED vars

WaitTimesOut(r) ==
  /\ pc[r] = "wait"
  /\ Goto(r, "idle")
  /\ DiskUnchanged /\ HistoryUnchanged /\ UNCHANGED lock

\* Mutant: the second look at the marker is left out.
RecheckNever(r) ==
  /\ pc[r] = "recheck"
  /\ Goto(r, "clearStaging")
  /\ DiskUnchanged /\ HistoryUnchanged /\ UNCHANGED lock

Recheck(r) ==
  /\ pc[r] = "recheck"
  /\ \/ /\ Ready
        /\ Goto(r, "releaseOk")
        /\ Takes
     \/ /\ ~Ready
        /\ Goto(r, "clearStaging")
        /\ HistoryUnchanged
  /\ DiskUnchanged /\ UNCHANGED lock

-----------------------------------------------------------------------------
(* Ensure: the fetch.  Every name is resolved anew, so with two holders one *)
(* can meet the other's files.                                              *)

ClearStaging(r) ==
  /\ pc[r] = "clearStaging"
  /\ staging' = Absent
  /\ Goto(r, "clearDir")
  /\ HistoryUnchanged /\ UNCHANGED <<lock, dir, pruner>>

(* If the agent is half-way through removing the same directory, nothing of *)
(* it is left for the agent.                                                *)
ClearDir(r) ==
  /\ pc[r] = "clearDir"
  /\ dir' = Absent
  /\ pruner' = IF pruner = "removing" THEN "idle" ELSE pruner
  /\ staging' = IF staging.there THEN staging ELSE EmptyStaging
  /\ Goto(r, "create")
  /\ HistoryUnchanged /\ UNCHANGED lock

CreateDownload(r) ==
  /\ pc[r] = "create"
  /\ \/ /\ staging.there
        /\ staging' = [staging EXCEPT !.by = r, !.whole = FALSE]
        /\ Goto(r, "fetch")
     \/ /\ ~staging.there
        /\ UNCHANGED staging
        /\ Goto(r, "releaseFail")
  /\ HistoryUnchanged /\ UNCHANGED <<lock, dir, pruner>>

(* The transfer ends, with the right checksum or not; the bytes are in the  *)
(* file the runner opened, which may no longer be the one in staging.       *)
Download(r) ==
  /\ pc[r] = "fetch"
  /\ \/ /\ staging' = CASE ~staging.there -> EmptyStaging
                        [] staging.there /\ staging.by = r -> [staging EXCEPT !.whole = TRUE]
                        [] OTHER -> staging
        /\ Goto(r, "unpack")
     \/ /\ UNCHANGED staging
        /\ Goto(r, "releaseFail")
  /\ HistoryUnchanged /\ UNCHANGED <<lock, dir, pruner>>

\* Mutant: an error of the extraction is dropped.
ExtractedAnyhow(whole) ==
  {[payload |-> "whole", ok |-> whole], [payload |-> "partial", ok |-> TRUE]}

(* What extracting the file can come to.  A damaged archive is an error, a  *)
(* file cut short at a block of a plain tar, or moved as it is, is none.    *)
Extracted(whole) ==
  IF whole THEN {[payload |-> "whole", ok |-> TRUE], [payload |-> "partial", ok |-> FALSE]}
           ELSE {[payload |-> "partial", ok |-> TRUE], [payload |-> "partial", ok |-> FALSE]}

Unpack(r) ==
  /\ pc[r] = "unpack"
  /\ \/ /\ staging.there /\ staging.by # NoRunner
        /\ \E x \in Extracted(staging.whole) :
             /\ staging' = [staging EXCEPT !.payload = x.payload,
                              !.by = IF x.ok THEN NoRunner ELSE @]
             /\ Goto(r, IF x.ok THEN "mark" ELSE "releaseFail")
     \/ /\ ~(staging.there /\ staging.by # NoRunner)
        /\ UNCHANGED staging
        /\ Goto(r, "releaseFail")
  /\ HistoryUnchanged /\ UNCHANGED <<lock, dir, pruner>>

Mark(r) ==
  /\ pc[r] = "mark"
  /\ \/ /\ staging.there
        /\ staging' = [staging EXCEPT !.ready = TRUE]
        /\ Goto(r, "publish")
     \/ /\ ~staging.there
        /\ UNCHANGED staging
        /\ Goto(r, "releaseFail")
  /\ HistoryUnchanged /\ UNCHANGED <<lock, dir, pruner>>

\* Mutant: the entry keeps the shape, and so the age, it had in staging.
PublishAsIs(r) ==
  /\ pc[r] = "publish"
  /\ staging.there /\ ~dir.there
  /\ dir' = staging
  /\ staging' = Absent
  /\ Goto(r, "releaseOk")
  /\ HistoryUnchanged /\ UNCHANGED <<lock, pruner>>

(* A directory is renamed only onto one that is not there (or empty).       *)
Publish(r) ==
  /\ pc[r] = "publish"
  /\ \/ /\ staging.there /\ ~dir.there
        /\ dir' = [there |-> TRUE, payload |-> staging.payload,
                   ready |-> staging.ready, old |-> FALSE]
        /\ staging' = Absent
        /\ Goto(r, "releaseOk")
     \/ /\ ~staging.there \/ dir.there
        /\ UNCHANGED <<staging, dir>>
        /\ Goto(r, "releaseFail")
  /\ HistoryUnchanged /\ UNCHANGED <<lock, pruner>>

(* The deferred removal takes whatever lock file there is.                  *)
Release(r) ==
  /\ pc[r] \in {"releaseOk", "releaseFail"}
  /\ lock' = "free"
  /\ Goto(r, IF pc[r] = "releaseOk" THEN "using" ELSE "idle")
  /\ DiskUnchanged /\ HistoryUnchanged

(* The attempt is over; the slot's next runner may want the build again.    *)
Done(r) ==
  /\ pc[r] = "using"
  /\ Goto(r, "idle")
  /\ DiskUnchanged /\ HistoryUnchanged /\ UNCHANGED lock

-----------------------------------------------------------------------------
(* Around the runners                                                       *)

Crash(r) ==
  /\ pc[r] # "idle" /\ crashes < MaxCrashes
  /\ crashes' = crashes + 1
  /\ Goto(r, "idle")
  /\ DiskUnchanged /\ UNCHANGED <<lock, doubled, raced>>

(* Thirty minutes after it was made the lock counts as stale.               *)
LockAges ==
  /\ lock = "fresh"
  /\ SlowHolders \/ Holders = {}
  /\ lock' = "stale"
  /\ DiskUnchanged /\ HistoryUnchanged /\ UNCHANGED pc

(* cache_keep is longer than an attempt: an entry grows old between them.   *)
EntryAges ==
  /\ Ready /\ ~dir.old
  /\ \A r \in Runners : pc[r] = "idle"
  /\ dir' = [dir EXCEPT !.old = TRUE]
  /\ HistoryUnchanged /\ UNCHANGED <<pc, lock, staging, pruner>>

PruneJudges ==
  /\ pruner = "idle"
  /\ Ready /\ dir.old
  /\ pruner' = "judged"
  /\ HistoryUnchanged /\ UNCHANGED <<pc, lock, staging, dir>>

(* Files go one by one, the marker before or after the payload.             *)
PruneRemovesSome ==
  /\ pruner = "judged"
  /\ \/ /\ dir.there
        /\ \E ready \in {FALSE, dir.ready} :
             dir' = [dir EXCEPT !.payload = "partial", !.ready = ready]
        /\ pruner' = "removing"
     \/ /\ ~dir.there
        /\ UNCHANGED dir
        /\ pruner' = "idle"
  /\ HistoryUnchanged /\ UNCHANGED <<pc, lock, staging>>

PruneRemovesAll ==
  /\ pruner = "removing"
  /\ dir' = Absent
  /\ pruner' = "idle"
  /\ HistoryUnchanged /\ UNCHANGED <<pc, lock, staging>>

Fetches(r) ==
  ClearStaging(r) \/ ClearDir(r) \/ CreateDownload(r) \/ Download(r) \/ Unpack(r)
    \/ Mark(r) \/ Publish(r) \/ Release(r)

Ensures(r) ==
  \/ Acquire(r) \/ Steal(r) \/ WaitEnds(r) \/ WaitTimesOut(r) \/ Recheck(r)
  \/ Fetches(r)

Prune == PruneJudges \/ PruneRemovesSome \/ PruneRemovesAll

Next ==
  \/ \E r \in Runners : Hit(r) \/ Miss(r) \/ Ensures(r) \/ Done(r) \/ Crash(r)
  \/ LockAges \/ EntryAges \/ Prune

Spec == Init /\ [][Next]_vars

(* A runner that is not killed goes on: transfers and waits have timeouts.  *)
Fairness == \A r \in Runners : WF_vars(Ensures(r))

FairSpec == Spec /\ Fairness

-----------------------------------------------------------------------------
(* Properties                                                               *)

(* What the marker promises: an entry with a .ready marker has its whole    *)
(* payload, whoever crashed, failed or gave up on the way, unless the lock  *)
(* was held twice or the agent is just removing the entry.                  *)
ReadyIsWhole ==
  ~doubled => (Ready => dir.payload = "whole" \/ pruner = "removing")

(* A runner works on a whole build for as long as its attempt lasts: nobody *)
(* fetches, unpacks or prunes it away.  Excepted are the two races the code *)
(* leaves open, a lock held twice and a hit while the agent is pruning.     *)
UsedIsWhole ==
  ~doubled /\ ~raced =>
    \A r \in Runners : pc[r] = "using" => Ready /\ dir.payload = "whole"

(* Ensure returns, with or without the build: nobody waits for ever on a    *)
(* holder that failed or died, nor on a lock nobody holds.                  *)
EnsureReturns ==
  \A r \in Runners : pc[r] = "acquire" ~> pc[r] \in {"idle", "using"}

(* "acquire takes an exclusive lock file, treating a stale one as free."    *)
LockIsExclusive == Cardinality(Holders) <= 1

=============================================================================
