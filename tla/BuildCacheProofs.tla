-------------------------- MODULE BuildCacheProofs --------------------------
(***************************************************************************)
(* What BuildCache guarantees for every number of runners, crashes and     *)
(* slow holders.                                                           *)
(*                                                                         *)
(* Neither ReadyIsWhole nor UsedIsWhole is inductive.  What makes them so: *)
(*   OneHolder  until the lock is held twice it is held once               *)
(*   Fetching   what the one holder finds in the two directories at each   *)
(*              step of its fetch                                          *)
(*   Pruning    what the agent can rely on between its judgement and the   *)
(*              removal                                                    *)
(*   Unwanted   an entry that is ready and old is one no runner has to do  *)
(*              with                                                       *)
(*   Taken      an entry in use is whole and not being pruned              *)
(***************************************************************************)
EXTENDS BuildCache, TLAPS

OneHolder == ~doubled => \A r, q \in Holders : r = q

(* A holder past its second look at the marker.                             *)
FetchSound(r) ==
  /\ pc[r] \in {"clearStaging", "clearDir"} => ~Ready
  /\ pc[r] = "clearDir" => staging = Absent
  /\ pc[r] \in {"create", "fetch", "unpack", "mark", "publish"} =>
       /\ dir = Absent
       /\ staging \in Staging
       /\ staging.ready = (pc[r] = "publish")
  /\ pc[r] \in {"fetch", "unpack"} => staging.by = r
  /\ pc[r] = "unpack" => staging.whole
  /\ pc[r] \in {"mark", "publish"} => staging.payload = "whole"

Fetching == ~doubled => \A r \in Runners : FetchSound(r)

Pruning ==
  /\ pruner = "removing" => dir \in Entry
  /\ pruner = "judged" /\ ~doubled => Ready

Unwanted == Ready /\ dir.old => \A r \in Runners : pc[r] = "idle"

Taken ==
  ~doubled /\ ~raced =>
    \A r \in Runners : pc[r] \in {"using", "releaseOk"} =>
      Ready /\ dir.payload = "whole" /\ pruner = "idle"

Inv == /\ TypeOK /\ OneHolder /\ Fetching /\ Pruning /\ Unwanted
       /\ ReadyIsWhole /\ Taken

-----------------------------------------------------------------------------
(* Types                                                                    *)

LEMMA TypeInit == Init => TypeOK
<1>. SUFFICES ASSUME Init PROVE TypeOK
  OBVIOUS
<1>1. crashes \in 0 .. MaxCrashes
  BY BoundsAssumption DEF Init
<1>2. /\ staging \in {Absent} \union Staging /\ dir \in {Absent} \union Entry
      /\ lock \in {"free", "fresh", "stale"} /\ pruner \in {"idle", "judged", "removing"}
  BY DEF Init
<1>3. doubled \in BOOLEAN /\ raced \in BOOLEAN
  BY DEF Init
<1>. QED BY <1>1, <1>2, <1>3 DEF Init, TypeOK

(* A staging directory stays one whatever is written to it.                 *)
LEMMA StagingWritten ==
  ASSUME staging \in Staging, NEW by \in Runners \union {NoRunner},
         NEW whole \in BOOLEAN, NEW payload \in {"none", "partial", "whole"},
         NEW ready \in BOOLEAN
  PROVE  /\ [staging EXCEPT !.by = by, !.whole = whole] \in Staging
         /\ [staging EXCEPT !.whole = whole] \in Staging
         /\ [staging EXCEPT !.payload = payload, !.by = by] \in Staging
         /\ [staging EXCEPT !.ready = ready] \in Staging
BY DEF Staging

LEMMA EntryWritten ==
  ASSUME dir \in Entry, NEW payload \in {"none", "partial", "whole"},
         NEW ready \in BOOLEAN, NEW old \in BOOLEAN
  PROVE  /\ [dir EXCEPT !.old = old] \in Entry
         /\ [dir EXCEPT !.payload = payload, !.ready = ready] \in Entry
BY DEF Entry

LEMMA Presence ==
  /\ \A x \in Staging \union Entry : x.there
  /\ ~Absent.there
  /\ EmptyStaging \in Staging
<1>1. \A x \in Staging \union Entry : x.there
  BY DEF Staging, Entry
<1>2. ~Absent.there
  BY DEF Absent
<1>3. EmptyStaging \in Staging
  BY DEF EmptyStaging, Staging
<1>. QED BY <1>1, <1>2, <1>3

LEMMA ThereIs ==
  ASSUME TypeOK
  PROVE  /\ staging.there => staging \in Staging
         /\ ~staging.there => staging = Absent
         /\ dir.there => dir \in Entry
         /\ ~dir.there => dir = Absent
BY Presence DEF TypeOK

LEMMA ExtractedShape ==
  ASSUME NEW whole \in BOOLEAN, NEW x \in Extracted(whole)
  PROVE  /\ x.payload \in {"partial", "whole"}
         /\ whole /\ x.ok => x.payload = "whole"
<1>1. CASE whole
  <2>1. x = [payload |-> "whole", ok |-> TRUE] \/ x = [payload |-> "partial", ok |-> FALSE]
    BY <1>1 DEF Extracted
  <2>. QED BY <2>1
<1>2. CASE ~whole
  <2>1. x = [payload |-> "partial", ok |-> TRUE] \/ x = [payload |-> "partial", ok |-> FALSE]
    BY <1>2 DEF Extracted
  <2>. QED BY <1>2, <2>1
<1>. QED BY <1>1, <1>2

LEMMA TypeStep == TypeOK /\ [Next]_vars => TypeOK'
<1>. SUFFICES ASSUME TypeOK, [Next]_vars PROVE TypeOK'
  OBVIOUS
<1>. USE DEF TypeOK, Goto, DiskUnchanged, HistoryUnchanged, Holding
<1>1. ASSUME NEW r \in Runners, Hit(r) PROVE TypeOK'
  BY <1>1, ThereIs, EntryWritten DEF Hit, Takes, Ready
<1>2. ASSUME NEW r \in Runners, Miss(r) \/ Acquire(r) \/ Steal(r) PROVE TypeOK'
  BY <1>2 DEF Miss, Acquire, Steal
<1>3. ASSUME NEW r \in Runners, WaitEnds(r) \/ WaitTimesOut(r) \/ Recheck(r) PROVE TypeOK'
  BY <1>3 DEF WaitEnds, WaitTimesOut, Recheck, Takes
<1>4. ASSUME NEW r \in Runners, ClearStaging(r) \/ ClearDir(r) PROVE TypeOK'
  <2>1. staging' \in {Absent} \union Staging
    BY <1>4, ThereIs, Presence DEF ClearStaging, ClearDir
  <2>. QED BY <1>4, <2>1 DEF ClearStaging, ClearDir
<1>5. ASSUME NEW r \in Runners, CreateDownload(r) PROVE TypeOK'
  <2>1. staging' \in {Absent} \union Staging
    BY <1>5, ThereIs DEF CreateDownload, Staging
  <2>. QED BY <1>5, <2>1 DEF CreateDownload
<1>6. ASSUME NEW r \in Runners, Download(r) PROVE TypeOK'
  <2>1. staging' \in {Absent} \union Staging
    BY <1>6, ThereIs, Presence, StagingWritten DEF Download
  <2>. QED BY <1>6, <2>1 DEF Download
<1>7. ASSUME NEW r \in Runners, Unpack(r) PROVE TypeOK'
  <2>1. CASE staging.there /\ staging.by # NoRunner
    <3>1. PICK x \in Extracted(staging.whole) :
            /\ staging' = [staging EXCEPT !.payload = x.payload,
                              !.by = IF x.ok THEN NoRunner ELSE @]
            /\ Goto(r, IF x.ok THEN "mark" ELSE "releaseFail")
      BY <1>7, <2>1 DEF Unpack
    <3>2. staging' \in Staging
      BY <2>1, <3>1, ExtractedShape, ThereIs DEF Staging
    <3>. QED BY <1>7, <3>1, <3>2 DEF Unpack
  <2>2. CASE ~(staging.there /\ staging.by # NoRunner)
    BY <1>7, <2>2 DEF Unpack
  <2>. QED BY <2>1, <2>2
<1>8. ASSUME NEW r \in Runners, Mark(r) PROVE TypeOK'
  BY <1>8, ThereIs, StagingWritten DEF Mark
<1>9. ASSUME NEW r \in Runners, Publish(r) PROVE TypeOK'
  <2>1. dir' \in {Absent} \union Entry /\ staging' \in {Absent} \union Staging
    <3>1. CASE staging.there /\ ~dir.there
      <4>1. staging \in Staging
        BY <3>1, ThereIs
      <4>2. [there |-> TRUE, payload |-> staging.payload,
             ready |-> staging.ready, old |-> FALSE] \in Entry
        BY <4>1 DEF Staging, Entry
      <4>. QED BY <1>9, <3>1, <4>2 DEF Publish
    <3>. QED BY <1>9, <3>1 DEF Publish
  <2>. QED BY <1>9, <2>1 DEF Publish
<1>10. ASSUME NEW r \in Runners, Release(r) \/ Done(r) \/ Crash(r) PROVE TypeOK'
  BY <1>10, BoundsAssumption DEF Release, Done, Crash
<1>11. CASE LockAges \/ EntryAges
  BY <1>11, ThereIs, EntryWritten DEF LockAges, EntryAges, Ready
<1>12. CASE Prune
  <2>1. CASE PruneRemovesSome
    <3>1. dir' \in {Absent} \union Entry
      BY <2>1, ThereIs DEF PruneRemovesSome, Entry
    <3>. QED BY <2>1, <3>1 DEF PruneRemovesSome
  <2>2. CASE PruneJudges \/ PruneRemovesAll
    BY <2>2 DEF PruneJudges, PruneRemovesAll
  <2>. QED BY <1>12, <2>1, <2>2 DEF Prune
<1>13. CASE UNCHANGED vars
  BY <1>13 DEF vars
<1>. QED
  BY <1>1, <1>2, <1>3, <1>4, <1>5, <1>6, <1>7, <1>8, <1>9, <1>10, <1>11, <1>12, <1>13
     DEF Next, Ensures, Fetches

(* Every reachable state is well typed, for any number of runners.          *)
THEOREM CacheTypes == Spec => []TypeOK
BY TypeInit, TypeStep, PTL DEF Spec

-----------------------------------------------------------------------------
(* The lock                                                                 *)

LEMMA OneHolderStep == ASSUME TypeOK, OneHolder, [Next]_vars PROVE OneHolder'
<1>. USE DEF TypeOK, OneHolder, Holders, Goto, HistoryUnchanged, Holding
<1>1. ASSUME NEW r \in Runners, Hit(r) \/ Miss(r) \/ Done(r) \/ Crash(r) PROVE OneHolder'
  BY <1>1 DEF Hit, Miss, Done, Crash, Takes
<1>2. ASSUME NEW r \in Runners, Acquire(r) PROVE OneHolder'
  <2>1. CASE lock = "free"
    <3>1. ASSUME ~doubled' PROVE \A q \in Runners : pc[q] \notin Holding
      BY <1>2, <2>1, <3>1 DEF Acquire
    <3>2. \A q \in Runners \ {r} : pc'[q] = pc[q]
      BY <1>2 DEF Acquire
    <3>. QED BY <3>1, <3>2
  <2>2. CASE lock # "free"
    BY <1>2, <2>2 DEF Acquire
  <2>. QED BY <2>1, <2>2
<1>3. ASSUME NEW r \in Runners, Steal(r) \/ WaitEnds(r) \/ WaitTimesOut(r) \/ Recheck(r)
      PROVE  OneHolder'
  BY <1>3 DEF Steal, WaitEnds, WaitTimesOut, Recheck, Takes
<1>4. ASSUME NEW r \in Runners, ClearStaging(r) \/ ClearDir(r) \/ CreateDownload(r)
      PROVE  OneHolder'
  BY <1>4 DEF ClearStaging, ClearDir, CreateDownload
<1>5. ASSUME NEW r \in Runners, Download(r) \/ Unpack(r) \/ Mark(r) PROVE OneHolder'
  BY <1>5 DEF Download, Unpack, Mark
<1>6. ASSUME NEW r \in Runners, Publish(r) \/ Release(r) PROVE OneHolder'
  BY <1>6 DEF Publish, Release
<1>7. CASE LockAges \/ EntryAges \/ Prune
  BY <1>7 DEF LockAges, EntryAges, Prune, PruneJudges, PruneRemovesSome, PruneRemovesAll
<1>8. CASE UNCHANGED vars
  BY <1>8 DEF vars
<1>. QED
  BY <1>1, <1>2, <1>3, <1>4, <1>5, <1>6, <1>7, <1>8 DEF Next, Ensures, Fetches

(* Until the lock is held twice nobody else is at the holder's files.       *)
LEMMA Alone ==
  ASSUME OneHolder, ~doubled, NEW r \in Runners, NEW q \in Runners, q # r, pc[r] \in Holding
  PROVE  pc[q] \notin Holding
BY DEF OneHolder, Holders

-----------------------------------------------------------------------------
(* The fetch                                                                *)

(* Nothing to the others: none of them is in the middle of a fetch.         *)
LEMMA OthersSound ==
  ASSUME TypeOK, OneHolder, ~doubled, NEW r \in Runners, pc[r] \in Holding,
         NEW where, Goto(r, where)
  PROVE  \A q \in Runners \ {r} : FetchSound(q)'
BY Alone DEF TypeOK, Goto, FetchSound, Holding

LEMMA FetchingStep ==
  ASSUME TypeOK, OneHolder, Fetching, Pruning, [Next]_vars PROVE Fetching'
<1>. SUFFICES ASSUME ~doubled' PROVE \A r \in Runners : FetchSound(r)'
  BY DEF Fetching
<1>. USE DEF TypeOK, Goto, HistoryUnchanged, DiskUnchanged
<1>1. ASSUME NEW r \in Runners, Hit(r) PROVE \A q \in Runners : FetchSound(q)'
  BY <1>1, Presence DEF Hit, Takes, Fetching, FetchSound, Ready
<1>2. ASSUME NEW r \in Runners, Miss(r) \/ Done(r) \/ Crash(r)
      PROVE  \A q \in Runners : FetchSound(q)'
  BY <1>2 DEF Miss, Done, Crash, Fetching, FetchSound, Ready
<1>3. ASSUME NEW r \in Runners, Acquire(r) PROVE \A q \in Runners : FetchSound(q)'
  BY <1>3 DEF Acquire, Fetching, FetchSound, Ready
<1>4. ASSUME NEW r \in Runners, Steal(r) \/ WaitEnds(r) \/ WaitTimesOut(r) \/ Recheck(r)
      PROVE  \A q \in Runners : FetchSound(q)'
  BY <1>4 DEF Steal, WaitEnds, WaitTimesOut, Recheck, Takes, Fetching, FetchSound, Ready
<1>5. ASSUME NEW r \in Runners, Fetches(r) PROVE \A q \in Runners : FetchSound(q)'
  <2>. USE <1>5, ThereIs, Presence DEF Fetching
  <2>1. ~doubled
    BY DEF Fetches, ClearStaging, ClearDir, CreateDownload, Download, Unpack, Mark, Publish, Release
  <2>2. pc[r] \in Holding /\ \E where : Goto(r, where)
    BY DEF Holding, Fetches, ClearStaging, ClearDir, CreateDownload, Download, Unpack, Mark, Publish, Release
  <2>3. \A q \in Runners \ {r} : FetchSound(q)'
    BY <2>1, <2>2, OthersSound
  <2>4. CASE ClearStaging(r)
    BY <2>1, <2>3, <2>4 DEF ClearStaging, FetchSound, Ready
  <2>5. CASE ClearDir(r)
    BY <2>1, <2>3, <2>5 DEF ClearDir, FetchSound, EmptyStaging, Ready, Absent
  <2>6. CASE CreateDownload(r)
    <3>1. pc'[r] \in {"fetch", "releaseFail"}
      BY <2>6 DEF CreateDownload
    <3>2. pc'[r] = "fetch" => /\ dir' = Absent /\ staging' \in Staging
                              /\ staging'.ready = FALSE /\ staging'.by = r
      BY <2>1, <2>6 DEF CreateDownload, FetchSound, Staging
    <3>. QED BY <2>3, <3>1, <3>2 DEF FetchSound
  <2>7. CASE Download(r)
    <3>1. pc'[r] \in {"unpack", "releaseFail"}
      BY <2>7 DEF Download
    <3>2. pc'[r] = "unpack" => /\ dir' = Absent /\ staging' = [staging EXCEPT !.whole = TRUE]
                               /\ staging \in Staging /\ staging.ready = FALSE /\ staging.by = r
      BY <2>1, <2>7 DEF Download, FetchSound
    <3>3. pc'[r] = "unpack" => /\ staging' \in Staging /\ staging'.ready = FALSE
                               /\ staging'.by = r /\ staging'.whole
      BY <3>2 DEF Staging
    <3>. QED BY <2>3, <3>1, <3>2, <3>3 DEF FetchSound
  <2>8. CASE Unpack(r)
    <3>1. pc'[r] \in {"mark", "releaseFail"}
      BY <2>8 DEF Unpack
    <3>2. /\ dir = Absent /\ staging \in Staging /\ staging.whole /\ staging.ready = FALSE
          /\ UNCHANGED dir
      BY <2>1, <2>8 DEF Unpack, FetchSound
    <3>3. ASSUME pc'[r] = "mark"
          PROVE  staging' \in Staging /\ staging'.payload = "whole" /\ staging'.ready = FALSE
      <4>1. PICK x \in Extracted(staging.whole) :
              /\ staging' = [staging EXCEPT !.payload = x.payload,
                                !.by = IF x.ok THEN NoRunner ELSE @]
              /\ x.ok
        BY <2>8, <3>3 DEF Unpack
      <4>2. x.payload = "whole"
        BY <3>2, <4>1, ExtractedShape DEF Staging
      <4>. QED BY <3>2, <4>1, <4>2 DEF Staging
    <3>. QED BY <2>3, <3>1, <3>2, <3>3 DEF FetchSound
  <2>9. CASE Mark(r)
    <3>1. pc'[r] \in {"publish", "releaseFail"}
      BY <2>9 DEF Mark
    <3>2. pc'[r] = "publish" => /\ dir' = Absent /\ staging \in Staging
                                /\ staging.payload = "whole"
                                /\ staging' = [staging EXCEPT !.ready = TRUE]
      BY <2>1, <2>9 DEF Mark, FetchSound
    <3>3. pc'[r] = "publish" => /\ staging' \in Staging /\ staging'.ready = TRUE
                                /\ staging'.payload = "whole"
      BY <3>2 DEF Staging
    <3>. QED BY <2>3, <3>1, <3>2, <3>3 DEF FetchSound
  <2>10. CASE Publish(r) \/ Release(r)
    BY <2>1, <2>3, <2>10 DEF Publish, Release, FetchSound
  <2>. QED
    BY <2>4, <2>5, <2>6, <2>7, <2>8, <2>9, <2>10 DEF Fetches
<1>6. CASE LockAges \/ EntryAges
  BY <1>6, Presence DEF LockAges, EntryAges, Fetching, FetchSound, Ready
<1>7. CASE Prune
  <2>1. ~Ready => ~Ready'
    BY <1>7, ThereIs, Presence
       DEF Prune, PruneJudges, PruneRemovesSome, PruneRemovesAll, Ready, Entry
  <2>2. dir = Absent => dir' = Absent
    BY <1>7, Presence DEF Prune, PruneJudges, PruneRemovesSome, PruneRemovesAll
  <2>3. UNCHANGED <<pc, staging, doubled>>
    BY <1>7 DEF Prune, PruneJudges, PruneRemovesSome, PruneRemovesAll
  <2>. QED BY <2>1, <2>2, <2>3 DEF Fetching, FetchSound
<1>8. CASE UNCHANGED vars
  BY <1>8 DEF vars, Fetching, FetchSound, Ready
<1>. QED
  BY <1>1, <1>2, <1>3, <1>4, <1>5, <1>6, <1>7, <1>8 DEF Next, Ensures

-----------------------------------------------------------------------------
(* Who changes what                                                         *)

LEMMA EntryWrites ==
  ASSUME TypeOK, [Next]_vars
  PROVE  /\ \/ UNCHANGED <<dir, pruner>>
            \/ \E r \in Runners : Hit(r) \/ ClearDir(r) \/ Publish(r)
            \/ EntryAges \/ PruneJudges \/ PruneRemovesSome \/ PruneRemovesAll
         /\ ~doubled' => ~doubled
         /\ ~raced' => ~raced
<1>. USE DEF TypeOK, DiskUnchanged, HistoryUnchanged
<1>1. ASSUME NEW r \in Runners, Hit(r) \/ ClearDir(r) \/ Publish(r)
      PROVE  (~doubled' => ~doubled) /\ (~raced' => ~raced)
  BY <1>1 DEF Hit, Takes, ClearDir, Publish
<1>2. ASSUME NEW r \in Runners,
             \/ Miss(r) \/ Acquire(r) \/ Steal(r) \/ WaitEnds(r) \/ WaitTimesOut(r)
             \/ Recheck(r) \/ Done(r) \/ Crash(r)
      PROVE  (~doubled' => ~doubled) /\ (~raced' => ~raced) /\ UNCHANGED <<dir, pruner>>
  BY <1>2 DEF Miss, Acquire, Steal, WaitEnds, WaitTimesOut, Recheck, Takes, Done, Crash
<1>3. ASSUME NEW r \in Runners,
             \/ ClearStaging(r) \/ CreateDownload(r) \/ Download(r) \/ Unpack(r) \/ Mark(r)
             \/ Release(r)
      PROVE  UNCHANGED <<dir, pruner, doubled, raced>>
  BY <1>3 DEF ClearStaging, CreateDownload, Download, Unpack, Mark, Release
<1>4. LockAges => UNCHANGED <<dir, pruner, doubled, raced>>
  BY DEF LockAges
<1>5. EntryAges \/ Prune => UNCHANGED <<doubled, raced>>
  BY DEF EntryAges, Prune, PruneJudges, PruneRemovesSome, PruneRemovesAll
<1>. QED
  BY <1>1, <1>2, <1>3, <1>4, <1>5 DEF Next, Ensures, Fetches, Prune, vars

(* Who leaves "idle", and who takes the entry.                              *)
LEMMA RunnerMoves ==
  ASSUME TypeOK, [Next]_vars, NEW q \in Runners
  PROVE  /\ pc[q] = "idle" /\ pc'[q] # "idle" => Hit(q) \/ Miss(q)
         /\ pc'[q] \in {"using", "releaseOk"} =>
              \/ pc[q] \in {"using", "releaseOk"}
              \/ Hit(q) \/ WaitEnds(q) \/ Recheck(q) \/ Publish(q)
<1>. USE DEF TypeOK, Goto
<1>1. ASSUME NEW r \in Runners, Hit(r) \/ Miss(r)
      PROVE  pc'[q] = pc[q] \/ (r = q /\ (Hit(r) \/ pc'[r] = "acquire"))
  BY <1>1 DEF Hit, Miss
<1>2. ASSUME NEW r \in Runners, Acquire(r) \/ Steal(r) \/ WaitEnds(r) \/ WaitTimesOut(r)
      PROVE  \/ pc'[q] = pc[q]
             \/ /\ r = q /\ pc[r] # "idle"
                /\ WaitEnds(r) \/ pc'[r] \notin {"using", "releaseOk"}
  BY <1>2 DEF Acquire, Steal, WaitEnds, WaitTimesOut
<1>3. ASSUME NEW r \in Runners,
             ClearStaging(r) \/ ClearDir(r) \/ CreateDownload(r) \/ Download(r) \/ Unpack(r)
               \/ Mark(r) \/ Release(r)
      PROVE  \/ pc'[q] = pc[q]
             \/ /\ r = q /\ pc[r] # "idle"
                /\ pc[r] = "releaseOk" \/ pc'[r] \notin {"using", "releaseOk"}
  BY <1>3 DEF ClearStaging, ClearDir, CreateDownload, Download, Unpack, Mark, Release
<1>4. ASSUME NEW r \in Runners, Recheck(r) \/ Publish(r)
      PROVE  pc'[q] = pc[q] \/ (r = q /\ pc[r] # "idle")
  BY <1>4 DEF Recheck, Publish
<1>5. ASSUME NEW r \in Runners, Done(r) \/ Crash(r) PROVE pc'[q] = pc[q] \/ pc'[q] = "idle"
  BY <1>5 DEF Done, Crash
<1>6. LockAges \/ EntryAges \/ Prune \/ UNCHANGED vars => pc' = pc
  BY DEF LockAges, EntryAges, Prune, PruneJudges, PruneRemovesSome, PruneRemovesAll,
         HistoryUnchanged, vars
<1>7. CASE \E r \in Runners : Hit(r) \/ Miss(r)
  BY <1>1, <1>7
<1>8. CASE \E r \in Runners : Acquire(r) \/ Steal(r) \/ WaitEnds(r) \/ WaitTimesOut(r)
  <2>1. PICK r \in Runners : Acquire(r) \/ Steal(r) \/ WaitEnds(r) \/ WaitTimesOut(r)
    BY <1>8
  <2>2. \/ pc'[q] = pc[q]
        \/ /\ r = q /\ pc[r] # "idle"
           /\ WaitEnds(r) \/ pc'[r] \notin {"using", "releaseOk"}
    BY <1>2, <2>1
  <2>. QED BY <2>2
<1>9. CASE \E r \in Runners :
             ClearStaging(r) \/ ClearDir(r) \/ CreateDownload(r) \/ Download(r) \/ Unpack(r)
               \/ Mark(r) \/ Release(r)
  BY <1>3, <1>9
<1>10. CASE \E r \in Runners : Recheck(r) \/ Publish(r)
  BY <1>4, <1>10
<1>11. CASE \E r \in Runners : Done(r) \/ Crash(r)
  BY <1>5, <1>11
<1>. QED
  BY <1>6, <1>7, <1>8, <1>9, <1>10, <1>11 DEF Next, Ensures, Fetches

-----------------------------------------------------------------------------
(* The entry                                                                *)

LEMMA PruningStep ==
  ASSUME TypeOK, Fetching, Pruning, [Next]_vars PROVE Pruning'
<1>. USE ThereIs, Presence, EntryWrites DEF Pruning, Ready
<1>1. CASE UNCHANGED <<dir, pruner>>
  BY <1>1
<1>2. ASSUME NEW r \in Runners, Hit(r) PROVE Pruning'
  BY <1>2, EntryWritten DEF Hit, Entry
<1>3. ASSUME NEW r \in Runners, ClearDir(r) PROVE Pruning'
  BY <1>3 DEF ClearDir, Fetching, FetchSound, TypeOK
<1>4. ASSUME NEW r \in Runners, Publish(r) PROVE Pruning'
  BY <1>4 DEF Publish, TypeOK
<1>5. CASE EntryAges \/ PruneJudges
  BY <1>5, EntryWritten DEF EntryAges, PruneJudges, Entry
<1>6. CASE PruneRemovesSome
  BY <1>6 DEF PruneRemovesSome, Entry
<1>7. CASE PruneRemovesAll
  BY <1>7 DEF PruneRemovesAll
<1>. QED BY <1>1, <1>2, <1>3, <1>4, <1>5, <1>6, <1>7

LEMMA UnwantedStep ==
  ASSUME TypeOK, Unwanted, [Next]_vars PROVE Unwanted'
<1>. SUFFICES ASSUME Ready', dir'.old, NEW q \in Runners PROVE pc'[q] = "idle"
  BY DEF Unwanted
<1>. USE ThereIs, Presence, EntryWrites DEF Ready
<1>1. CASE UNCHANGED dir
  BY <1>1, RunnerMoves DEF Unwanted, Miss, Hit, Entry
<1>2. ASSUME NEW r \in Runners, Hit(r) PROVE FALSE
  BY <1>2 DEF Hit, Entry
<1>3. ASSUME NEW r \in Runners, ClearDir(r) \/ Publish(r) PROVE dir' = dir
  BY <1>3 DEF ClearDir, Publish
<1>4. CASE EntryAges
  BY <1>4 DEF EntryAges
<1>5. CASE PruneRemovesSome
  BY <1>5 DEF PruneRemovesSome, Entry, Unwanted
<1>6. CASE PruneJudges \/ PruneRemovesAll
  BY <1>6, <1>1 DEF PruneJudges, PruneRemovesAll
<1>. QED BY <1>1, <1>2, <1>3, <1>4, <1>5, <1>6

LEMMA ReadyStep ==
  ASSUME TypeOK, Fetching, Pruning, ReadyIsWhole, [Next]_vars PROVE ReadyIsWhole'
<1>. SUFFICES ASSUME ~doubled', Ready'
              PROVE  dir'.payload = "whole" \/ pruner' = "removing"
  BY DEF ReadyIsWhole
<1>. USE ThereIs, Presence, EntryWrites DEF ReadyIsWhole, Ready
<1>1. CASE UNCHANGED <<dir, pruner>>
  BY <1>1
<1>2. ASSUME NEW r \in Runners, Hit(r) PROVE dir'.payload = "whole" \/ pruner' = "removing"
  BY <1>2 DEF Hit, Entry
<1>3. ASSUME NEW r \in Runners, ClearDir(r) PROVE FALSE
  BY <1>3 DEF ClearDir
<1>4. ASSUME NEW r \in Runners, Publish(r) PROVE dir'.payload = "whole" \/ pruner' = "removing"
  BY <1>4 DEF Publish, Fetching, FetchSound
<1>5. CASE EntryAges \/ PruneJudges
  BY <1>5 DEF EntryAges, PruneJudges, Entry
<1>6. CASE PruneRemovesSome \/ PruneRemovesAll
  BY <1>6 DEF PruneRemovesSome, PruneRemovesAll
<1>. QED BY <1>1, <1>2, <1>3, <1>4, <1>5, <1>6

LEMMA TakenStep ==
  ASSUME TypeOK, OneHolder, Fetching, Pruning, Unwanted, ReadyIsWhole, Taken, [Next]_vars
  PROVE  Taken'
<1>. SUFFICES ASSUME ~doubled', ~raced', NEW q \in Runners, pc'[q] \in {"using", "releaseOk"}
              PROVE  Ready' /\ dir'.payload = "whole" /\ pruner' = "idle"
  BY DEF Taken
<1>0. ~doubled /\ ~raced
  BY EntryWrites
<1>. USE <1>0, ThereIs, Presence DEF Ready
<1>1. ASSUME Hit(q) \/ WaitEnds(q)
      PROVE  Ready' /\ dir'.payload = "whole" /\ pruner' = "idle"
  BY <1>1 DEF Hit, WaitEnds, Takes, ReadyIsWhole, Entry, DiskUnchanged
<1>2. ASSUME Recheck(q)
      PROVE  Ready' /\ dir'.payload = "whole" /\ pruner' = "idle"
  BY <1>2 DEF Recheck, Takes, ReadyIsWhole, DiskUnchanged, Goto, TypeOK
<1>3. ASSUME Publish(q)
      PROVE  Ready' /\ dir'.payload = "whole" /\ pruner' = "idle"
  <2>1. dir = Absent /\ staging.ready /\ staging.payload = "whole"
    BY <1>3 DEF Publish, Fetching, FetchSound
  <2>2. pruner = "idle"
    BY <2>1 DEF Pruning, TypeOK
  <2>3. pc'[q] = "releaseOk"
    BY <1>3 DEF Publish, Goto, TypeOK
  <2>. QED BY <1>3, <2>1, <2>2, <2>3 DEF Publish, Goto, TypeOK
<1>4. ASSUME pc[q] \in {"using", "releaseOk"}
      PROVE  Ready' /\ dir'.payload = "whole" /\ pruner' = "idle"
  <2>1. Ready /\ dir.payload = "whole" /\ pruner = "idle"
    BY <1>4 DEF Taken
  <2>2. ASSUME NEW r \in Runners, Hit(r)
        PROVE  Ready' /\ dir'.payload = "whole" /\ pruner' = "idle"
    BY <2>1, <2>2 DEF Hit, Entry
  <2>3. ASSUME NEW r \in Runners, ClearDir(r) \/ Publish(r) PROVE UNCHANGED <<dir, pruner>>
    BY <2>1, <2>3 DEF ClearDir, Publish, Fetching, FetchSound
  <2>4. CASE EntryAges
    BY <2>1, <2>4, <1>4 DEF EntryAges
  <2>5. ~PruneJudges
    BY <1>4 DEF PruneJudges, Unwanted
  <2>6. ~PruneRemovesSome /\ ~PruneRemovesAll
    BY <2>1 DEF PruneRemovesSome, PruneRemovesAll
  <2>. QED BY <2>1, <2>2, <2>3, <2>4, <2>5, <2>6, EntryWrites
<1>. QED BY <1>1, <1>2, <1>3, <1>4, RunnerMoves

-----------------------------------------------------------------------------

LEMMA InvInit == Init => Inv
<1>. SUFFICES ASSUME Init PROVE Inv
  OBVIOUS
<1>1. TypeOK
  BY TypeInit
<1>2. \A r \in Runners : pc[r] = "idle"
  BY DEF Init
<1>3. ~Ready
  BY Presence DEF Init, Ready
<1>4. OneHolder /\ Fetching
  BY <1>2 DEF OneHolder, Holders, Holding, Fetching, FetchSound
<1>5. Pruning /\ Unwanted /\ ReadyIsWhole /\ Taken
  BY <1>2, <1>3 DEF Init, Pruning, Unwanted, ReadyIsWhole, Taken
<1>. QED BY <1>1, <1>4, <1>5 DEF Inv

LEMMA InvStep == Inv /\ [Next]_vars => Inv'
<1>. SUFFICES ASSUME Inv, [Next]_vars PROVE Inv'
  OBVIOUS
<1>. USE DEF Inv
<1>1. TypeOK' /\ OneHolder' /\ Fetching'
  BY TypeStep, OneHolderStep, FetchingStep
<1>2. Pruning' /\ Unwanted' /\ ReadyIsWhole'
  BY PruningStep, UnwantedStep, ReadyStep
<1>3. Taken'
  BY TakenStep
<1>. QED BY <1>1, <1>2, <1>3

(* The invariant the next two theorems rest on.                             *)
THEOREM CacheInvariant == Spec => []Inv
BY InvInit, InvStep, PTL DEF Spec

(* What Ensure's marker promises holds on every node: whatever runners      *)
(* crash, fail or give up, a marked entry is complete, as long as the lock  *)
(* was never held twice and no agent is removing the entry.                 *)
THEOREM MarkedIsWhole == Spec => []ReadyIsWhole
<1>1. Inv => ReadyIsWhole
  BY DEF Inv
<1>. QED BY <1>1, CacheInvariant, PTL

(* A runner's build is not fetched, unpacked or pruned away under it, as    *)
(* long as the lock was never held twice and nobody hit a judged entry.     *)
THEOREM UsedStaysWhole == Spec => []UsedIsWhole
<1>1. Inv => UsedIsWhole
  BY DEF Inv, Taken, UsedIsWhole
<1>. QED BY <1>1, CacheInvariant, PTL
=============================================================================
