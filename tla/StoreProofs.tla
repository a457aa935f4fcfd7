---------------------------- MODULE StoreProofs ----------------------------
(***************************************************************************)
(* What the store keeps for every set of regressions and runs, every       *)
(* number of dashboards, mutations and faults.                             *)
(*                                                                         *)
(*   Rooted        no run without its regression, in memory, on disk or in *)
(*                 the catalog's transaction                               *)
(*   CreateSound   what a Create under way has written: AcceptedIsWritten  *)
(*                 for a submission not yet answered                       *)
(*   WritesSound   WrittenIsDurable, also while a Create is under way, for *)
(*                 every object that it does not write                     *)
(*   ViewsSound    what a dashboard holds is what there was before the     *)
(*                 Create under way, or the revision moved on              *)
(***************************************************************************)
EXTENDS Store, TLAPS

RootedIn(image) == \A o \in Objects : image[RegOf(o)] = "absent" => image[o] = "absent"

Rooted == RootedIn(mem) /\ RootedIn(disk) /\ RootedIn(session)

Submitted(g) == {g} \union First[g]

CreateSound ==
  /\ driver = "file" => tx = "none"
  /\ create.pc = "rows" =>
       /\ create.left \subseteq Submitted(create.reg)
       /\ answer[create.reg] # "accepted"
       /\ \A o \in Submitted(create.reg) : mem[o] = "queued"
       /\ \A o \in Record(create.reg) \ Submitted(create.reg) : mem[o] = "absent"
       /\ ~swallowed /\ answer[create.reg] # "refused" =>
            \A o \in Submitted(create.reg) \ create.left : Durable[o] = "queued"

WritesSound ==
  ~swallowed =>
    \A o \in Objects :
      /\ written[o] /\ mem[o] # "absent" /\ mem[RegOf(o)] # "absent"
      /\ create.pc = "rows" => o \notin Record(create.reg)
      => Durable[o] = mem[o]

(* What a dashboard can have read: nothing of a Create under way.           *)
Seen == [o \in Objects |-> IF create.pc = "rows" /\ o \in Record(create.reg) THEN "absent"
                                                                            ELSE mem[o]]

ViewsSound ==
  ~restarted =>
    \A c \in Clients :
      /\ client[c].since <= revision
      /\ client[c].pc = "parked" => client[c].since = revision
      /\ client[c].pc \in {"parked", "polls"} /\ client[c].since = revision
           => client[c].view = Seen

Inv == /\ TypeOK /\ Rooted /\ CreateSound /\ AcceptedIsWritten /\ WritesSound /\ ViewsSound

-----------------------------------------------------------------------------
(* Records                                                                  *)

LEMMA RecordOfRegression ==
  ASSUME NEW g \in Regs
  PROVE  /\ Record(g) \subseteq Objects /\ g \in Record(g) /\ Submitted(g) \subseteq Record(g)
         /\ \A o \in Record(g) : RegOf(o) = g
<1>1. Record(g) \subseteq Objects
  BY DEF Record, Objects, Runs
<1>2. ASSUME NEW o \in Record(g) PROVE RegOf(o) = g
  <2>1. CASE o \in Regs
    <3>1. o \notin First[g] \union Later[g]
      BY <2>1, RecordsAssumption DEF Runs
    <3>. QED BY <2>1, <3>1 DEF Record, RegOf
  <2>2. CASE o \notin Regs
    <3>1. o \in First[g] \union Later[g]
      BY <2>2 DEF Record
    <3>2. \A h \in Regs : o \in First[h] \union Later[h] => h = g
      BY <3>1, RecordsAssumption
    <3>. QED BY <2>2, <3>1, <3>2 DEF RegOf
  <2>. QED BY <2>1, <2>2
<1>. QED BY <1>1, <1>2 DEF Record, Submitted

LEMMA RecordOfObject ==
  ASSUME NEW o \in Objects PROVE RegOf(o) \in Regs /\ o \in Record(RegOf(o))
<1>1. CASE o \in Regs
  BY <1>1 DEF RegOf, Record
<1>2. CASE o \notin Regs
  <2>1. \E g \in Regs : o \in First[g] \union Later[g]
    BY <1>2 DEF Objects, Runs
  <2>. QED BY <1>2, <2>1 DEF RegOf, Record
<1>. QED BY <1>1, <1>2

LEMMA RunsAreObjects == Runs \subseteq Objects /\ Regs \subseteq Objects
BY DEF Objects

-----------------------------------------------------------------------------
(* Writes                                                                   *)

(* What a write of o leaves, and what of that it says.                      *)
Wrote(o, ok) ==
  /\ ~swallowed' => ~swallowed
  /\ ~swallowed' => \A p \in Objects :
       /\ ok /\ p \in Covered(o) => Durable'[p] = mem'[p]
       /\ p \notin Covered(o) \/ (~ok /\ p # o) => Durable'[p] = Durable[p]
       /\ Durable'[p] \in {Durable[p], mem'[p]}

Typed == /\ disk' \in [Objects -> Value] /\ session' \in [Objects -> Value]
         /\ tx' \in {"none", "open", "aborted"} /\ swallowed' \in BOOLEAN
         /\ faults' \in 0 .. MaxFaults

RowsRooted == RootedIn(disk) /\ RootedIn(session) /\ (driver = "file" => tx = "none")

LEMMA FaultTyped ==
  ASSUME TypeOK, NEW kind, Fault(kind) PROVE faults' \in 0 .. MaxFaults
BY BoundsAssumption DEF Fault, TypeOK

LEMMA PutTyped ==
  ASSUME NEW image \in [Objects -> Value], NEW from \in [Objects -> Value], NEW objects
  PROVE  Put(image, objects, from) \in [Objects -> Value]
BY DEF Put

LEMMA FileEffect ==
  ASSUME TypeOK, RowsRooted, NEW o \in Objects, NEW ok \in BOOLEAN, FileWrites({o}, ok),
         mem' \in [Objects -> Value], RootedIn(mem'), UNCHANGED driver
  PROVE  Typed /\ RowsRooted' /\ Wrote(o, ok)
<1>1. driver = "file" /\ tx = "none" /\ UNCHANGED <<tx, session, swallowed>>
  BY DEF FileWrites, RowsRooted
<1>2. UNION {Record(RegOf(p)) : p \in {o}} = Record(RegOf(o))
  OBVIOUS
<1>3. CASE ok
  <2>1. disk' = Put(disk, Record(RegOf(o)), mem') /\ UNCHANGED faults
    BY <1>2, <1>3 DEF FileWrites
  <2>2. disk' \in [Objects -> Value]
    BY <2>1, PutTyped DEF TypeOK
  <2>3. RootedIn(disk')
    <3>. SUFFICES ASSUME NEW p \in Objects, disk'[RegOf(p)] = "absent" PROVE disk'[p] = "absent"
      BY DEF RootedIn
    <3>1. /\ RegOf(p) \in Regs /\ RegOf(p) \in Objects /\ p \in Record(RegOf(p))
          /\ RegOf(RegOf(p)) = RegOf(p) /\ RegOf(o) \in Regs
      BY RecordOfObject, RecordOfRegression, RunsAreObjects
    <3>2. p \in Record(RegOf(o)) <=> RegOf(p) = RegOf(o)
      BY <3>1, RecordOfRegression
    <3>3. RegOf(p) \in Record(RegOf(o)) <=> RegOf(p) = RegOf(o)
      BY <3>1, RecordOfRegression
    <3>. QED BY <2>1, <3>1, <3>2, <3>3 DEF Put, RowsRooted, RootedIn
  <2>4. \A p \in Objects : disk'[p] = IF p \in Record(RegOf(o)) THEN mem'[p] ELSE disk[p]
    BY <2>1 DEF Put
  <2>5. Wrote(o, ok)
    BY <1>1, <1>3, <2>4 DEF Wrote, Durable, Covered
  <2>. QED BY <1>1, <2>1, <2>2, <2>3, <2>5 DEF Typed, RowsRooted, TypeOK
<1>4. CASE ~ok
  <2>1. UNCHANGED disk /\ Fault("write")
    BY <1>4 DEF FileWrites
  <2>2. Wrote(o, ok)
    BY <1>1, <1>4, <2>1 DEF Wrote, Durable
  <2>. QED BY <1>1, <2>1, <2>2, FaultTyped DEF Typed, RowsRooted, TypeOK
<1>. QED BY <1>3, <1>4

LEMMA PutRooted ==
  ASSUME NEW image \in [Objects -> Value], RootedIn(image), NEW o \in Objects,
         HasRegression(image, o), NEW from \in [Objects -> Value], from[o] # "absent"
  PROVE  RootedIn(Put(image, {o}, from))
<1>. SUFFICES ASSUME NEW p \in Objects, Put(image, {o}, from)[RegOf(p)] = "absent"
              PROVE  Put(image, {o}, from)[p] = "absent"
  BY DEF RootedIn
<1>1. RegOf(p) \in Objects /\ image[RegOf(p)] = "absent" /\ RegOf(p) # o
  BY RecordOfObject, RunsAreObjects DEF Put
<1>2. p # o
  <2>1. CASE o \in Regs
    BY <1>1, <2>1 DEF RegOf
  <2>2. CASE o \notin Regs
    BY <1>1, <2>2 DEF HasRegression
  <2>. QED BY <2>1, <2>2
<1>. QED BY <1>1, <1>2 DEF Put, RootedIn

LEMMA RowEffect ==
  ASSUME TypeOK, RowsRooted, NEW o \in Objects, NEW ok \in BOOLEAN, RowWritten(o, ok),
         mem' \in [Objects -> Value], mem'[o] # "absent", UNCHANGED driver
  PROVE  Typed /\ RowsRooted' /\ Wrote(o, ok)
<1>0. driver = "postgres" /\ Covered(o) = {o} /\ o \in Covered(o)
  BY DEF RowWritten, Covered
<1>1. ASSUME tx = "none", HasRegression(disk, o), disk' = Put(disk, {o}, mem'),
             UNCHANGED <<tx, session, swallowed>>, faults' \in 0 .. MaxFaults
      PROVE  Typed /\ RowsRooted' /\ Wrote(o, ok)
  <2>1. disk' \in [Objects -> Value] /\ RootedIn(disk')
    BY <1>1, PutTyped, PutRooted DEF TypeOK, RowsRooted
  <2>2. disk'[o] = mem'[o] /\ \A p \in Objects \ {o} : disk'[p] = disk[p]
    BY <1>1 DEF Put
  <2>3. Wrote(o, ok)
    BY <1>0, <1>1, <2>2 DEF Wrote, Durable
  <2>. QED BY <1>0, <1>1, <2>1, <2>3 DEF Typed, RowsRooted, TypeOK
<1>2. ASSUME tx = "open", HasRegression(session, o), session' = Put(session, {o}, mem'),
             UNCHANGED <<tx, disk, swallowed, faults>>
      PROVE  Typed /\ RowsRooted' /\ Wrote(o, ok)
  <2>1. session' \in [Objects -> Value] /\ RootedIn(session')
    BY <1>2, PutTyped, PutRooted DEF TypeOK, RowsRooted
  <2>2. session'[o] = mem'[o] /\ \A p \in Objects \ {o} : session'[p] = session[p]
    BY <1>2 DEF Put
  <2>3. Wrote(o, ok)
    BY <1>0, <1>2, <2>2 DEF Wrote, Durable
  <2>. QED BY <1>0, <1>2, <2>1, <2>3 DEF Typed, RowsRooted, TypeOK
<1>3. ASSUME ~ok, tx' = IF tx = "open" THEN "aborted" ELSE tx,
             UNCHANGED <<disk, session, swallowed>>, faults' \in 0 .. MaxFaults
      PROVE  Typed /\ RowsRooted' /\ Wrote(o, ok)
  <2>1. Durable' = Durable
    BY <1>3 DEF Durable
  <2>2. Wrote(o, ok)
    BY <1>3, <2>1 DEF Wrote
  <2>. QED BY <1>0, <1>3, <2>2 DEF Typed, RowsRooted, TypeOK
<1>4. ASSUME tx # "none", HasRegression(disk, o), disk' = Put(disk, {o}, mem'), tx' = "none",
             swallowed' = (swallowed \/ session # disk), UNCHANGED session, faults' \in 0 .. MaxFaults
      PROVE  Typed /\ RowsRooted' /\ Wrote(o, ok)
  <2>1. disk' \in [Objects -> Value] /\ RootedIn(disk')
    BY <1>4, PutTyped, PutRooted DEF TypeOK, RowsRooted
  <2>2. disk'[o] = mem'[o] /\ \A p \in Objects \ {o} : disk'[p] = disk[p]
    BY <1>4 DEF Put
  <2>3. ~swallowed' => ~swallowed /\ session = disk
    BY <1>4
  <2>4. Wrote(o, ok)
    BY <1>0, <1>4, <2>2, <2>3 DEF Wrote, Durable
  <2>5. swallowed' \in BOOLEAN
    BY <1>4 DEF TypeOK
  <2>. QED BY <1>0, <1>4, <2>1, <2>4, <2>5 DEF Typed, RowsRooted, TypeOK
<1>5. faults \in 0 .. MaxFaults
  BY DEF TypeOK
<1>. QED BY <1>1, <1>2, <1>3, <1>4, <1>5, FaultTyped DEF RowWritten

-----------------------------------------------------------------------------
(* What is kept, mutation by mutation                                       *)

StoreSound == Rooted /\ CreateSound /\ AcceptedIsWritten /\ WritesSound

StoreKept == StoreSound' /\ mem' \in [Objects -> Value] /\ Typed

LEMMA PersistsSound ==
  ASSUME TypeOK, StoreSound, NEW o \in Objects, NEW v \in Stage, mem[RegOf(o)] # "absent",
         Persists(o, v)
  PROVE  StoreKept
<1>1. PICK ok \in BOOLEAN : Writes(o, ok) /\ Noted(o, ok)
  BY DEF Persists
<1>2. /\ create.pc = "idle" /\ mem' = [mem EXCEPT ![o] = v]
      /\ UNCHANGED <<driver, create, answer>>
  BY DEF Persists, Unlocked
<1>3. /\ mem' \in [Objects -> Value] /\ mem'[o] # "absent"
      /\ \A p \in Objects \ {o} : mem'[p] = mem[p]
  BY <1>2 DEF TypeOK, Value, Stage
<1>4. RootedIn(mem')
  <2>. SUFFICES ASSUME NEW p \in Objects, mem'[RegOf(p)] = "absent" PROVE mem'[p] = "absent"
    BY DEF RootedIn
  <2>1. RegOf(p) \in Objects
    BY RecordOfObject, RunsAreObjects
  <2>2. mem[RegOf(p)] = "absent"
    BY <1>3, <2>1
  <2>3. p # o
    BY <2>2
  <2>. QED BY <1>3, <2>2, <2>3 DEF StoreSound, Rooted, RootedIn
<1>5. RowsRooted
  BY DEF StoreSound, Rooted, CreateSound, RowsRooted
<1>6. Typed /\ RowsRooted' /\ Wrote(o, ok)
  BY <1>1, <1>2, <1>3, <1>4, <1>5, FileEffect, RowEffect DEF Writes
<1>7. Rooted' /\ CreateSound'
  BY <1>2, <1>4, <1>6 DEF Rooted, RowsRooted, CreateSound
<1>8. AcceptedIsWritten'
  <2>. SUFFICES ASSUME ~swallowed', NEW g \in Regs, answer'[g] = "accepted", NEW p \in Submitted(g)
                PROVE  Durable'[p] # "absent" /\ mem'[p] # "absent"
    BY DEF AcceptedIsWritten, Submitted
  <2>1. p \in Objects
    BY RecordOfRegression
  <2>2. ~swallowed /\ Durable'[p] \in {Durable[p], mem'[p]}
    BY <1>6, <2>1 DEF Wrote
  <2>3. Durable[p] # "absent" /\ mem[p] # "absent"
    BY <1>2, <2>2 DEF StoreSound, AcceptedIsWritten, Submitted
  <2>. QED BY <1>3, <2>1, <2>2, <2>3
<1>9. WritesSound'
  <2>. SUFFICES ASSUME ~swallowed', NEW p \in Objects, written'[p], mem'[p] # "absent"
                PROVE  Durable'[p] = mem'[p]
    BY DEF WritesSound
  <2>1. o \in Covered(o)
    BY RecordOfObject DEF Covered
  <2>2. written'[p] = IF p \in Covered(o) /\ (ok \/ p = o) THEN ok ELSE written[p]
    BY <1>1 DEF Noted
  <2>3. CASE ok /\ p \in Covered(o)
    BY <1>6, <2>3 DEF Wrote
  <2>4. CASE ~(ok /\ p \in Covered(o))
    <3>1. p # o /\ written[p]
      BY <2>1, <2>2, <2>4
    <3>2. ~swallowed /\ Durable'[p] = Durable[p]
      BY <1>6, <2>4, <3>1 DEF Wrote
    <3>3. mem'[p] = mem[p] /\ mem[RegOf(p)] # "absent"
      BY <1>3, <3>1 DEF StoreSound, Rooted, RootedIn
    <3>. QED BY <1>2, <3>1, <3>2, <3>3 DEF StoreSound, WritesSound
  <2>. QED BY <2>3, <2>4
<1>. QED BY <1>3, <1>6, <1>7, <1>8, <1>9 DEF StoreKept, StoreSound

LEMMA UpdateSound ==
  ASSUME TypeOK, StoreSound, NEW o \in Objects, Update(o) PROVE StoreKept
BY PersistsSound DEF Update, StoreSound, Rooted, RootedIn

LEMMA AddRunSound ==
  ASSUME TypeOK, StoreSound, NEW g \in Regs, NEW r \in Later[g], AddRun(g, r) PROVE StoreKept
<1>1. r \in Objects /\ RegOf(r) = g
  BY RecordOfRegression DEF Record
<1>. QED BY <1>1, PersistsSound DEF AddRun, Stage

(* The memory of a regression that was not there and is created.            *)
LEMMA Created ==
  ASSUME TypeOK, Rooted, NEW g \in Regs, mem[g] = "absent",
         mem' = [o \in Objects |-> IF o \in {g} \union First[g] THEN "queued" ELSE mem[o]]
  PROVE  /\ mem' \in [Objects -> Value] /\ RootedIn(mem')
         /\ \A o \in Submitted(g) : mem'[o] = "queued"
         /\ \A o \in Record(g) \ Submitted(g) : mem'[o] = "absent"
         /\ \A o \in Objects \ Record(g) : mem'[o] = mem[o]
         /\ \A o \in Objects : mem[o] # "absent" => mem'[o] # "absent"
<1>0. Submitted(g) \subseteq Record(g) /\ Record(g) \subseteq Objects
  BY RecordOfRegression
<1>1. mem' \in [Objects -> Value]
  BY DEF TypeOK, Value, Stage
<1>2. /\ \A o \in Submitted(g) : mem'[o] = "queued"
      /\ \A o \in Objects \ Submitted(g) : mem'[o] = mem[o]
  BY <1>0 DEF Submitted
<1>3. \A o \in Record(g) : mem[o] = "absent"
  BY <1>0, RecordOfRegression DEF Rooted, RootedIn
<1>4. RootedIn(mem')
  <2>. SUFFICES ASSUME NEW p \in Objects, mem'[RegOf(p)] = "absent" PROVE mem'[p] = "absent"
    BY DEF RootedIn
  <2>1. RegOf(p) \in Objects
    BY RecordOfObject, RunsAreObjects
  <2>2. RegOf(p) \notin Submitted(g) /\ mem[RegOf(p)] = "absent"
    BY <1>2, <2>1
  <2>3. p \notin Submitted(g)
    BY <1>0, <2>2, RecordOfRegression DEF Submitted
  <2>4. mem[p] = "absent"
    BY <2>2 DEF Rooted, RootedIn
  <2>. QED BY <1>2, <2>3, <2>4
<1>. QED BY <1>0, <1>1, <1>2, <1>3, <1>4

LEMMA CreateInFileSound ==
  ASSUME TypeOK, StoreSound, NEW g \in Regs, CreateInFile(g) PROVE StoreKept
<1>1. PICK ok \in BOOLEAN :
       /\ mem' = IF Remembered(ok)
                 THEN [o \in Objects |-> IF o \in {g} \union First[g] THEN "queued" ELSE mem[o]]
                 ELSE mem
       /\ FileWrites({g}, ok)
       /\ written' = [o \in Objects |-> IF o \in {g} \union First[g] THEN ok ELSE written[o]]
       /\ Answer(g, ok)
  BY DEF CreateInFile
<1>2. /\ create.pc = "idle" /\ mem[g] = "absent" /\ UNCHANGED <<driver, create>>
      /\ g \in Objects
  BY RunsAreObjects DEF CreateInFile, Unlocked
<1>3. Remembered(ok) = ok /\ answer' = [answer EXCEPT ![g] = IF ok THEN "accepted" ELSE "refused"]
  BY <1>1 DEF Remembered, VerdictOnCreate, Answer
<1>4. RowsRooted /\ Rooted
  BY DEF StoreSound, Rooted, CreateSound, RowsRooted
<1>5. /\ mem' \in [Objects -> Value] /\ RootedIn(mem')
      /\ ok => \A o \in Submitted(g) : mem'[o] = "queued"
      /\ \A o \in Objects \ Record(g) : mem'[o] = mem[o]
      /\ \A o \in Objects : mem[o] # "absent" => mem'[o] # "absent"
      /\ ~ok => mem' = mem
  <2>1. CASE ok
    BY <1>1, <1>2, <1>3, <1>4, <2>1, Created
  <2>2. CASE ~ok
    BY <1>1, <1>3, <1>4, <2>2 DEF TypeOK, Rooted
  <2>. QED BY <2>1, <2>2
<1>6. Typed /\ RowsRooted' /\ Wrote(g, ok)
  BY <1>1, <1>2, <1>4, <1>5, FileEffect
<1>7. Covered(g) = Record(g)
  BY <1>1, RecordOfRegression DEF FileWrites, Covered
<1>8. Rooted' /\ CreateSound'
  BY <1>2, <1>5, <1>6 DEF Rooted, RowsRooted, CreateSound
<1>9. AcceptedIsWritten'
  <2>. SUFFICES ASSUME ~swallowed', NEW h \in Regs, answer'[h] = "accepted", NEW p \in Submitted(h)
                PROVE  Durable'[p] # "absent" /\ mem'[p] # "absent"
    BY DEF AcceptedIsWritten, Submitted
  <2>1. p \in Objects /\ p \in Record(h)
    BY RecordOfRegression
  <2>2. ~swallowed /\ Durable'[p] \in {Durable[p], mem'[p]}
    BY <1>6, <2>1 DEF Wrote
  <2>3. CASE h = g
    <3>1. ok
      BY <1>3, <2>3 DEF TypeOK
    <3>2. Durable'[p] = mem'[p] /\ mem'[p] = "queued"
      BY <1>5, <1>6, <1>7, <2>1, <2>3, <3>1 DEF Wrote
    <3>. QED BY <3>2
  <2>4. CASE h # g
    <3>1. answer[h] = "accepted"
      BY <1>3, <2>4 DEF TypeOK
    <3>2. Durable[p] # "absent" /\ mem[p] # "absent"
      BY <2>2, <3>1 DEF StoreSound, AcceptedIsWritten, Submitted
    <3>. QED BY <1>5, <2>1, <2>2, <3>2
  <2>. QED BY <2>3, <2>4
<1>10. WritesSound'
  <2>. SUFFICES ASSUME ~swallowed', NEW p \in Objects, written'[p], mem'[p] # "absent"
                PROVE  Durable'[p] = mem'[p]
    BY DEF WritesSound
  <2>1. CASE ok /\ p \in Record(g)
    BY <1>6, <1>7, <2>1 DEF Wrote
  <2>2. CASE ~(ok /\ p \in Record(g))
    <3>1. p # g /\ written[p]
      BY <1>1, <2>2, RecordOfRegression DEF Submitted
    <3>2. ~swallowed /\ Durable'[p] = Durable[p]
      BY <1>6, <1>7, <2>2, <3>1 DEF Wrote
    <3>3. mem'[p] = mem[p]
      BY <1>5, <2>2
    <3>4. mem[RegOf(p)] # "absent"
      BY <3>3 DEF StoreSound, Rooted, RootedIn
    <3>. QED BY <1>2, <3>1, <3>2, <3>3, <3>4 DEF StoreSound, WritesSound
  <2>. QED BY <2>1, <2>2
<1>. QED BY <1>5, <1>6, <1>8, <1>9, <1>10 DEF StoreKept, StoreSound

LEMMA CreateInDatabaseSound ==
  ASSUME TypeOK, StoreSound, NEW g \in Regs, CreateInDatabase(g) PROVE StoreKept
<1>1. /\ mem[g] = "absent" /\ answer[g] = "none" /\ create.pc = "idle"
      /\ create' = [pc |-> "rows", reg |-> g, left |-> Submitted(g)]
      /\ UNCHANGED <<driver, disk, tx, session, answer, written, swallowed, faults>>
  BY DEF CreateInDatabase, Unlocked, Submitted
<1>2. /\ mem' \in [Objects -> Value] /\ RootedIn(mem')
      /\ \A o \in Submitted(g) : mem'[o] = "queued"
      /\ \A o \in Record(g) \ Submitted(g) : mem'[o] = "absent"
      /\ \A o \in Objects \ Record(g) : mem'[o] = mem[o]
      /\ \A o \in Objects : mem[o] # "absent" => mem'[o] # "absent"
  BY <1>1, Created DEF CreateInDatabase, StoreSound
<1>3. Durable' = Durable
  BY <1>1 DEF Durable
<1>4. Rooted'
  BY <1>1, <1>2 DEF StoreSound, Rooted, RootedIn
<1>5. CreateSound'
  BY <1>1, <1>2 DEF StoreSound, CreateSound
<1>6. AcceptedIsWritten'
  <2>. SUFFICES ASSUME ~swallowed, NEW h \in Regs, answer[h] = "accepted", NEW p \in Submitted(h)
                PROVE  Durable[p] # "absent" /\ mem'[p] # "absent"
    BY <1>1, <1>3 DEF AcceptedIsWritten, Submitted
  <2>1. p \in Objects
    BY RecordOfRegression
  <2>. QED BY <1>2, <2>1 DEF StoreSound, AcceptedIsWritten, Submitted
<1>7. WritesSound'
  <2>. SUFFICES ASSUME ~swallowed, NEW p \in Objects \ Record(g), written[p], mem'[p] # "absent"
                PROVE  Durable[p] = mem'[p]
    BY <1>1, <1>3 DEF WritesSound
  <2>1. mem'[p] = mem[p] /\ mem[RegOf(p)] # "absent"
    BY <1>2 DEF StoreSound, Rooted, RootedIn
  <2>. QED BY <1>1, <2>1 DEF StoreSound, WritesSound
<1>. QED BY <1>1, <1>2, <1>4, <1>5, <1>6, <1>7 DEF StoreKept, StoreSound, Typed, TypeOK

LEMMA CreateRowSound ==
  ASSUME TypeOK, StoreSound, NEW o \in Objects, CreateRow(o) PROVE StoreKept
<1>1. PICK ok \in BOOLEAN :
        /\ mem' = mem /\ RowWritten(o, ok) /\ Noted(o, ok)
        /\ create' = IF ok THEN [create EXCEPT !.left = create.left \ {o}]
                           ELSE [create EXCEPT !.left = {}]
        /\ answer' = IF ok THEN answer ELSE [answer EXCEPT ![create.reg] = "refused"]
  BY DEF CreateRow, VerdictOnCreate
<1>2. PICK g \in Regs : create.pc = "rows" /\ g = create.reg /\ o \in create.left
  BY DEF CreateRow, TypeOK, Idle
<1>3. /\ create'.pc = "rows" /\ create'.reg = g
      /\ create'.left = IF ok THEN create.left \ {o} ELSE {}
  BY <1>1, <1>2 DEF TypeOK, Idle
<1>4. UNCHANGED driver
  BY DEF CreateRow
<1>5. o \in Submitted(g) /\ mem[o] = "queued"
  BY <1>2 DEF StoreSound, CreateSound
<1>6. Typed /\ RowsRooted' /\ Wrote(o, ok)
  <2>1. RowsRooted
    BY DEF StoreSound, Rooted, CreateSound, RowsRooted
  <2>2. mem' \in [Objects -> Value] /\ mem'[o] # "absent"
    BY <1>1, <1>5 DEF TypeOK
  <2>. QED BY <1>1, <1>4, <2>1, <2>2, RowEffect
<1>7. Covered(o) = {o}
  BY <1>1 DEF RowWritten, Covered
<1>8. Rooted'
  BY <1>1, <1>6 DEF StoreSound, Rooted, RowsRooted, RootedIn
<1>9. CreateSound'
  <2>1. driver' = "file" => tx' = "none"
    BY <1>6 DEF RowsRooted
  <2>2. create'.left \subseteq Submitted(g)
    BY <1>2, <1>3 DEF StoreSound, CreateSound
  <2>3. answer'[g] # "accepted" /\ (answer'[g] # "refused" => ok /\ answer[g] # "refused")
    BY <1>1, <1>2 DEF TypeOK, StoreSound, CreateSound
  <2>4. /\ \A p \in Submitted(g) : mem'[p] = "queued"
        /\ \A p \in Record(g) \ Submitted(g) : mem'[p] = "absent"
    BY <1>1, <1>2 DEF StoreSound, CreateSound
  <2>5. ASSUME ~swallowed', answer'[g] # "refused", NEW p \in Submitted(g) \ create'.left
        PROVE  Durable'[p] = "queued"
    <3>1. p \in Objects /\ ~swallowed
      BY <1>6, <2>5, RecordOfRegression DEF Wrote
    <3>2. CASE p = o
      BY <1>1, <1>5, <1>6, <1>7, <2>3, <2>5, <3>1, <3>2 DEF Wrote
    <3>3. CASE p # o
      <4>1. Durable'[p] = Durable[p]
        BY <1>6, <1>7, <2>5, <3>1, <3>3 DEF Wrote
      <4>2. p \notin create.left
        BY <1>3, <2>3, <2>5, <3>3
      <4>. QED BY <1>2, <2>3, <2>5, <3>1, <4>1, <4>2 DEF StoreSound, CreateSound
    <3>. QED BY <3>2, <3>3
  <2>. QED BY <1>3, <2>1, <2>2, <2>3, <2>4, <2>5 DEF CreateSound
<1>10. AcceptedIsWritten'
  <2>. SUFFICES ASSUME ~swallowed', NEW h \in Regs, answer'[h] = "accepted", NEW p \in Submitted(h)
                PROVE  Durable'[p] # "absent" /\ mem'[p] # "absent"
    BY DEF AcceptedIsWritten, Submitted
  <2>1. p \in Objects
    BY RecordOfRegression
  <2>2. ~swallowed /\ Durable'[p] \in {Durable[p], mem[p]}
    BY <1>1, <1>6, <2>1 DEF Wrote
  <2>3. answer[h] = "accepted"
    BY <1>1 DEF TypeOK
  <2>4. Durable[p] # "absent" /\ mem[p] # "absent"
    BY <2>2, <2>3 DEF StoreSound, AcceptedIsWritten, Submitted
  <2>. QED BY <1>1, <2>2, <2>4
<1>11. WritesSound'
  <2>. SUFFICES ASSUME ~swallowed', NEW p \in Objects \ Record(g), written'[p], mem[p] # "absent",
                       mem[RegOf(p)] # "absent"
                PROVE  Durable'[p] = mem[p]
    BY <1>1, <1>3 DEF WritesSound
  <2>1. p # o
    BY <1>5, RecordOfRegression
  <2>2. written[p] /\ ~swallowed /\ Durable'[p] = Durable[p]
    BY <1>1, <1>6, <1>7, <2>1 DEF Noted, Wrote
  <2>. QED BY <1>2, <2>2 DEF StoreSound, WritesSound
<1>. QED BY <1>1, <1>6, <1>8, <1>9, <1>10, <1>11 DEF StoreKept, StoreSound, TypeOK

LEMMA CreateReturnsSound ==
  ASSUME TypeOK, StoreSound, CreateReturns PROVE StoreKept
<1>1. PICK g \in Regs : create.pc = "rows" /\ g = create.reg /\ create.left = {}
  BY DEF CreateReturns, TypeOK, Idle
<1>2. create'.pc = "idle" /\ UNCHANGED <<driver, disk, tx, session, written, swallowed, faults>>
  BY DEF CreateReturns, Idle
<1>3. Durable' = Durable
  BY <1>2 DEF Durable
<1>4. Typed
  BY <1>2 DEF Typed, TypeOK
<1>5. CreateSound'
  BY <1>2 DEF StoreSound, CreateSound
<1>6. CASE answer[g] = "refused"
  <2>1. /\ mem' = [o \in Objects |-> IF o \in Record(g) THEN "absent" ELSE mem[o]]
        /\ UNCHANGED answer
    BY <1>1, <1>6 DEF CreateReturns, Remembered, VerdictOnCreate
  <2>2. mem' \in [Objects -> Value]
    BY <2>1 DEF TypeOK, Value
  <2>3. RootedIn(mem')
    <3>. SUFFICES ASSUME NEW p \in Objects, mem'[RegOf(p)] = "absent" PROVE mem'[p] = "absent"
      BY DEF RootedIn
    <3>1. RegOf(p) \in Objects /\ RegOf(p) \in Regs /\ p \in Record(RegOf(p))
      BY RecordOfObject, RunsAreObjects
    <3>2. CASE RegOf(p) \in Record(g)
      <4>1. RegOf(p) = g
        BY <3>1, <3>2, RecordOfRegression
      <4>. QED BY <2>1, <3>1, <4>1
    <3>3. CASE RegOf(p) \notin Record(g)
      BY <2>1, <3>1, <3>3 DEF StoreSound, Rooted, RootedIn
    <3>. QED BY <3>2, <3>3
  <2>4. AcceptedIsWritten'
    <3>. SUFFICES ASSUME ~swallowed, NEW h \in Regs, answer[h] = "accepted", NEW p \in Submitted(h)
                  PROVE  Durable[p] # "absent" /\ mem'[p] # "absent"
      BY <1>2, <1>3, <2>1 DEF AcceptedIsWritten, Submitted
    <3>1. p \in Objects /\ p \notin Record(g)
      BY <1>6, RecordOfRegression
    <3>. QED BY <2>1, <3>1 DEF StoreSound, AcceptedIsWritten, Submitted
  <2>5. WritesSound'
    <3>. SUFFICES ASSUME ~swallowed, NEW p \in Objects, written[p], mem'[p] # "absent"
                  PROVE  Durable[p] = mem'[p]
      BY <1>2, <1>3 DEF WritesSound
    <3>1. p \notin Record(g) /\ mem'[p] = mem[p] /\ mem[RegOf(p)] # "absent"
      BY <2>1 DEF StoreSound, Rooted, RootedIn
    <3>. QED BY <1>1, <3>1 DEF StoreSound, WritesSound
  <2>6. Rooted'
    BY <1>2, <2>3 DEF StoreSound, Rooted, RootedIn
  <2>. QED BY <1>4, <1>5, <2>2, <2>4, <2>5, <2>6 DEF StoreKept, StoreSound
<1>7. CASE answer[g] # "refused"
  <2>1. answer' = [answer EXCEPT ![g] = "accepted"] /\ UNCHANGED mem
    BY <1>1, <1>7 DEF CreateReturns
  <2>2. ~swallowed => \A p \in Submitted(g) : Durable[p] = "queued" /\ mem[p] = "queued"
    BY <1>1, <1>7 DEF StoreSound, CreateSound
  <2>3. AcceptedIsWritten'
    <3>. SUFFICES ASSUME ~swallowed, NEW h \in Regs, answer'[h] = "accepted", NEW p \in Submitted(h)
                  PROVE  Durable[p] # "absent" /\ mem[p] # "absent"
      BY <1>2, <1>3, <2>1 DEF AcceptedIsWritten, Submitted
    <3>1. CASE h = g
      BY <2>2, <3>1
    <3>2. CASE h # g
      BY <2>1, <3>2 DEF StoreSound, AcceptedIsWritten, Submitted, TypeOK
    <3>. QED BY <3>1, <3>2
  <2>4. WritesSound'
    <3>. SUFFICES ASSUME ~swallowed, NEW p \in Objects, written[p], mem[p] # "absent",
                         mem[RegOf(p)] # "absent"
                  PROVE  Durable[p] = mem[p]
      BY <1>2, <1>3, <2>1 DEF WritesSound
    <3>1. CASE p \in Record(g)
      <4>1. p \in Submitted(g)
        BY <1>1, <3>1 DEF StoreSound, CreateSound
      <4>. QED BY <2>2, <4>1
    <3>2. CASE p \notin Record(g)
      BY <1>1, <3>2 DEF StoreSound, WritesSound
    <3>. QED BY <3>1, <3>2
  <2>5. Rooted' /\ mem' \in [Objects -> Value]
    BY <1>2, <2>1 DEF StoreSound, Rooted, RootedIn, TypeOK
  <2>. QED BY <1>4, <1>5, <2>3, <2>4, <2>5 DEF StoreKept, StoreSound
<1>. QED BY <1>6, <1>7

(* The catalog's transaction touches the store's rows only where swallowed  *)
(* says so.                                                                 *)
LEMMA CatalogSound ==
  ASSUME TypeOK, StoreSound, CatalogBegins \/ CatalogCommits \/ CatalogRollsBack
  PROVE  StoreKept
<1>1. UNCHANGED <<driver, mem, create, answer, written>>
  BY DEF CatalogBegins, CatalogCommits, CatalogRollsBack
<1>2. ~swallowed' => ~swallowed /\ Durable' = Durable
  <2>1. CASE CatalogBegins
    BY <2>1 DEF CatalogBegins, Durable
  <2>2. CASE CatalogCommits
    BY <2>2 DEF CatalogCommits, Durable, TypeOK
  <2>3. CASE CatalogRollsBack
    BY <2>3 DEF CatalogRollsBack, Durable, TypeOK
  <2>. QED BY <2>1, <2>2, <2>3
<1>3. faults' \in 0 .. MaxFaults
  BY FaultTyped DEF CatalogBegins, CatalogCommits, CatalogRollsBack, TypeOK
<1>4. Typed
  BY <1>3 DEF CatalogBegins, CatalogCommits, CatalogRollsBack, Typed, TypeOK
<1>5. RowsRooted'
  BY DEF CatalogBegins, CatalogCommits, CatalogRollsBack, RowsRooted, StoreSound, Rooted, RootedIn,
         CreateSound
<1>6. Rooted'
  BY <1>1, <1>5 DEF RowsRooted, Rooted, StoreSound, RootedIn
<1>7. CreateSound'
  BY <1>1, <1>2, <1>5 DEF RowsRooted, StoreSound, CreateSound
<1>8. AcceptedIsWritten' /\ WritesSound'
  BY <1>1, <1>2 DEF StoreSound, AcceptedIsWritten, WritesSound
<1>. QED BY <1>1, <1>4, <1>6, <1>7, <1>8 DEF StoreKept, StoreSound, TypeOK

LEMMA LoadedTyped ==
  ASSUME TypeOK, RootedIn(disk)
  PROVE  /\ Loaded \in [Objects -> Value]
         /\ \A o \in Objects : Loaded[o] = "absent" <=> disk[o] = "absent"
         /\ RootedIn(Loaded)
<1>1. ASSUME NEW o \in Objects
      PROVE  /\ Loaded[o] \in Value
             /\ Loaded[o] = "absent" <=> disk[o] = "absent"
  BY DEF Loaded, Requeued, TypeOK, Value, Stage, RootedIn
<1>2. Loaded \in [Objects -> Value]
  BY <1>1 DEF Loaded
<1>3. RootedIn(Loaded)
  <2>. SUFFICES ASSUME NEW o \in Objects, Loaded[RegOf(o)] = "absent" PROVE Loaded[o] = "absent"
    BY DEF RootedIn
  <2>1. RegOf(o) \in Objects
    BY RecordOfObject, RunsAreObjects
  <2>. QED BY <1>1, <2>1 DEF RootedIn
<1>. QED BY <1>1, <1>2, <1>3

LEMMA RestartSound ==
  ASSUME TypeOK, StoreSound, Restart
  PROVE  StoreKept /\ (~swallowed' => ~swallowed /\ Durable = disk)
<1>0. RootedIn(disk) /\ UNCHANGED <<driver, disk, session, answer>> /\ tx' = "none"
  BY DEF StoreSound, Rooted, Restart
<1>1. mem' \in [Objects -> Value] /\ RootedIn(mem')
  BY <1>0, LoadedTyped DEF Restart
<1>2. ~swallowed' => ~swallowed /\ Durable = disk
  BY DEF Restart, Durable
<1>3. Durable' = disk
  BY <1>0 DEF Durable
<1>4. Typed
  BY FaultTyped DEF Restart, Typed, TypeOK
<1>5. Rooted' /\ CreateSound'
  BY <1>0, <1>1 DEF StoreSound, Rooted, RootedIn, CreateSound, Restart, Idle
<1>6. AcceptedIsWritten'
  <2>. SUFFICES ASSUME ~swallowed', NEW h \in Regs, answer[h] = "accepted", NEW p \in Submitted(h)
                PROVE  disk[p] # "absent" /\ Loaded[p] # "absent"
    BY <1>0, <1>3 DEF AcceptedIsWritten, Submitted, Restart
  <2>1. p \in Objects
    BY RecordOfRegression
  <2>2. disk[p] # "absent"
    BY <1>2 DEF StoreSound, AcceptedIsWritten, Submitted
  <2>. QED BY <1>0, <2>1, <2>2, LoadedTyped
<1>7. WritesSound'
  BY <1>3 DEF WritesSound, Restart
<1>. QED BY <1>1, <1>2, <1>4, <1>5, <1>6, <1>7 DEF StoreKept, StoreSound

(* Every step of the store, and of somebody who only looks.                 *)
LEMMA StoreStep == ASSUME TypeOK, StoreSound, [Next]_vars PROVE StoreKept
<1>1. ASSUME NEW g \in Regs, NEW r \in Later[g], AddRun(g, r) PROVE StoreKept
  BY <1>1, AddRunSound
<1>2. CASE (\E c \in Clients : Poll(c) \/ Wakes(c) \/ Reads(c)) \/ UNCHANGED vars
  <2>1. UNCHANGED <<driver, mem, disk, tx, session, create, answer, written, swallowed, faults>>
    BY <1>2 DEF Poll, Wakes, Reads, vars
  <2>2. Durable' = Durable
    BY <2>1 DEF Durable
  <2>3. Rooted' /\ CreateSound'
    BY <2>1, <2>2 DEF StoreSound, Rooted, RootedIn, CreateSound
  <2>4. AcceptedIsWritten' /\ WritesSound'
    BY <2>1, <2>2 DEF StoreSound, AcceptedIsWritten, WritesSound
  <2>. QED BY <2>1, <2>3, <2>4 DEF StoreKept, StoreSound, Typed, TypeOK
<1>. QED BY <1>1, <1>2, UpdateSound, CreateRowSound, CreateInFileSound, CreateInDatabaseSound,
            CreateReturnsSound, CatalogSound, RestartSound DEF Next

-----------------------------------------------------------------------------
(* Types                                                                    *)

(* What the actions leave of the other variables.                           *)
LEMMA TouchTyped ==
  ASSUME TypeOK, Touch PROVE revision' \in Nat /\ client' \in [Clients -> Client]
<1>1. \A c \in Clients : [client[c] EXCEPT !.pc = "woken"] \in Client
  BY DEF TypeOK, Client
<1>. QED BY <1>1 DEF Touch, TypeOK

LEMMA MutationTyped ==
  ASSUME TypeOK, Mutates PROVE mutations' \in 0 .. MaxMutations
BY BoundsAssumption DEF Mutates, TypeOK

Rest == /\ driver' \in Drivers /\ saving' \in BOOLEAN
        /\ create' \in {Idle} \union [pc: {"rows"}, reg: Regs, left: SUBSET Objects]
        /\ revision' \in Nat /\ client' \in [Clients -> Client]
        /\ answer' \in [Regs -> {"none", "accepted", "refused"}]
        /\ written' \in [Objects -> BOOLEAN] /\ restarted' \in BOOLEAN
        /\ mutations' \in 0 .. MaxMutations

LEMMA NotedTyped ==
  ASSUME TypeOK, NEW o, NEW ok \in BOOLEAN, Noted(o, ok) PROVE written' \in [Objects -> BOOLEAN]
BY DEF Noted, TypeOK

LEMMA PersistsTyped ==
  ASSUME TypeOK, NEW o, NEW v, Persists(o, v) PROVE Rest
<1>1. written' \in [Objects -> BOOLEAN]
  BY NotedTyped DEF Persists
<1>2. revision' \in Nat /\ client' \in [Clients -> Client]
  BY TouchTyped DEF Persists
<1>3. mutations' \in 0 .. MaxMutations
  BY MutationTyped DEF Persists
<1>. QED BY <1>1, <1>2, <1>3 DEF Persists, Rest, TypeOK

LEMMA RestStep == ASSUME TypeOK, [Next]_vars PROVE Rest
<1>1. ASSUME NEW o \in Objects, Update(o) PROVE Rest
  BY <1>1, PersistsTyped DEF Update
<1>2. ASSUME NEW g \in Regs, NEW r \in Later[g], AddRun(g, r) PROVE Rest
  BY <1>2, PersistsTyped DEF AddRun
<1>3. ASSUME NEW g \in Regs, CreateInFile(g) PROVE Rest
  <2>1. PICK ok \in BOOLEAN :
          /\ written' = [o \in Objects |-> IF o \in {g} \union First[g] THEN ok ELSE written[o]]
          /\ Answer(g, ok)
    BY <1>3 DEF CreateInFile
  <2>2. written' \in [Objects -> BOOLEAN]
    BY <2>1 DEF TypeOK
  <2>3. answer' \in [Regs -> {"none", "accepted", "refused"}]
    BY <2>1 DEF Answer, VerdictOnCreate, TypeOK
  <2>4. revision' \in Nat /\ client' \in [Clients -> Client]
    BY <2>1, TouchTyped DEF Answer, TypeOK
  <2>5. mutations' \in 0 .. MaxMutations
    BY <1>3, MutationTyped DEF CreateInFile
  <2>. QED BY <1>3, <2>2, <2>3, <2>4, <2>5 DEF CreateInFile, Rest, TypeOK
<1>4. ASSUME NEW g \in Regs, CreateInDatabase(g) PROVE Rest
  <2>1. {g} \union First[g] \in SUBSET Objects
    BY RecordOfRegression DEF Submitted
  <2>2. create' \in [pc: {"rows"}, reg: Regs, left: SUBSET Objects]
    BY <1>4, <2>1 DEF CreateInDatabase
  <2>3. mutations' \in 0 .. MaxMutations
    BY <1>4, MutationTyped DEF CreateInDatabase
  <2>. QED BY <1>4, <2>2, <2>3 DEF CreateInDatabase, Rest, TypeOK
<1>5. ASSUME NEW o \in Objects, CreateRow(o) PROVE Rest
  <2>1. PICK ok \in BOOLEAN :
          /\ Noted(o, ok)
          /\ create' = IF ok THEN [create EXCEPT !.left = create.left \ {o}]
                             ELSE [create EXCEPT !.left = {}]
          /\ answer' = IF ok THEN answer ELSE [answer EXCEPT ![create.reg] = "refused"]
    BY <1>5 DEF CreateRow, VerdictOnCreate
  <2>2. create \in [pc: {"rows"}, reg: Regs, left: SUBSET Objects]
    BY <1>5 DEF CreateRow, TypeOK, Idle
  <2>3. create' \in [pc: {"rows"}, reg: Regs, left: SUBSET Objects]
    BY <2>1, <2>2
  <2>4. answer' \in [Regs -> {"none", "accepted", "refused"}]
    BY <2>1, <2>2 DEF TypeOK
  <2>5. written' \in [Objects -> BOOLEAN]
    BY <2>1, NotedTyped
  <2>. QED BY <1>5, <2>3, <2>4, <2>5 DEF CreateRow, Rest, TypeOK
<1>6. CASE CreateReturns
  <2>1. create.reg \in Regs
    BY <1>6 DEF CreateReturns, TypeOK, Idle
  <2>2. answer' \in [Regs -> {"none", "accepted", "refused"}]
    BY <1>6, <2>1 DEF CreateReturns, TypeOK
  <2>3. revision' \in Nat /\ client' \in [Clients -> Client]
    BY <1>6, TouchTyped DEF CreateReturns, TypeOK
  <2>. QED BY <1>6, <2>2, <2>3 DEF CreateReturns, Rest, TypeOK
<1>7. CASE CatalogBegins \/ CatalogCommits \/ CatalogRollsBack
  BY <1>7 DEF CatalogBegins, CatalogCommits, CatalogRollsBack, Rest, TypeOK
<1>8. ASSUME NEW c \in Clients, Poll(c) \/ Wakes(c) \/ Reads(c) PROVE Rest
  <2>1. \A pc \in {"parked", "woken", "reads", "polls"} :
          /\ [client[c] EXCEPT !.pc = pc] \in Client
          /\ [client[c] EXCEPT !.pc = pc, !.since = revision] \in Client
          /\ [client[c] EXCEPT !.pc = pc, !.view = mem] \in Client
    BY DEF TypeOK, Client
  <2>2. CASE Poll(c)
    <3>1. client' \in [Clients -> Client]
      BY <2>1, <2>2 DEF Poll, TypeOK
    <3>. QED BY <2>2, <3>1 DEF Poll, Rest, TypeOK
  <2>3. CASE Wakes(c)
    <3>1. client' = [client EXCEPT ![c] = [client[c] EXCEPT !.pc = "reads", !.since = revision]]
      BY <2>3 DEF Wakes, TypeOK, Client
    <3>2. client' \in [Clients -> Client]
      BY <2>1, <3>1 DEF TypeOK
    <3>. QED BY <2>3, <3>2 DEF Wakes, Rest, TypeOK
  <2>4. CASE Reads(c)
    <3>1. client' = [client EXCEPT ![c] = [client[c] EXCEPT !.pc = "polls", !.view = mem]]
      BY <2>4 DEF Reads, TypeOK, Client
    <3>2. client' \in [Clients -> Client]
      BY <2>1, <3>1 DEF TypeOK
    <3>. QED BY <2>4, <3>2 DEF Reads, Rest, TypeOK
  <2>. QED BY <1>8, <2>2, <2>3, <2>4
<1>9. CASE Restart
  <2>1. \A c \in Clients : [client[c] EXCEPT !.pc = "polls"] \in Client
    BY DEF TypeOK, Client
  <2>2. client' \in [Clients -> Client] /\ written' \in [Objects -> BOOLEAN]
    BY <1>9, <2>1 DEF Restart
  <2>. QED BY <1>9, <2>2 DEF Restart, Rest, TypeOK
<1>10. CASE UNCHANGED vars
  BY <1>10 DEF vars, Rest, TypeOK
<1>. QED BY <1>1, <1>2, <1>3, <1>4, <1>5, <1>6, <1>7, <1>8, <1>9, <1>10 DEF Next

-----------------------------------------------------------------------------
(* Dashboards                                                               *)

LEMMA TouchViews ==
  ASSUME TypeOK, ViewsSound, Touch, UNCHANGED restarted PROVE ViewsSound'
<1>. SUFFICES ASSUME ~restarted, NEW c \in Clients
              PROVE  client'[c].since < revision' /\ client'[c].pc # "parked"
  BY TouchTyped DEF ViewsSound, Client
<1>1. client[c] \in Client /\ client[c].since <= revision
  BY DEF ViewsSound, TypeOK
<1>2. client'[c].since = client[c].since /\ client'[c].pc # "parked"
  BY <1>1 DEF Touch, Client
<1>. QED BY <1>1, <1>2 DEF Touch, Client, TypeOK

LEMMA SameViews ==
  ASSUME ViewsSound, UNCHANGED <<client, revision, restarted>>, Seen' = Seen PROVE ViewsSound'
BY DEF ViewsSound

LEMMA ViewsStep ==
  ASSUME TypeOK, Rooted, CreateSound, ViewsSound, [Next]_vars PROVE ViewsSound'
<1>1. ASSUME NEW o, NEW v, Persists(o, v) PROVE ViewsSound'
  BY <1>1, TouchViews DEF Persists
<1>2. ASSUME NEW g \in Regs, CreateInFile(g) PROVE ViewsSound'
  <2>1. PICK ok \in BOOLEAN :
          /\ ~ok => mem' = mem
          /\ Answer(g, ok)
    BY <1>2 DEF CreateInFile, Remembered, VerdictOnCreate
  <2>2. CASE ok
    BY <1>2, <2>1, <2>2, TouchViews DEF CreateInFile, Answer, VerdictOnCreate
  <2>3. CASE ~ok
    <3>1. Seen' = Seen
      BY <1>2, <2>1, <2>3 DEF CreateInFile, Seen
    <3>. QED BY <1>2, <2>1, <2>3, <3>1, SameViews DEF CreateInFile, Answer, VerdictOnCreate
  <2>. QED BY <2>2, <2>3
<1>3. ASSUME NEW g \in Regs, CreateInDatabase(g) PROVE ViewsSound'
  <2>1. /\ mem[g] = "absent" /\ create.pc = "idle" /\ create'.pc = "rows" /\ create'.reg = g
        /\ UNCHANGED <<client, revision, restarted>>
    BY <1>3 DEF CreateInDatabase, Unlocked
  <2>2. \A o \in Objects : o \notin Record(g) => mem'[o] = mem[o]
    BY <1>3, <2>1, Created DEF CreateInDatabase
  <2>3. \A o \in Record(g) : mem[o] = "absent"
    BY <2>1, RecordOfRegression DEF Rooted, RootedIn
  <2>4. Seen = mem
    BY <2>1 DEF Seen, TypeOK
  <2>5. Seen' = [o \in Objects |-> IF o \in Record(g) THEN "absent" ELSE mem'[o]]
    BY <2>1 DEF Seen
  <2>6. Seen' = [o \in Objects |-> mem[o]]
    BY <2>2, <2>3, <2>5
  <2>7. Seen' = Seen
    BY <2>4, <2>6 DEF TypeOK
  <2>. QED BY <2>1, <2>7, SameViews
<1>4. ASSUME NEW o \in Objects, CreateRow(o) PROVE ViewsSound'
  <2>1. /\ create.pc = "rows" /\ create'.pc = "rows" /\ create'.reg = create.reg /\ mem' = mem
        /\ UNCHANGED <<client, revision, restarted>>
    BY <1>4 DEF CreateRow, VerdictOnCreate, TypeOK, Idle
  <2>2. Seen' = Seen
    BY <2>1 DEF Seen
  <2>. QED BY <2>1, <2>2, SameViews
<1>5. CASE CreateReturns
  <2>1. CASE answer[create.reg] = "refused"
    <3>1. /\ mem' = [o \in Objects |-> IF o \in Record(create.reg) THEN "absent" ELSE mem[o]]
          /\ create.pc = "rows" /\ create'.pc = "idle"
          /\ UNCHANGED <<client, revision, restarted>>
      BY <1>5, <2>1 DEF CreateReturns, Remembered, VerdictOnCreate, Idle
    <3>2. Seen = mem'
      BY <3>1 DEF Seen
    <3>3. Seen' = [o \in Objects |-> mem'[o]]
      BY <3>1 DEF Seen
    <3>4. Seen' = Seen
      BY <3>1, <3>2, <3>3
    <3>. QED BY <3>1, <3>4, SameViews
  <2>2. CASE answer[create.reg] # "refused"
    BY <1>5, <2>2, TouchViews DEF CreateReturns
  <2>. QED BY <2>1, <2>2
<1>6. CASE CatalogBegins \/ CatalogCommits \/ CatalogRollsBack \/ UNCHANGED vars
  <2>1. UNCHANGED <<mem, create, client, revision, restarted>>
    BY <1>6 DEF CatalogBegins, CatalogCommits, CatalogRollsBack, vars
  <2>2. Seen' = Seen
    BY <2>1 DEF Seen
  <2>. QED BY <2>1, <2>2, SameViews
<1>7. ASSUME NEW c \in Clients, Poll(c) \/ Wakes(c) \/ Reads(c) PROVE ViewsSound'
  <2>1. create.pc = "idle" /\ UNCHANGED <<mem, create, revision, restarted>>
    BY <1>7 DEF Poll, Wakes, Reads, Unlocked
  <2>2. Seen = mem /\ Seen' = mem
    BY <2>1 DEF Seen, TypeOK
  <2>3. \A d \in Clients \ {c} : client'[d] = client[d]
    BY <1>7 DEF Poll, Wakes, Reads, TypeOK
  <2>4. client[c] \in Client /\ revision \in Nat
    BY DEF TypeOK
  <2>. SUFFICES ASSUME ~restarted
                PROVE  /\ client'[c].since <= revision
                       /\ client'[c].pc = "parked" => client'[c].since = revision
                       /\ client'[c].pc \in {"parked", "polls"} /\ client'[c].since = revision
                            => client'[c].view = mem
    BY <2>1, <2>2, <2>3 DEF ViewsSound
  <2>5. CASE Poll(c)
    <3>1. CASE MovedOn(c)
      <4>1. client'[c] = [client[c] EXCEPT !.pc = "reads", !.since = revision]
        BY <2>5, <3>1 DEF Poll, TypeOK
      <4>. QED BY <2>4, <4>1 DEF Client
    <3>2. CASE ~MovedOn(c)
      <4>1. client'[c] = [client[c] EXCEPT !.pc = "parked"] /\ client[c].pc = "polls"
        BY <2>5, <3>2 DEF Poll, TypeOK
      <4>2. client[c].since = revision
        BY <2>4, <3>2 DEF MovedOn, ViewsSound, Client
      <4>3. client[c].view = mem
        BY <2>2, <4>1, <4>2 DEF ViewsSound
      <4>. QED BY <2>4, <4>1, <4>2, <4>3 DEF Client
    <3>. QED BY <3>1, <3>2
  <2>6. CASE Wakes(c)
    <3>1. client'[c].pc = "reads" /\ client'[c].since = revision
      BY <2>4, <2>6 DEF Wakes, TypeOK, Client
    <3>. QED BY <2>4, <3>1
  <2>7. CASE Reads(c)
    <3>1. client'[c].pc = "polls" /\ client'[c].since = client[c].since /\ client'[c].view = mem
      BY <2>4, <2>7 DEF Reads, TypeOK, Client
    <3>. QED BY <3>1 DEF ViewsSound
  <2>. QED BY <1>7, <2>5, <2>6, <2>7
<1>8. CASE Restart
  BY <1>8 DEF Restart, ViewsSound
<1>9. ASSUME NEW o \in Objects, Update(o) PROVE ViewsSound'
  BY <1>1, <1>9 DEF Update
<1>10. ASSUME NEW g \in Regs, NEW r \in Later[g], AddRun(g, r) PROVE ViewsSound'
  BY <1>1, <1>10 DEF AddRun
<1>. QED BY <1>2, <1>3, <1>4, <1>5, <1>6, <1>7, <1>8, <1>9, <1>10 DEF Next

-----------------------------------------------------------------------------
(* The theorems                                                             *)

LEMMA InvInit == Init => Inv
<1>. SUFFICES ASSUME Init PROVE Inv
  OBVIOUS
<1>1. Nothing \in [Objects -> Value] /\ RootedIn(Nothing)
  BY RecordOfObject, RunsAreObjects DEF Nothing, Value, RootedIn
<1>2. mutations \in 0 .. MaxMutations /\ faults \in 0 .. MaxFaults
  BY BoundsAssumption DEF Init
<1>3. client \in [Clients -> Client]
  BY <1>1 DEF Init, Client
<1>4. TypeOK
  BY <1>1, <1>2, <1>3 DEF Init, TypeOK
<1>5. Rooted
  BY <1>1 DEF Init, Rooted
<1>6. CreateSound /\ AcceptedIsWritten /\ WritesSound
  BY DEF Init, CreateSound, AcceptedIsWritten, WritesSound, Idle
<1>7. Seen = Nothing
  BY DEF Init, Seen, Idle, Nothing
<1>8. ViewsSound
  BY <1>7 DEF Init, ViewsSound
<1>. QED BY <1>4, <1>5, <1>6, <1>8 DEF Inv

LEMMA InvStep == Inv /\ [Next]_vars => Inv'
<1>. SUFFICES ASSUME Inv, [Next]_vars PROVE Inv'
  OBVIOUS
<1>1. TypeOK /\ StoreSound /\ Rooted /\ CreateSound /\ ViewsSound
  BY DEF Inv, StoreSound
<1>2. StoreKept /\ Rest /\ ViewsSound'
  BY <1>1, StoreStep, RestStep, ViewsStep
<1>3. TypeOK'
  BY <1>2 DEF StoreKept, Typed, Rest, TypeOK
<1>. QED BY <1>2, <1>3 DEF Inv, StoreKept, StoreSound

(* The inductive invariant.                                                 *)
THEOREM StoreInvariant == Spec => []Inv
BY InvInit, InvStep, PTL DEF Spec

(* Memory, disk, the transaction and the dashboards stay well-formed.       *)
THEOREM StoreTypes == Spec => []TypeOK
<1>1. Inv => TypeOK
  BY DEF Inv
<1>. QED BY StoreInvariant, <1>1, PTL

(* A submission that was answered for is written with all its runs, in a    *)
(* file or row by row, beside a catalog being saved, through any failures   *)
(* and restarts, unless its rows went under with the catalog's transaction. *)
THEOREM AcceptedStaysWritten == Spec => []AcceptedIsWritten
<1>1. Inv => AcceptedIsWritten
  BY DEF Inv
<1>. QED BY StoreInvariant, <1>1, PTL

(* An object whose last write returned no error is durable as it is in      *)
(* memory, with the same exception.                                         *)
THEOREM WritesAreDurable == Spec => []WrittenIsDurable
<1>1. Inv => WrittenIsDurable
  BY DEF Inv, WritesSound, WrittenIsDurable, Unlocked
<1>. QED BY StoreInvariant, <1>1, PTL

(* No dashboard, of any number, sleeps on a change it has not read.         *)
THEOREM NobodySleepsThrough == Spec => []NoStaleSleep
<1>1. Inv => NoStaleSleep
  <2>. SUFFICES ASSUME Inv, ~restarted, create.pc = "idle", NEW c \in Clients, client[c].pc = "parked"
                PROVE  client[c].view = mem
    BY DEF NoStaleSleep, Unlocked
  <2>1. Seen = mem
    BY DEF Seen, Inv, TypeOK
  <2>. QED BY <2>1 DEF Inv, ViewsSound
<1>. QED BY StoreInvariant, <1>1, PTL

(* A verdict whose write went well is not undone by any restart.            *)
THEOREM VerdictsSurvive == Spec => VerdictSurvives
<1>1. ASSUME Inv, [Next]_vars, NEW r \in Runs, mem[r] = "over", written[r], Unlocked,
             revision' = 0, ~swallowed'
      PROVE  mem'[r] = "over"
  <2>0. r \in Objects /\ RegOf(r) \in Objects /\ StoreSound /\ TypeOK /\ create.pc = "idle"
    BY <1>1, RunsAreObjects, RecordOfObject DEF Inv, StoreSound, Unlocked
  <2>1. CASE Restart
    <3>1. ~swallowed /\ Durable = disk
      BY <1>1, <2>0, <2>1, RestartSound
    <3>2. mem[RegOf(r)] # "absent"
      BY <1>1, <2>0 DEF StoreSound, Rooted, RootedIn
    <3>3. disk[r] = "over"
      BY <1>1, <2>0, <3>1, <3>2 DEF StoreSound, WritesSound
    <3>4. disk[RegOf(r)] # "absent"
      BY <2>0, <3>3 DEF StoreSound, Rooted, RootedIn
    <3>. QED BY <2>0, <2>1, <3>3, <3>4 DEF Restart, Loaded, Requeued
  <2>2. CASE Touch
    BY <1>1, <2>0, <2>2 DEF Touch, TypeOK
  <2>3. ASSUME NEW g \in Regs, CreateInFile(g) PROVE mem'[r] = "over"
    <3>1. CASE UNCHANGED mem
      BY <1>1, <3>1
    <3>. QED BY <2>2, <2>3, <3>1 DEF CreateInFile, Remembered, Answer, VerdictOnCreate
  <2>4. ASSUME NEW g \in Regs, CreateInDatabase(g) PROVE mem'[r] = "over"
    <3>1. \A o \in Record(g) : mem[o] = "absent"
      BY <2>0, <2>4, RecordOfRegression DEF CreateInDatabase, StoreSound, Rooted, RootedIn
    <3>2. r \notin Submitted(g)
      BY <1>1, <3>1, RecordOfRegression
    <3>. QED BY <1>1, <2>0, <2>4, <3>2 DEF CreateInDatabase, Submitted
  <2>5. CASE \/ \E o \in Objects : CreateRow(o)
             \/ CatalogBegins \/ CatalogCommits \/ CatalogRollsBack
             \/ \E c \in Clients : Poll(c) \/ Wakes(c) \/ Reads(c)
             \/ UNCHANGED vars
    BY <1>1, <2>5 DEF CreateRow, CatalogBegins, CatalogCommits, CatalogRollsBack, Poll, Wakes, Reads,
                      vars
  <2>6. ~CreateReturns
    BY <2>0 DEF CreateReturns
  <2>7. ASSUME NEW o \in Objects, Update(o) PROVE Touch
    BY <2>7 DEF Update, Persists
  <2>8. ASSUME NEW g \in Regs, NEW q \in Later[g], AddRun(g, q) PROVE Touch
    BY <2>8 DEF AddRun, Persists
  <2>. QED BY <1>1, <2>1, <2>2, <2>3, <2>4, <2>5, <2>6, <2>7, <2>8 DEF Next
<1>2. Inv /\ [Next]_vars =>
        [\A r \in Runs :
           mem[r] = "over" /\ written[r] /\ Unlocked /\ revision' = 0 /\ ~swallowed'
             => mem'[r] = "over"]_vars
  BY <1>1
<1>. QED BY StoreInvariant, <1>2, PTL DEF Spec, VerdictSurvives

(* A run's row is never on disk without its regression's, however many      *)
(* creations, failed writes and catalog transactions came in between: the   *)
(* orphans that Load would pass over do not exist, and a restart reads back *)
(* all that was written.                                                    *)
THEOREM NothingIsOrphaned ==
  Spec => [](\A o \in Objects : Loaded[o] = Requeued(o, disk[o]))
<1>1. ASSUME Inv, NEW o \in Objects PROVE Loaded[o] = Requeued(o, disk[o])
  <2>1. CASE disk[RegOf(o)] = "absent"
    <3>1. disk[o] = "absent"
      BY <1>1, <2>1 DEF Inv, Rooted, RootedIn
    <3>. QED BY <2>1, <3>1 DEF Loaded, Requeued
  <2>2. CASE disk[RegOf(o)] # "absent"
    BY <2>2 DEF Loaded
  <2>. QED BY <2>1, <2>2
<1>2. Inv => \A o \in Objects : Loaded[o] = Requeued(o, disk[o])
  BY <1>1
<1>. QED BY StoreInvariant, <1>2, PTL
=============================================================================
