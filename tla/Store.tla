------------------------------- MODULE Store -------------------------------
(***************************************************************************)
(* The store: regressions and their runs in memory under one lock, written *)
(* through to a file per regression or to PostgreSQL, loaded again when    *)
(* the master restarts, and long-polled by dashboards.                     *)
(*                                                                         *)
(* A mutation holds the lock while it writes, so a step is one mutation    *)
(* with its write; creating a regression in PostgreSQL is a statement per  *)
(* row.  The catalog is saved in a transaction on the same connection but  *)
(* not under that lock: statements of both meet on the connection.         *)
(***************************************************************************)
EXTENDS Naturals, FiniteSets

CONSTANTS
  Regs,          \* regressions
  First,         \* First[g]: the runs g is created with
  Later,         \* Later[g]: retries g may get
  Drivers,       \* "file", "postgres"
  Clients,       \* dashboards
  MaxMutations,  \* mutations considered (bounds the model)
  FaultKinds,    \* "write": a write fails, "late": and has happened all the same,
                 \* "broken": the connection breaks, "rollback": of the catalog's
                 \* transaction, "crash": of the master
  MaxFaults

Runs == UNION {First[g] \union Later[g] : g \in Regs}
Objects == Regs \union Runs

ASSUME RecordsAssumption ==
  /\ Regs \intersect Runs = {}
  /\ \A g, h \in Regs :
       g # h => (First[g] \union Later[g]) \intersect (First[h] \union Later[h]) = {}
ASSUME DriversAssumption == Drivers \subseteq {"file", "postgres"}
ASSUME FaultKindsAssumption ==
  FaultKinds \subseteq {"write", "late", "broken", "rollback", "crash"}
ASSUME BoundsAssumption == MaxMutations \in Nat /\ MaxFaults \in Nat

VARIABLES
  driver,    \* which backend the master was started with
  mem,       \* byReg and byRun: what each object is in memory
  disk,      \* what is durable
  tx,        \* the catalog's transaction on the connection, as the server has it
  session,   \* what the connection sees inside that transaction
  saving,    \* the goroutine in SaveCatalog
  create,    \* the Create under way, with the rows left to write
  revision,
  client,    \* dashboards
  answer,    \* history: what Create returned
  written,   \* history: whether the last write of an object returned no error
  swallowed, \* history: rows were undone with the catalog's transaction
  restarted, \* history: the master was restarted
  mutations, faults

rows == <<disk, tx, session>>
vars == <<driver, mem, disk, tx, session, saving, create, revision, client, answer,
          written, swallowed, restarted, mutations, faults>>

-----------------------------------------------------------------------------

(* Of a regression or a run only how far it is.                             *)
Stage == {"queued", "running", "over"}
Value == Stage \union {"absent"}

Idle == [pc |-> "idle"]

RegOf(o) == IF o \in Regs THEN o ELSE CHOOSE g \in Regs : o \in First[g] \union Later[g]
Record(g) == {g} \union First[g] \union Later[g]

(* pc: inside Wait, about to read the revision, about to read the           *)
(* regressions, about to poll again.                                        *)
Client == [pc: {"parked", "woken", "reads", "polls"}, since: Nat, view: [Objects -> Value]]

TypeOK ==
  /\ driver \in Drivers
  /\ mem \in [Objects -> Value] /\ disk \in [Objects -> Value]
  /\ tx \in {"none", "open", "aborted"} /\ session \in [Objects -> Value]
  /\ saving \in BOOLEAN
  /\ create \in {Idle} \union [pc: {"rows"}, reg: Regs, left: SUBSET Objects]
  /\ revision \in Nat
  /\ client \in [Clients -> Client]
  /\ answer \in [Regs -> {"none", "accepted", "refused"}]
  /\ written \in [Objects -> BOOLEAN]
  /\ swallowed \in BOOLEAN /\ restarted \in BOOLEAN
  /\ mutations \in 0 .. MaxMutations /\ faults \in 0 .. MaxFaults

Nothing == [o \in Objects |-> "absent"]

Init ==
  /\ driver \in Drivers
  /\ mem = Nothing /\ disk = Nothing /\ session = Nothing
  /\ tx = "none" /\ saving = FALSE
  /\ create = Idle
  /\ revision = 0
  /\ client = [c \in Clients |-> [pc |-> "polls", since |-> 0, view |-> Nothing]]
  /\ answer = [g \in Regs |-> "none"]
  /\ written = [o \in Objects |-> FALSE]
  /\ swallowed = FALSE /\ restarted = FALSE
  /\ mutations = 0 /\ faults = 0

Unlocked == create.pc = "idle"

Fault(kind) == kind \in FaultKinds /\ faults < MaxFaults /\ faults' = faults + 1

\* Mutant: ON CONFLICT DO NOTHING, a row once there stays as it is.
PutIfNew(image, objects, from) ==
  [o \in Objects |-> IF o \in objects /\ image[o] = "absent" THEN from[o] ELSE image[o]]

Put(image, objects, from) == [o \in Objects |-> IF o \in objects THEN from[o] ELSE image[o]]

-----------------------------------------------------------------------------
(* Writing                                                                  *)

(* fileBackend.write: a record is one file, renamed into place.             *)
FileWrites(objects, ok) ==
  /\ driver = "file"
  /\ \/ ok /\ disk' = Put(disk, UNION {Record(RegOf(o)) : o \in objects}, mem')
           /\ UNCHANGED faults
     \/ ~ok /\ Fault("write") /\ UNCHANGED disk
  /\ UNCHANGED <<tx, session, swallowed>>

(* A run's row refers to its regression's.                                  *)
HasRegression(image, o) == o \in Regs \/ image[RegOf(o)] # "absent"

(* pgBackend.exec, one row.  Inside the catalog's transaction the row is    *)
(* part of it, and an error of the server aborts that.  A statement whose   *)
(* answer is lost is repeated on a new connection; the server rolls the old *)
(* one's transaction back.                                                  *)
RowWritten(o, ok) ==
  /\ driver = "postgres"
  /\ \/ /\ ok /\ tx = "none" /\ HasRegression(disk, o)
        /\ disk' = Put(disk, {o}, mem')
        /\ UNCHANGED <<tx, session, swallowed, faults>>
     \/ /\ ok /\ tx = "open" /\ HasRegression(session, o)
        /\ session' = Put(session, {o}, mem')
        /\ UNCHANGED <<tx, disk, swallowed, faults>>
     \/ /\ ~ok /\ \/ tx = "aborted"
                  \/ tx = "open" /\ ~HasRegression(session, o)
                  \/ tx = "none" /\ ~HasRegression(disk, o)
        /\ tx' = IF tx = "open" THEN "aborted" ELSE tx
        /\ UNCHANGED <<disk, session, swallowed, faults>>
     \/ /\ ~ok /\ Fault("write")
        /\ tx' = IF tx = "open" THEN "aborted" ELSE tx
        /\ UNCHANGED <<disk, session, swallowed>>
     \/ /\ ~ok /\ tx = "none" /\ HasRegression(disk, o) /\ Fault("late")
        /\ disk' = Put(disk, {o}, mem')
        /\ UNCHANGED <<tx, session, swallowed>>
     \/ /\ ok /\ tx # "none" /\ HasRegression(disk, o) /\ Fault("broken")
        /\ disk' = Put(disk, {o}, mem')
        /\ tx' = "none"
        /\ swallowed' = (swallowed \/ session # disk)
        /\ UNCHANGED session

Writes(o, ok) == FileWrites({o}, ok) \/ RowWritten(o, ok)

(* A file holds the whole record, so writing any of it makes up for earlier *)
(* failures.                                                                *)
Covered(o) == IF driver = "file" THEN Record(RegOf(o)) ELSE {o}

Noted(o, ok) == written' = [p \in Objects |-> IF p \in Covered(o) /\ (ok \/ p = o)
                                              THEN ok ELSE written[p]]

(* touch: every waiter is woken, and the list is empty again.               *)
Touch ==
  /\ revision' = revision + 1
  /\ client' = [c \in Clients |-> IF client[c].pc = "parked"
                                  THEN [client[c] EXCEPT !.pc = "woken"] ELSE client[c]]

Mutates == /\ mutations < MaxMutations
           /\ mutations' = mutations + 1

-----------------------------------------------------------------------------
(* Mutations                                                                *)

(* UpdateRun, UpdateRegression and AddRun: memory first; an error of the    *)
(* write is logged.                                                         *)
Persists(o, v) ==
  /\ Unlocked /\ Mutates
  /\ mem' = [mem EXCEPT ![o] = v]
  /\ \E ok \in BOOLEAN : Writes(o, ok) /\ Noted(o, ok)
  /\ Touch
  /\ UNCHANGED <<driver, saving, create, answer, restarted>>

Update(o) ==
  /\ mem[o] # "absent"
  /\ \E v \in Stage \ {mem[o]} : Persists(o, v)

AddRun(g, r) ==
  /\ r \in Later[g] /\ mem[g] # "absent" /\ mem[r] = "absent"
  /\ Persists(r, "queued")

\* Mutant: an error of the write is logged here too.
VerdictOnCreateLenient(ok) == "accepted"

VerdictOnCreate(ok) == IF ok THEN "accepted" ELSE "refused"

Remembered(ok) == VerdictOnCreate(ok) = "accepted"

(* Create's answer.  What cannot be written is taken out of memory again.   *)
Answer(g, ok) ==
  /\ answer' = [answer EXCEPT ![g] = VerdictOnCreate(ok)]
  /\ IF VerdictOnCreate(ok) = "accepted" THEN Touch ELSE UNCHANGED <<revision, client>>

CreateInFile(g) ==
  /\ Unlocked /\ Mutates /\ answer[g] = "none" /\ mem[g] = "absent"
  /\ \E ok \in BOOLEAN :
       /\ mem' = IF Remembered(ok)
                 THEN [o \in Objects |-> IF o \in {g} \union First[g] THEN "queued" ELSE mem[o]]
                 ELSE mem
       /\ FileWrites({g}, ok)
       /\ written' = [o \in Objects |-> IF o \in {g} \union First[g] THEN ok ELSE written[o]]
       /\ Answer(g, ok)
  /\ UNCHANGED <<driver, saving, create, restarted>>

CreateInDatabase(g) ==
  /\ driver = "postgres"
  /\ Unlocked /\ Mutates /\ answer[g] = "none" /\ mem[g] = "absent"
  /\ mem' = [o \in Objects |-> IF o \in {g} \union First[g] THEN "queued" ELSE mem[o]]
  /\ create' = [pc |-> "rows", reg |-> g, left |-> {g} \union First[g]]
  /\ UNCHANGED <<driver, disk, tx, session, saving, revision, client, answer, written,
                 swallowed, restarted, faults>>

(* SaveRecord: the regression, then one run after the other.                *)
CreateRow(o) ==
  /\ create.pc = "rows" /\ o \in create.left
  /\ create.reg \in create.left => o = create.reg
  /\ \E ok \in BOOLEAN :
       LET refused == VerdictOnCreate(ok) = "refused"
           left == create.left \ {o}
       IN  /\ mem' = mem /\ RowWritten(o, ok)
           /\ Noted(o, ok)
           /\ create' = IF refused THEN [create EXCEPT !.left = {}]
                                   ELSE [create EXCEPT !.left = left]
           /\ answer' = IF refused THEN [answer EXCEPT ![create.reg] = "refused"] ELSE answer
  /\ UNCHANGED <<driver, saving, revision, client, restarted, mutations>>

CreateReturns ==
  /\ create.pc = "rows" /\ create.left = {}
  /\ create' = Idle
  /\ IF answer[create.reg] = "refused"
     THEN /\ mem' = IF Remembered(FALSE) THEN mem
                    ELSE [o \in Objects |-> IF o \in Record(create.reg) THEN "absent" ELSE mem[o]]
          /\ UNCHANGED <<answer, revision, client>>
     ELSE /\ answer' = [answer EXCEPT ![create.reg] = "accepted"]
          /\ Touch
          /\ UNCHANGED mem
  /\ UNCHANGED <<driver, disk, tx, session, saving, written, swallowed, restarted, mutations,
                 faults>>

-----------------------------------------------------------------------------
(* SaveCatalog on the same connection, without the store's lock             *)

CatalogBegins ==
  /\ driver = "postgres" /\ ~saving /\ tx = "none"
  /\ saving' = TRUE /\ tx' = "open" /\ session' = disk
  /\ UNCHANGED <<driver, mem, disk, create, revision, client, answer, written, swallowed,
                 restarted, mutations, faults>>

CatalogCommits ==
  /\ saving /\ saving' = FALSE
  /\ tx # "aborted"
  /\ disk' = IF tx = "open" THEN session ELSE disk
  /\ tx' = "none" /\ session' = session
  /\ UNCHANGED <<driver, mem, create, revision, client, answer, written, swallowed,
                 restarted, mutations, faults>>

(* A statement of the catalog fails, on its own account or because the      *)
(* transaction was aborted by one of the store's.                           *)
CatalogRollsBack ==
  /\ saving /\ saving' = FALSE
  /\ IF tx = "aborted" THEN UNCHANGED faults ELSE Fault("rollback")
  /\ tx' = "none" /\ session' = session
  /\ swallowed' = (swallowed \/ (tx # "none" /\ session # disk))
  /\ UNCHANGED <<driver, mem, disk, create, revision, client, answer, written,
                 restarted, mutations>>

-----------------------------------------------------------------------------
(* Wait, in the loop of a dashboard                                         *)

\* Mutant: a revision just passed is waited for.
MovedOnByMore(c) == revision > client[c].since + 1

MovedOn(c) == revision > client[c].since

Poll(c) ==
  /\ Unlocked /\ client[c].pc = "polls"
  /\ client' = [client EXCEPT ![c] =
                  IF MovedOn(c) THEN [@ EXCEPT !.pc = "reads", !.since = revision]
                                ELSE [@ EXCEPT !.pc = "parked"]]
  /\ UNCHANGED <<driver, mem, disk, tx, session, saving, create, revision, answer, written,
                 swallowed, restarted, mutations, faults>>

(* The channel was closed, or the timeout passed.                           *)
Wakes(c) ==
  /\ Unlocked /\ client[c].pc \in {"parked", "woken"}
  /\ client' = [client EXCEPT ![c].pc = "reads", ![c].since = revision]
  /\ UNCHANGED <<driver, mem, disk, tx, session, saving, create, revision, answer, written,
                 swallowed, restarted, mutations, faults>>

Reads(c) ==
  /\ Unlocked /\ client[c].pc = "reads"
  /\ client' = [client EXCEPT ![c].pc = "polls", ![c].view = mem]
  /\ UNCHANGED <<driver, mem, disk, tx, session, saving, create, revision, answer, written,
                 swallowed, restarted, mutations, faults>>

-----------------------------------------------------------------------------
(* Restart                                                                  *)

\* Mutant: everything, finished or not, is queued again.
RequeuedAll(o, v) == IF o \in Runs /\ v # "absent" THEN "queued" ELSE v

\* Mutant: the state is cleared.
RequeuedAsBlank(o, v) == IF o \in Runs /\ v = "running" THEN "" ELSE v

Requeued(o, v) == IF o \in Runs /\ v = "running" THEN "queued" ELSE v

(* A run without its regression is passed over.  What is queued again is so *)
(* in memory only.                                                          *)
Loaded == [o \in Objects |-> IF disk[RegOf(o)] = "absent" THEN "absent"
                                                        ELSE Requeued(o, disk[o])]

Restart ==
  /\ Fault("crash")
  /\ mem' = Loaded
  /\ written' = [o \in Objects |-> Loaded[o] = disk[o]]
  /\ tx' = "none" /\ session' = session /\ saving' = FALSE
  /\ swallowed' = (swallowed \/ (tx # "none" /\ session # disk))
  /\ create' = Idle
  /\ revision' = 0
  /\ client' = [c \in Clients |-> [client[c] EXCEPT !.pc = "polls"]]
  /\ restarted' = TRUE
  /\ UNCHANGED <<driver, disk, answer, mutations>>

Next ==
  \/ \E o \in Objects : Update(o) \/ CreateRow(o)
  \/ \E g \in Regs : CreateInFile(g) \/ CreateInDatabase(g) \/ (\E r \in Later[g] : AddRun(g, r))
  \/ CreateReturns
  \/ CatalogBegins \/ CatalogCommits \/ CatalogRollsBack
  \/ \E c \in Clients : Poll(c) \/ Wakes(c) \/ Reads(c)
  \/ Restart

Spec == Init /\ [][Next]_vars

-----------------------------------------------------------------------------
(* Properties                                                               *)

Durable == IF tx = "none" THEN disk ELSE session

(* "a caller never gets an ID the store might forget": an accepted          *)
(* submission is on disk with all its runs, whatever fails later.           *)
AcceptedIsKept ==
  \A g \in Regs : answer[g] = "accepted" =>
    \A o \in {g} \union First[g] : disk[o] # "absent"

(* The same, but for rows that went into the catalog's transaction: they    *)
(* are durable only once that commits, and gone if it does not.             *)
AcceptedIsWritten ==
  ~swallowed =>
    \A g \in Regs : answer[g] = "accepted" =>
      \A o \in {g} \union First[g] : Durable[o] # "absent" /\ mem[o] # "absent"

(* "the next mutation of the same object writes it again": an object whose  *)
(* last write went well is on disk as it is in memory, however many writes  *)
(* of it failed before.                                                     *)
WrittenIsDurable ==
  ~swallowed /\ Unlocked =>
    \A o \in Objects : written[o] /\ mem[o] # "absent" /\ mem[RegOf(o)] # "absent"
                         => Durable[o] = mem[o]

(* A verdict that was written survives every restart: the run is not queued *)
(* and run again.                                                           *)
VerdictSurvives ==
  [][\A r \in Runs :
       mem[r] = "over" /\ written[r] /\ Unlocked /\ revision' = 0 /\ ~swallowed'
         => mem'[r] = "over"]_vars

(* A dashboard sleeps only on what is still so: between reading the         *)
(* revision, reading the regressions and polling again no change is missed. *)
NoStaleSleep ==
  ~restarted /\ Unlocked =>
    \A c \in Clients : client[c].pc = "parked" => client[c].view = mem
=============================================================================
