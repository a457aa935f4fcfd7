------------------------------ MODULE Catalog ------------------------------
(***************************************************************************)
(* The catalog: pools (concrete, or virtual over others), the pool of each *)
(* node, groups, users and quota rules.  API handlers and heartbeats copy  *)
(* the catalog in force without a lock, edit the copy and apply it; under  *)
(* catMu it is validated, stored and put in force.  A reload reads the     *)
(* store before it takes catMu.  catalog.json is written as a whole, the   *)
(* PostgreSQL tables statement by statement in one transaction, on the     *)
(* connection that reloads and the store's other writes use too: they may  *)
(* replace it in the middle, or make the server abort the transaction.     *)
(***************************************************************************)
EXTENDS Naturals, FiniteSets

CONSTANTS
  Pools, Nodes, Groups, Users,
  Rules,        \* quota rules, of type Rule
  Bodies,       \* Bodies[p]: what a pool may be set to
  Suggestions,  \* what node.yaml may suggest: pools or None
  Catalogs,     \* catalogs there may be at first, or be put as a whole
  Drivers,      \* "file", "postgres"
  Clients,      \* requests at the same time: API handlers and heartbeats
  FaultKinds,   \* "save": it fails, "commit": its answer is lost, "sql": somebody
                \* edits the tables, "crash": of the master; in a transaction,
                \* "refused": a write of the store, "reconnect": by one
  MaxEdits, MaxFaults, MaxReloads, MaxEvents,  \* bound the model; MaxEvents: all together
  None, Absent, Aborted

Body == [runtime: {"", "process", "container"}, spans: SUBSET Pools]

(* The columns of quota_rules; a rule for everyone names no user or group,  *)
(* one for everywhere no pool or node.                                      *)
Rule == [user: Users \union {None}, group: Groups \union {None}, together: BOOLEAN,
         pool: Pools \union {None}, node: Nodes \union {None}]

Catalog == [pools: [Pools -> Body \union {Absent}],
            nodes: [Nodes -> Pools \union {None, Absent}],
            groups: SUBSET Groups,
            users: [Users -> (SUBSET Groups) \union {Absent}],
            rules: SUBSET Rules]

ASSUME NamesAssumption ==
  /\ None # Absent
  /\ {None, Absent} \intersect (Pools \union Nodes \union Users \union Groups \union Clients) = {}
  /\ Absent \notin Body /\ \A groups \in SUBSET Groups : groups # Absent
  /\ None # Aborted /\ None \notin Catalog /\ Aborted \notin Catalog
ASSUME RulesAssumption == Rules \subseteq Rule
ASSUME BodiesAssumption == \A p \in Pools : Bodies[p] \subseteq Body
ASSUME CatalogsAssumption == Catalogs \subseteq Catalog
ASSUME SuggestionsAssumption == Suggestions \subseteq Pools \union {None}
ASSUME DriversAssumption == Drivers \subseteq {"file", "postgres"}
ASSUME FaultKindsAssumption ==
  FaultKinds \subseteq {"save", "commit", "sql", "crash", "refused", "reconnect"}
ASSUME BoundsAssumption ==
  MaxEdits \in Nat /\ MaxFaults \in Nat /\ MaxReloads \in Nat /\ MaxEvents \in Nat

VARIABLES
  driver,   \* which store the master was started with
  raw,      \* the catalog in force, as authored
  stored,   \* catalog.json, or the committed rows
  tx,       \* the rows inside SaveCatalog's transaction, Aborted once the server
            \* gave it up, None outside of one
  catMu,    \* who holds it
  client, reload,
  astray,   \* history: the store may differ from what is in force, with reason
  edits, faults, reloads

vars == <<driver, raw, stored, tx, catMu, client, reload, astray, edits, faults, reloads>>

-----------------------------------------------------------------------------
(* Validation                                                               *)

Virtual(b) == b.spans # {}

PoolsOf(c) == {p \in Pools : c.pools[p] # Absent}
NodesOf(c) == {n \in Nodes : c.nodes[n] # Absent}
UsersOf(c) == {u \in Users : c.users[u] # Absent}

Concrete(c, p) == p \in PoolsOf(c) /\ ~Virtual(c.pools[p])

(* What a virtual pool leaves empty comes from a member; they must agree.   *)
(* Of the settings inherited only the runtime, which implies the driver.    *)
Runtime(c, p) ==
  LET b == c.pools[p]
  IN  IF b.runtime = "" /\ Virtual(b) THEN c.pools[CHOOSE m \in b.spans : TRUE].runtime
                                      ELSE b.runtime

SpansResolve(c) ==
  \A p \in PoolsOf(c) : \A m \in c.pools[p].spans : Concrete(c, m)

MembersAgree(c) ==
  \A p \in PoolsOf(c) : \A m \in c.pools[p].spans : c.pools[m].runtime = Runtime(c, p)

RuntimesValid(c) == \A p \in PoolsOf(c) : Runtime(c, p) # ""

NodesPlaced(c) ==
  \A n \in NodesOf(c) : c.nodes[n] # None => Concrete(c, c.nodes[n])

GroupsResolve(c) == \A u \in UsersOf(c) : c.users[u] \subseteq c.groups

WellShaped(r) ==
  /\ r.user # None => r.group = None /\ ~r.together
  /\ r.pool = None \/ r.node = None

RuleResolves(c, r) ==
  /\ r.user = None \/ r.user \in UsersOf(c)
  /\ r.group = None \/ r.group \in c.groups
  /\ r.pool = None \/ r.pool \in PoolsOf(c)
  /\ r.node = None \/ r.node \in NodesOf(c)

RulesResolve(c) == \A r \in c.rules : RuleResolves(c, r)

(* Normalize and validateQuotas, of a catalog without duplicate names.      *)
Valid(c) ==
  /\ SpansResolve(c) /\ RuntimesValid(c) /\ NodesPlaced(c) /\ MembersAgree(c)
  /\ GroupsResolve(c)
  /\ \A r \in c.rules : WellShaped(r)
  /\ RulesResolve(c)

-----------------------------------------------------------------------------
(* Edits of a copy                                                          *)

SetNode(c, n, pool) == [c EXCEPT !.nodes[n] = pool]
SetPool(c, p, body) == [c EXCEPT !.pools[p] = body]
SetGroup(c, g) == [c EXCEPT !.groups = @ \union {g}]
SetUser(c, u, groups) == [c EXCEPT !.users[u] = groups]
SetRule(c, r) == [c EXCEPT !.rules = @ \union {r}]
RemoveRule(c, r) == [c EXCEPT !.rules = @ \ {r}]

RemoveNode(c, n) ==
  [c EXCEPT !.nodes[n] = Absent, !.rules = {r \in @ : r.node # n}]

RemoveUser(c, u) ==
  [c EXCEPT !.users[u] = Absent, !.rules = {r \in @ : r.user # u}]

\* Mutant: its members stay in it.
RemoveGroupOnly(c, g) ==
  [c EXCEPT !.groups = @ \ {g}, !.rules = {r \in @ : r.group # g}]

RemoveGroup(c, g) ==
  [c EXCEPT !.groups = @ \ {g},
            !.users = [u \in Users |-> IF @[u] = Absent THEN Absent ELSE @[u] \ {g}],
            !.rules = {r \in @ : r.group # g}]

(* The pools without p, also as a member of others.                         *)
Without(c, p) == [q \in Pools |-> IF q = p \/ c.pools[q] = Absent THEN Absent
                                  ELSE [c.pools[q] EXCEPT !.spans = @ \ {p}]]

RemovePool(c, p) ==
  [c EXCEPT !.pools = Without(c, p),
            !.nodes = [n \in Nodes |-> IF @[n] = p THEN None ELSE @[n]],
            !.rules = {r \in @ : r.pool # p}]

-----------------------------------------------------------------------------

Empty == [pools |-> [p \in Pools |-> Absent], nodes |-> [n \in Nodes |-> Absent],
          groups |-> {}, users |-> [u \in Users |-> Absent], rules |-> {}]

Idle == [pc |-> "idle"]

(* saveCatalogTx: loops of an INSERT per row, and DELETEs of what is gone.  *)
Batches == {"pools", "poolsGone", "spansGone", "spans", "nodes", "nodesGone", "groups",
            "groupsGone", "users", "usersGone", "membersGone", "members", "rules", "rulesGone"}

InTx == Batches \union {"commit"}

(* pc: about to enter ApplyCatalog, the batch it saves, about to commit,    *)
(* about to put it in force.  fresh: no other edit took effect since it     *)
(* copied the catalog.                                                      *)
Request == [pc: InTx \union {"apply", "file", "live"},
            next: Catalog, by: {"put", "delete", "heartbeat"}, fresh: BOOLEAN]

(* pc: the section it reads next, or about to take catMu.  raced: something *)
(* was written meanwhile.                                                   *)
Reload == [pc: {"file", "pools", "nodes", "people", "rules", "set"}, got: Catalog,
           raced: BOOLEAN]

TypeOK ==
  /\ driver \in Drivers
  /\ raw \in Catalog /\ stored \in Catalog
  /\ tx \in Catalog \union {None, Aborted}
  /\ catMu \in Clients \union {None}
  /\ client \in [Clients -> Request \union {Idle}]
  /\ reload \in Reload \union {Idle}
  /\ astray \in BOOLEAN
  /\ edits \in 0 .. MaxEdits /\ faults \in 0 .. MaxFaults /\ reloads \in 0 .. MaxReloads

Init ==
  /\ driver \in Drivers
  /\ raw \in {c \in Catalogs : Valid(c)} /\ stored = raw
  /\ tx = None /\ catMu = None
  /\ client = [c \in Clients |-> Idle] /\ reload = Idle
  /\ astray = FALSE
  /\ edits = 0 /\ faults = 0 /\ reloads = 0

InBounds == edits + faults + reloads < MaxEvents

Fault(kind) == kind \in FaultKinds /\ InBounds /\ faults < MaxFaults /\ faults' = faults + 1

StoreUnchanged == UNCHANGED <<stored, tx>>
BoundsUnchanged == UNCHANGED <<edits, faults, reloads>>

Raced == IF reload = Idle THEN Idle ELSE [reload EXCEPT !.raced = TRUE]

(* The others' copies are behind once an edit took effect.                  *)
Behind(c) == [d \in Clients |-> IF d = c THEN Idle
                                ELSE IF client[d] = Idle THEN Idle
                                ELSE [client[d] EXCEPT !.fresh = FALSE]]

-----------------------------------------------------------------------------
(* Requests                                                                 *)

Asks(c, next, by) ==
  /\ client[c] = Idle
  /\ InBounds /\ edits < MaxEdits /\ edits' = edits + 1
  /\ client' = [client EXCEPT ![c] = [pc |-> "apply", next |-> next, by |-> by, fresh |-> TRUE]]
  /\ UNCHANGED <<driver, raw, catMu, reload, astray, faults, reloads>> /\ StoreUnchanged

PutNode(c) == \E n \in Nodes, p \in Pools \union {None} : Asks(c, SetNode(raw, n, p), "put")
DeleteNode(c) == \E n \in NodesOf(raw) : Asks(c, RemoveNode(raw, n), "delete")
PutPool(c) == \E p \in Pools : \E b \in Bodies[p] : Asks(c, SetPool(raw, p, b), "put")
DeletePool(c) == \E p \in PoolsOf(raw) : Asks(c, RemovePool(raw, p), "delete")
PutGroup(c) == \E g \in Groups : Asks(c, SetGroup(raw, g), "put")
DeleteGroup(c) == \E g \in raw.groups : Asks(c, RemoveGroup(raw, g), "delete")
PutUser(c) == \E u \in Users, gs \in SUBSET Groups : Asks(c, SetUser(raw, u, gs), "put")
DeleteUser(c) == \E u \in UsersOf(raw) : Asks(c, RemoveUser(raw, u), "delete")

(* The rule at one key replaced by the one in the body.                     *)
PutRule(c) ==
  \E at, r \in Rules :
    Asks(c, SetRule(IF at = r THEN raw ELSE RemoveRule(raw, at), r), "put")

DeleteRule(c) == \E r \in raw.rules : Asks(c, RemoveRule(raw, r), "delete")
PutConfig(c) == \E cat \in Catalogs : Asks(c, cat, "put")

\* Mutant: it is not asked whether the catalog knows the node.
RegistersAgain(n) == TRUE

Registers(n) == n \notin NodesOf(raw)

(* A heartbeat of a node the catalog does not know.                         *)
Heartbeat(c) ==
  \E n \in Nodes, s \in Suggestions :
    /\ Registers(n)
    /\ Asks(c, SetNode(raw, n, IF s \in PoolsOf(raw) THEN s ELSE None), "heartbeat")

-----------------------------------------------------------------------------
(* ApplyCatalog                                                             *)

Gone(c) == [client EXCEPT ![c] = Idle]

Refuse(c) ==
  /\ client[c].pc = "apply" /\ catMu = None
  /\ ~Valid(client[c].next)
  /\ client' = Gone(c)
  /\ UNCHANGED <<driver, raw, catMu, reload, astray>> /\ StoreUnchanged /\ BoundsUnchanged

NoChange(c) ==
  /\ client[c].pc = "apply" /\ catMu = None
  /\ Valid(client[c].next) /\ client[c].next = raw
  /\ client' = Gone(c)
  /\ UNCHANGED <<driver, raw, catMu, reload, astray>> /\ StoreUnchanged /\ BoundsUnchanged

BeginSave(c) ==
  /\ client[c].pc = "apply" /\ catMu = None
  /\ Valid(client[c].next) /\ client[c].next # raw
  /\ catMu' = c
  /\ IF driver = "file"
     THEN client' = [client EXCEPT ![c].pc = "file"] /\ UNCHANGED <<tx, reload>>
     ELSE /\ client' = [client EXCEPT ![c].pc = "pools"]
          /\ tx' = stored /\ reload' = Raced
  /\ UNCHANGED <<driver, raw, stored, astray>> /\ BoundsUnchanged

SaveFile(c) ==
  /\ client[c].pc = "file"
  /\ client' = [client EXCEPT ![c].pc = "live"]
  /\ stored' = client[c].next /\ reload' = Raced
  /\ astray' = FALSE
  /\ UNCHANGED <<driver, raw, tx, catMu>> /\ BoundsUnchanged

-----------------------------------------------------------------------------
(* saveCatalogTx: rows t after an INSERT for each of S ...                  *)

PoolsWritten(t, c, S) ==
  [t EXCEPT !.pools = [p \in Pools |->
     IF p \in S THEN [runtime |-> c.pools[p].runtime,
                      spans |-> IF @[p] = Absent THEN {} ELSE @[p].spans] ELSE @[p]]]

SpansWritten(t, S) ==
  [t EXCEPT !.pools = [p \in Pools |->
     IF @[p] = Absent THEN Absent
     ELSE [t.pools[p] EXCEPT !.spans = @ \union {m \in Pools : <<p, m>> \in S}]]]

NodesWritten(t, c, S) == [t EXCEPT !.nodes = [n \in Nodes |-> IF n \in S THEN c.nodes[n] ELSE @[n]]]

GroupsWritten(t, S) == [t EXCEPT !.groups = @ \union S]

UsersWritten(t, S) ==
  [t EXCEPT !.users = [u \in Users |-> IF u \in S /\ @[u] = Absent THEN {} ELSE @[u]]]

MembersWritten(t, S) ==
  [t EXCEPT !.users = [u \in Users |-> IF @[u] = Absent THEN Absent
                                       ELSE @[u] \union {g \in Groups : <<u, g>> \in S}]]

RulesWritten(t, S) == [t EXCEPT !.rules = @ \union S]

(* ... and after a DELETE, with what the foreign keys take along.           *)
PoolsDropped(t, c) ==
  [t EXCEPT !.pools = [p \in Pools |-> IF @[p] = Absent \/ c.pools[p] = Absent THEN Absent
                                       ELSE [t.pools[p] EXCEPT !.spans = @ \intersect PoolsOf(c)]],
            !.nodes = [n \in Nodes |-> IF @[n] \in Pools \ PoolsOf(c) THEN None ELSE @[n]],
            !.rules = {r \in @ : r.pool = None \/ r.pool \in PoolsOf(c)}]

SpansDropped(t) ==
  [t EXCEPT !.pools = [p \in Pools |-> IF @[p] = Absent THEN Absent
                                       ELSE [t.pools[p] EXCEPT !.spans = {}]]]

NodesDropped(t, c) ==
  [t EXCEPT !.nodes = [n \in Nodes |-> IF c.nodes[n] = Absent THEN Absent ELSE @[n]],
            !.rules = {r \in @ : r.node = None \/ r.node \in NodesOf(c)}]

GroupsDropped(t, c) ==
  [t EXCEPT !.groups = @ \intersect c.groups,
            !.users = [u \in Users |-> IF @[u] = Absent THEN Absent ELSE @[u] \intersect c.groups],
            !.rules = {r \in @ : r.group = None \/ r.group \in c.groups}]

UsersDropped(t, c) ==
  [t EXCEPT !.users = [u \in Users |-> IF c.users[u] = Absent THEN Absent ELSE @[u]],
            !.rules = {r \in @ : r.user = None \/ r.user \in UsersOf(c)}]

MembersDropped(t) ==
  [t EXCEPT !.users = [u \in Users |-> IF @[u] = Absent THEN Absent ELSE {}]]

\* Mutant: rules the catalog no longer has are left.
RulesLeft(t, c) == t

RulesDropped(t, c) == [t EXCEPT !.rules = @ \intersect c.rules]

Done(pc, t, c, S) ==
  CASE pc = "pools" -> PoolsWritten(t, c, S) [] pc = "poolsGone" -> PoolsDropped(t, c)
    [] pc = "spansGone" -> SpansDropped(t) [] pc = "spans" -> SpansWritten(t, S)
    [] pc = "nodes" -> NodesWritten(t, c, S) [] pc = "nodesGone" -> NodesDropped(t, c)
    [] pc = "groups" -> GroupsWritten(t, S) [] pc = "groupsGone" -> GroupsDropped(t, c)
    [] pc = "users" -> UsersWritten(t, S) [] pc = "usersGone" -> UsersDropped(t, c)
    [] pc = "membersGone" -> MembersDropped(t) [] pc = "members" -> MembersWritten(t, S)
    [] pc = "rules" -> RulesWritten(t, S) [] pc = "rulesGone" -> RulesDropped(t, c)

Then(pc) ==
  CASE pc = "pools" -> "poolsGone" [] pc = "poolsGone" -> "spansGone"
    [] pc = "spansGone" -> "spans" [] pc = "spans" -> "nodes"
    [] pc = "nodes" -> "nodesGone" [] pc = "nodesGone" -> "groups"
    [] pc = "groups" -> "groupsGone" [] pc = "groupsGone" -> "users"
    [] pc = "users" -> "usersGone" [] pc = "usersGone" -> "membersGone"
    [] pc = "membersGone" -> "members" [] pc = "members" -> "rules"
    [] pc = "rules" -> "rulesGone" [] pc = "rulesGone" -> "commit"

(* The rows a batch inserts.                                                *)
RowsOf(pc, c) ==
  CASE pc = "pools" -> PoolsOf(c)
    [] pc = "spans" -> {row \in Pools \X Pools : row[1] \in PoolsOf(c) /\ row[2] \in c.pools[row[1]].spans}
    [] pc = "nodes" -> NodesOf(c)
    [] pc = "groups" -> c.groups
    [] pc = "users" -> UsersOf(c)
    [] pc = "members" -> {row \in Users \X Groups : row[1] \in UsersOf(c) /\ row[2] \in c.users[row[1]]}
    [] pc = "rules" -> c.rules
    [] OTHER -> {}

(* The server takes a row whose foreign keys resolve; of a membership that  *)
(* is there, not a second one.                                              *)
Fits(pc, t, c, row) ==
  /\ pc = "spans" => /\ row[1] \in PoolsOf(t) /\ row[2] \in PoolsOf(t)
                     /\ row[2] \notin t.pools[row[1]].spans
  /\ pc = "nodes" => c.nodes[row] \in PoolsOf(t) \union {None}
  /\ pc = "members" => row[1] \in UsersOf(t) /\ row[2] \in t.groups \ t.users[row[1]]
  /\ pc = "rules" => RuleResolves(t, row)

(* What a statement on the connection finds.                                *)
Rows == IF tx = None THEN stored ELSE tx

(* The next batch: of the transaction, or, once a reconnect ended that,     *)
(* committed as it runs.                                                    *)
SaveBatch(c) ==
  LET r == client[c]
      rows == RowsOf(r.pc, r.next)
  IN  /\ r.pc \in Batches /\ tx # Aborted
      /\ \A row \in rows : Fits(r.pc, Rows, r.next, row)
      /\ IF tx = None THEN stored' = Done(r.pc, stored, r.next, rows) /\ UNCHANGED tx
                      ELSE tx' = Done(r.pc, tx, r.next, rows) /\ UNCHANGED stored
      /\ client' = [client EXCEPT ![c].pc = Then(r.pc)]
      /\ reload' = Raced
      /\ UNCHANGED <<driver, raw, catMu, astray>> /\ BoundsUnchanged

(* COMMIT is answered without an error when the server rolled the           *)
(* transaction back, and when there is none.                                *)
Commit(c) ==
  /\ client[c].pc = "commit"
  /\ stored' = IF tx \in {None, Aborted} THEN stored ELSE tx
  /\ tx' = None /\ reload' = Raced
  /\ \/ client' = [client EXCEPT ![c].pc = "live"] /\ astray' = (tx \in {None, Aborted})
        /\ UNCHANGED <<catMu, faults>>
     \/ /\ Fault("commit")
        /\ client' = Gone(c) /\ catMu' = None /\ astray' = TRUE
  /\ UNCHANGED <<driver, raw, edits, reloads>>

(* The server refuses the next batch: every statement in an aborted         *)
(* transaction, or one of a row that does not fit.                          *)
Refused(r) ==
  /\ r.pc \in Batches
  /\ tx # Aborted => \E row \in RowsOf(r.pc, r.next) : ~Fits(r.pc, Rows, r.next, row)

(* What the statements before a failing one leave of what is stored.        *)
LeftBy(r) ==
  IF r.pc \in Batches /\ tx = None
  THEN {stored} \union
       {Done(r.pc, stored, r.next, S) :
          S \in SUBSET {row \in RowsOf(r.pc, r.next) : Fits(r.pc, stored, r.next, row)}}
  ELSE {stored}

(* A write or a statement fails; a transaction is rolled back.              *)
SaveFails(c) ==
  /\ client[c].pc \in InTx \union {"file"}
  /\ Fault("save") \/ (Refused(client[c]) /\ UNCHANGED faults)
  /\ stored' \in LeftBy(client[c])
  /\ tx' = None /\ reload' = Raced
  /\ client' = Gone(c) /\ catMu' = None
  /\ UNCHANGED <<driver, raw, astray, edits, reloads>>

(* A statement of the store meanwhile, in the transaction, is refused.      *)
StoreRefused ==
  /\ tx \notin {None, Aborted} /\ Fault("refused")
  /\ tx' = Aborted
  /\ UNCHANGED <<driver, raw, stored, catMu, client, reload, astray, edits, reloads>>

(* One finds the connection broken and replaces it.  The statements so far  *)
(* are rolled back; those to come, of this batch (rest) and the later ones, *)
(* are committed one by one.                                                *)
StoreReconnects(c) ==
  LET r == client[c]
  IN  /\ r.pc \in InTx /\ tx # None /\ Fault("reconnect")
      /\ tx' = None /\ astray' = TRUE /\ reload' = Raced
      /\ \/ UNCHANGED <<client, stored>>
         \/ \E rest \in SUBSET RowsOf(r.pc, r.next) :
              /\ r.pc \in Batches
              /\ \A row \in rest : Fits(r.pc, stored, r.next, row)
              /\ stored' = Done(r.pc, stored, r.next, rest)
              /\ client' = [client EXCEPT ![c].pc = Then(r.pc)]
      /\ UNCHANGED <<driver, raw, catMu, edits, reloads>>

(* SetCatalog of a catalog that was found valid.                            *)
MakeLive(c) ==
  /\ client[c].pc = "live"
  /\ raw' = client[c].next
  /\ client' = Behind(c) /\ catMu' = None
  /\ UNCHANGED <<driver, reload, astray>> /\ StoreUnchanged /\ BoundsUnchanged

-----------------------------------------------------------------------------
(* ReloadCatalog and LoadCatalog                                            *)

(* No pools, to the tables, is a catalog that was never stored.             *)
Unseeded(c) == driver = "postgres" /\ PoolsOf(c) = {}

LoadBegins ==
  /\ reload = Idle /\ InBounds /\ reloads < MaxReloads /\ reloads' = reloads + 1
  /\ reload' = [pc |-> IF driver = "file" THEN "file" ELSE "pools", got |-> Empty,
                raced |-> tx # None]
  /\ UNCHANGED <<driver, raw, catMu, client, astray, edits, faults>> /\ StoreUnchanged

LoadsSection(pc, got, then) ==
  /\ reload.pc = pc
  /\ reload' = [reload EXCEPT !.pc = then, !.got = got]
  /\ UNCHANGED <<driver, raw, catMu, client, astray>> /\ StoreUnchanged /\ BoundsUnchanged

(* Its queries go over the connection a transaction may be open on.         *)
LoadSection ==
  LET got == reload.got
  IN  /\ tx # Aborted
      /\ \/ LoadsSection("file", stored, "set")
         \/ LoadsSection("pools", [got EXCEPT !.pools = Rows.pools],
                         IF Unseeded(Rows) THEN "set" ELSE "nodes")
         \/ LoadsSection("nodes", [got EXCEPT !.nodes = Rows.nodes], "people")
         \/ LoadsSection("people", [got EXCEPT !.groups = Rows.groups, !.users = Rows.users], "rules")
         \/ LoadsSection("rules", [got EXCEPT !.rules = Rows.rules], "set")

LoadFails ==
  /\ reload.pc \notin {"idle", "set"}
  /\ reload' = Idle
  /\ UNCHANGED <<driver, raw, catMu, client, astray>> /\ StoreUnchanged /\ BoundsUnchanged

\* Mutant: what was read is not checked.
AcceptedAny(c) == TRUE

Accepted(c) == Valid(c)

LoadSet ==
  /\ reload.pc = "set" /\ catMu = None
  /\ reload' = Idle
  /\ IF Accepted(reload.got)
     THEN /\ raw' = reload.got
          /\ client' = Behind(None)
          /\ astray' = (reload.raced \/ Unseeded(stored))
     ELSE UNCHANGED <<raw, client, astray>>
  /\ UNCHANGED <<driver, catMu>> /\ StoreUnchanged /\ BoundsUnchanged

\* Mutant: the nil of a store that was never seeded is put in force.
LoadedAsNil == IF Accepted(stored) /\ ~Unseeded(stored) THEN stored ELSE None

(* What runs with after a start; a bad catalog is as good as none.          *)
Loaded == IF Accepted(stored) /\ ~Unseeded(stored) THEN stored ELSE Empty

Restart ==
  /\ Fault("crash")
  /\ raw' = Loaded
  /\ tx' = None /\ catMu' = None
  /\ client' = [c \in Clients |-> Idle] /\ reload' = Idle
  /\ astray' = (~Valid(stored) \/ Unseeded(stored))
  /\ UNCHANGED <<driver, stored, edits, reloads>>

(* Somebody drops a pool, or assigns a node, with psql.                     *)
EditedBySql ==
  /\ driver = "postgres" /\ tx = None
  /\ Fault("sql")
  /\ \/ \E p \in PoolsOf(stored) : stored' = RemovePool(stored, p)
     \/ \E n \in NodesOf(stored), p \in PoolsOf(stored) : stored' = SetNode(stored, n, p)
  /\ reload' = Raced /\ astray' = TRUE
  /\ UNCHANGED <<driver, raw, tx, catMu, client, edits, reloads>>

Next ==
  \/ \E c \in Clients :
       \/ PutNode(c) \/ DeleteNode(c) \/ PutPool(c) \/ DeletePool(c) \/ PutGroup(c)
       \/ DeleteGroup(c) \/ PutUser(c) \/ DeleteUser(c) \/ PutRule(c) \/ DeleteRule(c)
       \/ PutConfig(c) \/ Heartbeat(c)
       \/ Refuse(c) \/ NoChange(c) \/ BeginSave(c) \/ SaveFile(c) \/ SaveBatch(c)
       \/ Commit(c) \/ SaveFails(c) \/ StoreReconnects(c) \/ MakeLive(c)
  \/ LoadBegins \/ LoadSection \/ LoadFails \/ LoadSet
  \/ Restart \/ EditedBySql \/ StoreRefused

Spec == Init /\ [][Next]_vars

-----------------------------------------------------------------------------
(* Properties                                                               *)

(* "Nothing dangles": every name in the catalog in force is of something    *)
(* that is in it, whatever edits, reloads and restarts met.                 *)
NothingDangles ==
  /\ SpansResolve(raw) /\ NodesPlaced(raw) /\ GroupsResolve(raw) /\ RulesResolve(raw)

(* What is in force is what is stored, unless an edit is being saved, the   *)
(* tables were edited and not reloaded, a commit was in doubt, a write of   *)
(* the store replaced the connection of a save or made the server abort its *)
(* transaction (both of which a save reports as done), a reload ran into a  *)
(* save, or the tables hold no pool (see StartKeepsCatalog).  So the        *)
(* deletes, the cascades and the inserts of a save add up to the catalog    *)
(* that was asked for, and an unhurried reload reads just that.             *)
InForceIsStored == ~astray /\ catMu = None => raw = stored

(* What is there can be removed: the memberships, rules, spans and          *)
(* assignments that go with it leave a catalog that passes validation, but  *)
(* for a virtual pool without a runtime of its own that lost its last       *)
(* member.                                                                  *)
RemovalsAccepted ==
  [][\A c \in Clients :
       Refuse(c) /\ client[c].by = "delete" =>
         \E p \in PoolsOf(client[c].next) :
           /\ client[c].next.pools[p] = [runtime |-> "", spans |-> {}]]_vars

(* "After that the catalog's assignment wins": a heartbeat whose copy of    *)
(* the catalog was not behind moves no node the catalog knows.              *)
HeartbeatMovesNobody ==
  [][\A c \in Clients :
       MakeLive(c) /\ client[c].by = "heartbeat" /\ client[c].fresh =>
         \A n \in NodesOf(raw) : raw'.nodes[n] = raw.nodes[n]]_vars

(* "nil when nothing has been stored yet": a master that starts runs with   *)
(* the catalog that is stored, if that is valid.                            *)
StartKeepsCatalog == [][Restart /\ Valid(stored) => raw' = stored]_vars
=============================================================================
