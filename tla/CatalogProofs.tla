--------------------------- MODULE CatalogProofs ---------------------------
(***************************************************************************)
(* What the catalog guarantees for every set of pools, nodes, people and   *)
(* rules, and any number of requests, reloads and faults.                  *)
(*                                                                         *)
(*   RawValid     the catalog in force passes validation                   *)
(*   ClientSound  what a request still has to rely on: the rows of its     *)
(*                transaction add up to its catalog, batch by batch, as    *)
(*                long as it has one, and until then the store holds what  *)
(*                is in force                                              *)
(*   ReloadSound  what a reload has read is what is stored, unless         *)
(*                something was written meanwhile                          *)
(***************************************************************************)
EXTENDS Catalog, TLAPS

RawValid == Valid(raw)

(* A virtual pool that lost its last member and has no runtime of its own.  *)
Bare(c) == \E p \in PoolsOf(c) : c.pools[p] = [runtime |-> "", spans |-> {}]

(* The rows of a transaction that is about to run a batch, by the batches   *)
(* that ran.                                                                *)
SoFar(pc, t, c) ==
  /\ pc \in {"poolsGone", "spansGone", "spans"} =>
       \A p \in PoolsOf(c) : t.pools[p] # Absent /\ t.pools[p].runtime = c.pools[p].runtime
  /\ pc \in {"spansGone", "spans"} => PoolsOf(t) \subseteq PoolsOf(c)
  /\ pc = "spans" => \A p \in PoolsOf(c) : t.pools[p].spans = {}
  /\ pc \notin {"pools", "poolsGone", "spansGone", "spans"} => t.pools = c.pools
  /\ pc = "nodesGone" => \A n \in NodesOf(c) : t.nodes[n] = c.nodes[n]
  /\ pc \notin {"pools", "poolsGone", "spansGone", "spans", "nodes", "nodesGone"} => t.nodes = c.nodes
  /\ pc = "groupsGone" => c.groups \subseteq t.groups
  /\ pc \in {"users", "usersGone", "membersGone", "members", "rules", "rulesGone", "commit"} =>
       t.groups = c.groups
  /\ pc = "usersGone" => UsersOf(c) \subseteq UsersOf(t)
  /\ pc \in {"membersGone", "members"} => UsersOf(t) = UsersOf(c)
  /\ pc = "members" => \A u \in UsersOf(c) : t.users[u] = {}
  /\ pc \in {"rules", "rulesGone", "commit"} => t.users = c.users
  /\ pc = "rulesGone" => c.rules \subseteq t.rules
  /\ pc = "commit" => t = c

(* Without its transaction a save is on its own.                            *)
RowsSound(r) ==
  r.pc \in InTx => /\ tx = None => astray
                   /\ tx \notin {None, Aborted} => SoFar(r.pc, tx, r.next)

ClientSound(c) ==
  LET r == client[c]
  IN  r.pc # "idle" =>
        /\ r.pc # "apply" => catMu = c /\ Valid(r.next)
        /\ RowsSound(r)
        /\ r.pc \in InTx \union {"file"} /\ ~astray => raw = stored
        /\ r.pc = "live" /\ ~astray => stored = r.next
        /\ r.by = "delete" => Valid(r.next) \/ Bare(r.next)
        /\ r.by = "heartbeat" /\ r.fresh =>
             \A n \in NodesOf(raw) : r.next.nodes[n] = raw.nodes[n]

ReloadSound ==
  reload.pc # "idle" /\ ~reload.raced =>
    /\ tx = None
    /\ reload.pc \in {"nodes", "people", "rules"} => reload.got.pools = stored.pools
    /\ reload.pc \in {"people", "rules"} => reload.got.nodes = stored.nodes
    /\ reload.pc = "rules" =>
         reload.got.groups = stored.groups /\ reload.got.users = stored.users
    /\ reload.pc = "set" => reload.got = stored \/ Unseeded(stored)

Inv == /\ TypeOK /\ RawValid /\ (\A c \in Clients : ClientSound(c)) /\ ReloadSound
       /\ InForceIsStored

-----------------------------------------------------------------------------
(* Edits, field by field                                                    *)

LEMMA Fields ==
  ASSUME NEW c \in Catalog
  PROVE  /\ c.pools \in [Pools -> Body \union {Absent}]
         /\ c.nodes \in [Nodes -> Pools \union {None, Absent}]
         /\ c.groups \in SUBSET Groups
         /\ c.users \in [Users -> (SUBSET Groups) \union {Absent}]
         /\ c.rules \in SUBSET Rules
BY DEF Catalog

(* The catalog with these fields instead of its own.                        *)
LEMMA Replaced ==
  ASSUME NEW c \in Catalog
  PROVE  /\ \A pools \in [Pools -> Body \union {Absent}] : [c EXCEPT !.pools = pools] \in Catalog
         /\ \A nodes \in [Nodes -> Pools \union {None, Absent}] : [c EXCEPT !.nodes = nodes] \in Catalog
         /\ \A groups \in SUBSET Groups : [c EXCEPT !.groups = groups] \in Catalog
         /\ \A users \in [Users -> (SUBSET Groups) \union {Absent}] : [c EXCEPT !.users = users] \in Catalog
         /\ \A rules \in SUBSET Rules : [c EXCEPT !.rules = rules] \in Catalog
BY DEF Catalog

LEMMA SetNodeFields ==
  ASSUME NEW c \in Catalog, NEW n \in Nodes, NEW pool \in Pools \union {None, Absent}
  PROVE  /\ SetNode(c, n, pool) \in Catalog
         /\ SetNode(c, n, pool).nodes = [c.nodes EXCEPT ![n] = pool]
<1>1. SetNode(c, n, pool) = [c EXCEPT !.nodes = [c.nodes EXCEPT ![n] = pool]]
  BY DEF SetNode, Catalog
<1>2. [c.nodes EXCEPT ![n] = pool] \in [Nodes -> Pools \union {None, Absent}]
  BY Fields
<1>3. [c EXCEPT !.nodes = [c.nodes EXCEPT ![n] = pool]].nodes = [c.nodes EXCEPT ![n] = pool]
  BY DEF Catalog
<1>4. SetNode(c, n, pool) \in Catalog
  BY <1>1, <1>2, Replaced
<1>. QED BY <1>1, <1>3, <1>4

LEMMA SetPoolTyped ==
  ASSUME NEW c \in Catalog, NEW p \in Pools, NEW body \in Body PROVE SetPool(c, p, body) \in Catalog
<1>1. SetPool(c, p, body) = [c EXCEPT !.pools = [c.pools EXCEPT ![p] = body]]
  BY DEF SetPool, Catalog
<1>2. [c.pools EXCEPT ![p] = body] \in [Pools -> Body \union {Absent}]
  BY Fields
<1>. QED BY <1>1, <1>2, Replaced

LEMMA SetUserTyped ==
  ASSUME NEW c \in Catalog, NEW u \in Users, NEW groups \in SUBSET Groups
  PROVE  SetUser(c, u, groups) \in Catalog
<1>1. SetUser(c, u, groups) = [c EXCEPT !.users = [c.users EXCEPT ![u] = groups]]
  BY DEF SetUser, Catalog
<1>2. [c.users EXCEPT ![u] = groups] \in [Users -> (SUBSET Groups) \union {Absent}]
  BY Fields
<1>. QED BY <1>1, <1>2, Replaced

LEMMA SetGroupAndRulesTyped ==
  ASSUME NEW c \in Catalog
  PROVE  /\ \A g \in Groups : SetGroup(c, g) \in Catalog
         /\ \A r \in Rules : SetRule(c, r) \in Catalog /\ RemoveRule(c, r) \in Catalog
BY Fields, Replaced DEF SetGroup, SetRule, RemoveRule

LEMMA RemoveNodeFields ==
  ASSUME NEW c \in Catalog, NEW n \in Nodes
  PROVE  /\ RemoveNode(c, n) \in Catalog
         /\ RemoveNode(c, n).pools = c.pools
         /\ RemoveNode(c, n).nodes = [c.nodes EXCEPT ![n] = Absent]
         /\ RemoveNode(c, n).groups = c.groups /\ RemoveNode(c, n).users = c.users
         /\ RemoveNode(c, n).rules = {r \in c.rules : r.node # n}
<1>1. [c.nodes EXCEPT ![n] = Absent] \in [Nodes -> Pools \union {None, Absent}]
  BY Fields
<1>2. {r \in c.rules : r.node # n} \in SUBSET Rules
  BY Fields
<1>. QED BY <1>1, <1>2 DEF RemoveNode, Catalog

LEMMA RemoveUserFields ==
  ASSUME NEW c \in Catalog, NEW u \in Users
  PROVE  /\ RemoveUser(c, u) \in Catalog
         /\ RemoveUser(c, u).pools = c.pools /\ RemoveUser(c, u).nodes = c.nodes
         /\ RemoveUser(c, u).groups = c.groups
         /\ RemoveUser(c, u).users = [c.users EXCEPT ![u] = Absent]
         /\ RemoveUser(c, u).rules = {r \in c.rules : r.user # u}
<1>1. [c.users EXCEPT ![u] = Absent] \in [Users -> (SUBSET Groups) \union {Absent}]
  BY Fields
<1>2. {r \in c.rules : r.user # u} \in SUBSET Rules
  BY Fields
<1>. QED BY <1>1, <1>2 DEF RemoveUser, Catalog

LEMMA RemoveGroupFields ==
  ASSUME NEW c \in Catalog, NEW g \in Groups
  PROVE  /\ RemoveGroup(c, g) \in Catalog
         /\ RemoveGroup(c, g).pools = c.pools /\ RemoveGroup(c, g).nodes = c.nodes
         /\ RemoveGroup(c, g).groups = c.groups \ {g}
         /\ RemoveGroup(c, g).users =
              [u \in Users |-> IF c.users[u] = Absent THEN Absent ELSE c.users[u] \ {g}]
         /\ RemoveGroup(c, g).rules = {r \in c.rules : r.group # g}
<1>1. [u \in Users |-> IF c.users[u] = Absent THEN Absent ELSE c.users[u] \ {g}]
        \in [Users -> (SUBSET Groups) \union {Absent}]
  <2>1. \A u \in Users : c.users[u] # Absent => c.users[u] \ {g} \in SUBSET Groups
    BY Fields
  <2>. QED BY <2>1
<1>2. {r \in c.rules : r.group # g} \in SUBSET Rules /\ c.groups \ {g} \in SUBSET Groups
  BY Fields
<1>. QED BY <1>1, <1>2 DEF RemoveGroup, Catalog

LEMMA SpansReplaced ==
  ASSUME NEW b \in Body, NEW spans \in SUBSET Pools
  PROVE  /\ [b EXCEPT !.spans = spans] \in Body
         /\ [b EXCEPT !.spans = spans].spans = spans /\ [b EXCEPT !.spans = spans].runtime = b.runtime
BY DEF Body

LEMMA RemovePoolFields ==
  ASSUME NEW c \in Catalog, NEW p \in Pools
  PROVE  /\ RemovePool(c, p) \in Catalog
         /\ RemovePool(c, p).pools = Without(c, p)
         /\ RemovePool(c, p).nodes = [n \in Nodes |-> IF c.nodes[n] = p THEN None ELSE c.nodes[n]]
         /\ RemovePool(c, p).groups = c.groups /\ RemovePool(c, p).users = c.users
         /\ RemovePool(c, p).rules = {r \in c.rules : r.pool # p}
<1>1. Without(c, p) \in [Pools -> Body \union {Absent}]
  <2>1. \A q \in Pools : c.pools[q] # Absent => [c.pools[q] EXCEPT !.spans = @ \ {p}] \in Body
    <3>. SUFFICES ASSUME NEW q \in Pools, c.pools[q] # Absent
                  PROVE  [c.pools[q] EXCEPT !.spans = c.pools[q].spans \ {p}] \in Body
      OBVIOUS
    <3>1. c.pools[q] \in Body
      BY Fields
    <3>2. c.pools[q].spans \ {p} \in SUBSET Pools
      BY <3>1 DEF Body
    <3>. QED BY <3>1, <3>2, SpansReplaced
  <2>. QED BY <2>1 DEF Without
<1>2. [n \in Nodes |-> IF c.nodes[n] = p THEN None ELSE c.nodes[n]]
        \in [Nodes -> Pools \union {None, Absent}]
  BY Fields
<1>3. {r \in c.rules : r.pool # p} \in SUBSET Rules
  BY Fields
<1>4. RemovePool(c, p) =
        [c EXCEPT !.pools = Without(c, p),
                  !.nodes = [n \in Nodes |-> IF c.nodes[n] = p THEN None ELSE c.nodes[n]],
                  !.rules = {r \in c.rules : r.pool # p}]
  BY DEF RemovePool
<1>. QED BY <1>1, <1>2, <1>3, <1>4 DEF Catalog

-----------------------------------------------------------------------------
(* Removals leave a catalog that passes validation                          *)

LEMMA SamePools ==
  ASSUME NEW c, NEW d, d.pools = c.pools, Valid(c)
  PROVE  SpansResolve(d) /\ RuntimesValid(d) /\ MembersAgree(d)
BY DEF Valid, SpansResolve, RuntimesValid, MembersAgree, PoolsOf, Runtime, Concrete, Virtual

LEMMA RemoveNodeValid ==
  ASSUME NEW c \in Catalog, NEW n \in Nodes, Valid(c) PROVE Valid(RemoveNode(c, n))
<1>. DEFINE d == RemoveNode(c, n)
<1>0. /\ d.pools = c.pools /\ d.nodes = [c.nodes EXCEPT ![n] = Absent] /\ d.groups = c.groups
      /\ d.users = c.users /\ d.rules = {r \in c.rules : r.node # n}
  BY RemoveNodeFields
<1>. HIDE DEF d
<1>1. SpansResolve(d) /\ RuntimesValid(d) /\ MembersAgree(d)
  BY <1>0, SamePools
<1>2. NodesPlaced(d)
  BY <1>0, Fields DEF Valid, NodesPlaced, NodesOf, Concrete, PoolsOf
<1>3. GroupsResolve(d)
  BY <1>0 DEF Valid, GroupsResolve, UsersOf
<1>4. \A r \in d.rules : WellShaped(r)
  BY <1>0 DEF Valid
<1>5. RulesResolve(d)
  BY <1>0, Fields DEF Valid, RulesResolve, RuleResolves, UsersOf, PoolsOf, NodesOf
<1>6. Valid(d)
  BY <1>1, <1>2, <1>3, <1>4, <1>5 DEF Valid
<1>. QED BY <1>6 DEF d

LEMMA RemoveUserValid ==
  ASSUME NEW c \in Catalog, NEW u \in Users, Valid(c) PROVE Valid(RemoveUser(c, u))
<1>. DEFINE d == RemoveUser(c, u)
<1>0. /\ d.pools = c.pools /\ d.nodes = c.nodes /\ d.groups = c.groups
      /\ d.users = [c.users EXCEPT ![u] = Absent] /\ d.rules = {r \in c.rules : r.user # u}
  BY RemoveUserFields
<1>. HIDE DEF d
<1>1. SpansResolve(d) /\ RuntimesValid(d) /\ MembersAgree(d)
  BY <1>0, SamePools
<1>2. NodesPlaced(d)
  BY <1>0 DEF Valid, NodesPlaced, NodesOf, Concrete, PoolsOf
<1>3. GroupsResolve(d)
  BY <1>0, Fields DEF Valid, GroupsResolve, UsersOf
<1>4. \A r \in d.rules : WellShaped(r)
  BY <1>0 DEF Valid
<1>5. RulesResolve(d)
  BY <1>0, Fields DEF Valid, RulesResolve, RuleResolves, UsersOf, PoolsOf, NodesOf
<1>6. Valid(d)
  BY <1>1, <1>2, <1>3, <1>4, <1>5 DEF Valid
<1>. QED BY <1>6 DEF d

LEMMA RemoveGroupValid ==
  ASSUME NEW c \in Catalog, NEW g \in Groups, Valid(c) PROVE Valid(RemoveGroup(c, g))
<1>. DEFINE d == RemoveGroup(c, g)
<1>0. /\ d.pools = c.pools /\ d.nodes = c.nodes /\ d.groups = c.groups \ {g}
      /\ d.users = [u \in Users |-> IF c.users[u] = Absent THEN Absent ELSE c.users[u] \ {g}]
      /\ d.rules = {r \in c.rules : r.group # g}
  BY RemoveGroupFields
<1>. HIDE DEF d
<1>1. SpansResolve(d) /\ RuntimesValid(d) /\ MembersAgree(d)
  BY <1>0, SamePools
<1>2. NodesPlaced(d)
  BY <1>0 DEF Valid, NodesPlaced, NodesOf, Concrete, PoolsOf
<1>3. GroupsResolve(d)
  <2>. SUFFICES ASSUME NEW u \in Users, d.users[u] # Absent PROVE d.users[u] \subseteq d.groups
    BY DEF GroupsResolve, UsersOf
  <2>1. c.users[u] # Absent /\ d.users[u] = c.users[u] \ {g}
    BY <1>0
  <2>2. c.users[u] \subseteq c.groups
    BY <2>1 DEF Valid, GroupsResolve, UsersOf
  <2>. QED BY <1>0, <2>1, <2>2
<1>4. \A r \in d.rules : WellShaped(r)
  BY <1>0 DEF Valid
<1>5. UsersOf(c) \subseteq UsersOf(d)
  <2>1. ASSUME NEW u \in UsersOf(c) PROVE d.users[u] # Absent
    <3>1. c.users[u] \in SUBSET Groups /\ d.users[u] = c.users[u] \ {g} /\ c.users[u] # Absent
      BY <1>0, Fields DEF UsersOf
    <3>2. c.users[u] \ {g} \in SUBSET Groups
      BY <3>1
    <3>. QED BY <3>1, <3>2, NamesAssumption
  <2>. QED BY <2>1 DEF UsersOf
<1>6. RulesResolve(d)
  BY <1>0, <1>5 DEF Valid, RulesResolve, RuleResolves, PoolsOf, NodesOf
<1>7. Valid(d)
  BY <1>1, <1>2, <1>3, <1>4, <1>6 DEF Valid
<1>. QED BY <1>7 DEF d

(* What is left of the pools, and what the others are without the one.      *)
LEMMA WithoutFields ==
  ASSUME NEW c \in Catalog, NEW p \in Pools, NEW d, d.pools = Without(c, p)
  PROVE  /\ PoolsOf(d) = PoolsOf(c) \ {p}
         /\ \A q \in PoolsOf(d) : /\ c.pools[q] \in Body /\ d.pools[q] \in Body
                                  /\ d.pools[q].spans = c.pools[q].spans \ {p}
                                  /\ d.pools[q].runtime = c.pools[q].runtime
<1>1. ASSUME NEW q \in Pools, q # p, c.pools[q] # Absent
      PROVE  /\ c.pools[q] \in Body /\ d.pools[q] \in Body
             /\ d.pools[q].spans = c.pools[q].spans \ {p}
             /\ d.pools[q].runtime = c.pools[q].runtime
  <2>1. c.pools[q] \in Body
    BY <1>1, Fields
  <2>2. d.pools[q] = [c.pools[q] EXCEPT !.spans = c.pools[q].spans \ {p}]
    BY <1>1 DEF Without
  <2>3. c.pools[q].spans \ {p} \in SUBSET Pools
    BY <2>1 DEF Body
  <2>. QED BY <2>1, <2>2, <2>3, SpansReplaced
<1>2. ASSUME NEW q \in Pools, q = p \/ c.pools[q] = Absent PROVE d.pools[q] = Absent
  BY <1>2 DEF Without
<1>. QED BY <1>1, <1>2, NamesAssumption DEF PoolsOf

LEMMA RemovePoolValid ==
  ASSUME NEW c \in Catalog, NEW p \in Pools, Valid(c), ~Bare(RemovePool(c, p))
  PROVE  Valid(RemovePool(c, p))
<1>. DEFINE d == RemovePool(c, p)
<1>0. /\ d.pools = Without(c, p)
      /\ d.nodes = [n \in Nodes |-> IF c.nodes[n] = p THEN None ELSE c.nodes[n]]
      /\ d.groups = c.groups /\ d.users = c.users /\ d.rules = {r \in c.rules : r.pool # p}
      /\ ~Bare(d)
  BY RemovePoolFields
<1>. HIDE DEF d
<1>1. /\ PoolsOf(d) = PoolsOf(c) \ {p}
      /\ \A q \in PoolsOf(d) : /\ c.pools[q] \in Body /\ d.pools[q] \in Body
                               /\ d.pools[q].spans = c.pools[q].spans \ {p}
                               /\ d.pools[q].runtime = c.pools[q].runtime
  BY <1>0, WithoutFields
<1>2. \A m \in Pools : Concrete(c, m) /\ m # p => Concrete(d, m)
  BY <1>1 DEF Concrete, Virtual
<1>3. SpansResolve(d)
  <2>. SUFFICES ASSUME NEW q \in PoolsOf(d), NEW m \in d.pools[q].spans PROVE Concrete(d, m)
    BY DEF SpansResolve
  <2>1. m \in c.pools[q].spans /\ m # p /\ q \in PoolsOf(c)
    BY <1>1
  <2>2. Concrete(c, m)
    BY <2>1 DEF Valid, SpansResolve
  <2>3. m \in Pools
    BY <2>2 DEF Concrete, PoolsOf
  <2>. QED BY <1>2, <2>1, <2>2, <2>3
<1>4. ASSUME NEW q \in PoolsOf(d) PROVE Runtime(d, q) = Runtime(c, q)
  <2>1. q \in PoolsOf(c) /\ d.pools[q].runtime = c.pools[q].runtime
    BY <1>1
  <2>2. CASE c.pools[q].runtime # ""
    BY <2>1, <2>2 DEF Runtime
  <2>3. CASE c.pools[q].runtime = ""
    <3>1. d.pools[q].spans # {}
      <4>. SUFFICES ASSUME d.pools[q].spans = {} PROVE FALSE
        OBVIOUS
      <4>1. d.pools[q] = [runtime |-> "", spans |-> {}]
        BY <1>1, <2>1, <2>3 DEF Body
      <4>. QED BY <1>0, <4>1 DEF Bare
    <3>2. PICK m \in d.pools[q].spans : Runtime(d, q) = d.pools[m].runtime
      BY <2>1, <2>3, <3>1 DEF Runtime, Virtual
    <3>3. m \in c.pools[q].spans /\ m # p
      BY <1>1
    <3>4. m \in PoolsOf(d)
      BY <1>3 DEF SpansResolve, Concrete
    <3>5. c.pools[m].runtime = Runtime(c, q)
      BY <2>1, <3>3 DEF Valid, MembersAgree
    <3>. QED BY <1>1, <3>2, <3>4, <3>5
  <2>. QED BY <2>2, <2>3
<1>5. RuntimesValid(d)
  BY <1>1, <1>4 DEF Valid, RuntimesValid
<1>6. MembersAgree(d)
  <2>. SUFFICES ASSUME NEW q \in PoolsOf(d), NEW m \in d.pools[q].spans
                PROVE  d.pools[m].runtime = Runtime(d, q)
    BY DEF MembersAgree
  <2>1. m \in c.pools[q].spans /\ q \in PoolsOf(c) /\ m \in PoolsOf(d)
    BY <1>1, <1>3 DEF SpansResolve, Concrete
  <2>2. c.pools[m].runtime = Runtime(c, q)
    BY <2>1 DEF Valid, MembersAgree
  <2>. QED BY <1>1, <1>4, <2>1, <2>2
<1>7. NodesOf(d) \subseteq NodesOf(c)
  BY <1>0, Fields, NamesAssumption DEF NodesOf
<1>8. NodesPlaced(d)
  <2>. SUFFICES ASSUME NEW n \in NodesOf(d), d.nodes[n] # None PROVE Concrete(d, d.nodes[n])
    BY DEF NodesPlaced
  <2>1. n \in NodesOf(c) /\ n \in Nodes /\ d.nodes[n] = c.nodes[n] /\ c.nodes[n] # p
    BY <1>0, <1>7 DEF NodesOf
  <2>2. Concrete(c, c.nodes[n])
    BY <2>1 DEF Valid, NodesPlaced
  <2>3. c.nodes[n] \in Pools
    BY <2>2 DEF Concrete, PoolsOf
  <2>. QED BY <1>2, <2>1, <2>2, <2>3
<1>9. GroupsResolve(d)
  BY <1>0 DEF Valid, GroupsResolve, UsersOf
<1>10. \A r \in d.rules : WellShaped(r)
  BY <1>0 DEF Valid
<1>11. RulesResolve(d)
  <2>1. NodesOf(c) \subseteq NodesOf(d)
    BY <1>0, NamesAssumption DEF NodesOf
  <2>2. UsersOf(d) = UsersOf(c) /\ d.groups = c.groups
    BY <1>0 DEF UsersOf
  <2>. SUFFICES ASSUME NEW r \in d.rules PROVE RuleResolves(d, r)
    BY DEF RulesResolve
  <2>3. r \in c.rules /\ r.pool # p
    BY <1>0
  <2>4. RuleResolves(c, r)
    BY <2>3 DEF Valid, RulesResolve
  <2>. QED BY <1>1, <2>1, <2>2, <2>3, <2>4 DEF RuleResolves
<1>12. Valid(d)
  BY <1>3, <1>5, <1>6, <1>8, <1>9, <1>10, <1>11 DEF Valid
<1>. QED BY <1>12 DEF d

LEMMA RemoveRuleValid ==
  ASSUME NEW c \in Catalog, NEW r \in c.rules, Valid(c) PROVE Valid(RemoveRule(c, r))
<1>. DEFINE d == RemoveRule(c, r)
<1>0. /\ d.pools = c.pools /\ d.nodes = c.nodes /\ d.groups = c.groups /\ d.users = c.users
      /\ d.rules = c.rules \ {r}
  BY DEF RemoveRule, Catalog
<1>. HIDE DEF d
<1>1. SpansResolve(d) /\ RuntimesValid(d) /\ MembersAgree(d)
  BY <1>0, SamePools
<1>2. NodesPlaced(d) /\ GroupsResolve(d)
  BY <1>0 DEF Valid, NodesPlaced, NodesOf, Concrete, PoolsOf, GroupsResolve, UsersOf
<1>3. (\A q \in d.rules : WellShaped(q)) /\ RulesResolve(d)
  BY <1>0 DEF Valid, RulesResolve, RuleResolves, UsersOf, PoolsOf, NodesOf
<1>4. Valid(d)
  BY <1>1, <1>2, <1>3 DEF Valid
<1>. QED BY <1>4 DEF d

LEMMA EmptyValid == Empty \in Catalog /\ Valid(Empty)
<1>1. /\ Empty \in Catalog /\ PoolsOf(Empty) = {} /\ NodesOf(Empty) = {} /\ UsersOf(Empty) = {}
      /\ Empty.rules = {}
  BY DEF Empty, Catalog, PoolsOf, NodesOf, UsersOf
<1>. QED BY <1>1 DEF Valid, SpansResolve, RuntimesValid, MembersAgree, NodesPlaced, GroupsResolve,
                     RulesResolve

-----------------------------------------------------------------------------
(* Types                                                                    *)

(* What a request asks for, and what that has to do with what is in force.  *)
LEMMA AskedFor ==
  ASSUME TypeOK, RawValid, NEW c \in Clients, NEW next, NEW by, Asks(c, next, by),
         next \in Catalog, by \in {"put", "delete", "heartbeat"}
  PROVE  /\ client[c].pc = "idle"
         /\ client' = [client EXCEPT ![c] = [pc |-> "apply", next |-> next, by |-> by, fresh |-> TRUE]]
         /\ [pc |-> "apply", next |-> next, by |-> by, fresh |-> TRUE] \in Request
         /\ edits' \in 0 .. MaxEdits
         /\ UNCHANGED <<driver, raw, stored, tx, catMu, reload, astray, faults, reloads>>
<1>1. edits' \in 0 .. MaxEdits
  BY BoundsAssumption DEF Asks, TypeOK
<1>2. [pc |-> "apply", next |-> next, by |-> by, fresh |-> TRUE] \in Request
  BY DEF Request
<1>. QED BY <1>1, <1>2 DEF Asks, StoreUnchanged, Idle

(* A request of c that could be asked of the catalog in force.              *)
Askable(next, by) ==
  /\ next \in Catalog /\ by \in {"put", "delete", "heartbeat"}
  /\ by = "delete" => Valid(next) \/ Bare(next)
  /\ by = "heartbeat" => \A n \in NodesOf(raw) : next.nodes[n] = raw.nodes[n]

LEMMA AsksWhat ==
  ASSUME TypeOK, RawValid, NEW c \in Clients,
         \/ PutNode(c) \/ DeleteNode(c) \/ PutPool(c) \/ DeletePool(c) \/ PutGroup(c)
         \/ DeleteGroup(c) \/ PutUser(c) \/ DeleteUser(c) \/ PutRule(c) \/ DeleteRule(c)
         \/ PutConfig(c) \/ Heartbeat(c)
  PROVE  \E next \in Catalog, by \in {"put", "delete", "heartbeat"} :
           Asks(c, next, by) /\ Askable(next, by)
<1>0. raw \in Catalog /\ Valid(raw)
  BY DEF TypeOK, RawValid
<1>. DEFINE Goal == \E next \in Catalog, by \in {"put", "delete", "heartbeat"} :
                      Asks(c, next, by) /\ Askable(next, by)
<1>1. ASSUME NEW next \in Catalog, Asks(c, next, "put") PROVE Goal
  BY <1>1 DEF Askable
<1>2. ASSUME NEW next \in Catalog, Asks(c, next, "delete"), Valid(next) \/ Bare(next) PROVE Goal
  BY <1>2 DEF Askable
<1>3. CASE PutNode(c)
  <2>1. PICK n \in Nodes, p \in Pools \union {None} : Asks(c, SetNode(raw, n, p), "put")
    BY <1>3 DEF PutNode
  <2>2. SetNode(raw, n, p) \in Catalog
    BY <1>0, SetNodeFields
  <2>. QED BY <1>1, <2>1, <2>2
<1>4. CASE PutPool(c)
  <2>0. PICK p \in Pools : \E b \in Bodies[p] : Asks(c, SetPool(raw, p, b), "put")
    BY <1>4 DEF PutPool
  <2>1. PICK b \in Bodies[p] : Asks(c, SetPool(raw, p, b), "put")
    BY <2>0
  <2>2. SetPool(raw, p, b) \in Catalog
    BY <1>0, BodiesAssumption, SetPoolTyped
  <2>. QED BY <1>1, <2>1, <2>2
<1>5. CASE PutUser(c)
  <2>1. PICK u \in Users, gs \in SUBSET Groups : Asks(c, SetUser(raw, u, gs), "put")
    BY <1>5 DEF PutUser
  <2>2. SetUser(raw, u, gs) \in Catalog
    BY <1>0, SetUserTyped
  <2>. QED BY <1>1, <2>1, <2>2
<1>6. CASE PutGroup(c)
  BY <1>0, <1>1, <1>6, SetGroupAndRulesTyped DEF PutGroup
<1>7. CASE PutRule(c)
  <2>1. PICK at \in Rules, r \in Rules :
          Asks(c, SetRule(IF at = r THEN raw ELSE RemoveRule(raw, at), r), "put")
    BY <1>7 DEF PutRule
  <2>2. (IF at = r THEN raw ELSE RemoveRule(raw, at)) \in Catalog
    BY <1>0, SetGroupAndRulesTyped
  <2>3. SetRule(IF at = r THEN raw ELSE RemoveRule(raw, at), r) \in Catalog
    BY <2>2, SetGroupAndRulesTyped
  <2>. QED BY <1>1, <2>1, <2>3
<1>8. CASE PutConfig(c)
  BY <1>1, <1>8, CatalogsAssumption DEF PutConfig
<1>9. CASE DeleteNode(c)
  BY <1>0, <1>2, <1>9, RemoveNodeFields, RemoveNodeValid DEF DeleteNode, NodesOf
<1>10. CASE DeletePool(c)
  BY <1>0, <1>2, <1>10, RemovePoolFields, RemovePoolValid DEF DeletePool, PoolsOf
<1>11. CASE DeleteGroup(c)
  BY <1>0, <1>2, <1>11, Fields, RemoveGroupFields, RemoveGroupValid DEF DeleteGroup
<1>12. CASE DeleteUser(c)
  BY <1>0, <1>2, <1>12, RemoveUserFields, RemoveUserValid DEF DeleteUser, UsersOf
<1>13. CASE DeleteRule(c)
  BY <1>0, <1>2, <1>13, Fields, SetGroupAndRulesTyped, RemoveRuleValid DEF DeleteRule
<1>14. CASE Heartbeat(c)
  <2>1. PICK n \in Nodes, s \in Suggestions :
          /\ n \notin NodesOf(raw)
          /\ Asks(c, SetNode(raw, n, IF s \in PoolsOf(raw) THEN s ELSE None), "heartbeat")
    BY <1>14 DEF Heartbeat, Registers
  <2> DEFINE pool == IF s \in PoolsOf(raw) THEN s ELSE None
             next == SetNode(raw, n, pool)
  <2>2. pool \in Pools \union {None}
    BY DEF PoolsOf
  <2>3. next \in Catalog /\ next.nodes = [raw.nodes EXCEPT ![n] = pool]
    BY <1>0, <2>2, SetNodeFields
  <2>4. \A m \in NodesOf(raw) : next.nodes[m] = raw.nodes[m]
    BY <1>0, <2>1, <2>3, Fields DEF NodesOf
  <2>. HIDE DEF next
  <2>5. Askable(next, "heartbeat")
    BY <2>3, <2>4 DEF Askable
  <2>. QED BY <2>1, <2>3, <2>5 DEF next
<1>. QED BY <1>3, <1>4, <1>5, <1>6, <1>7, <1>8, <1>9, <1>10, <1>11, <1>12, <1>13, <1>14

-----------------------------------------------------------------------------
(* Batches, field by field                                                  *)

LEMMA SameBody ==
  ASSUME NEW a \in Body, NEW b \in Body, a.runtime = b.runtime, a.spans = b.spans PROVE a = b
<1>1. a = [runtime |-> a.runtime, spans |-> a.spans] /\ b = [runtime |-> b.runtime, spans |-> b.spans]
  BY DEF Body
<1>. QED BY <1>1

LEMMA PoolsWrittenFields ==
  ASSUME NEW t \in Catalog, NEW c \in Catalog, NEW S \in SUBSET PoolsOf(c)
  PROVE  /\ PoolsWritten(t, c, S) \in Catalog
         /\ \A p \in S : /\ PoolsWritten(t, c, S).pools[p] # Absent
                         /\ PoolsWritten(t, c, S).pools[p].runtime = c.pools[p].runtime
<1> DEFINE body(p) == [runtime |-> c.pools[p].runtime,
                       spans |-> IF t.pools[p] = Absent THEN {} ELSE t.pools[p].spans]
           pools == [p \in Pools |-> IF p \in S THEN body(p) ELSE t.pools[p]]
<1>1. ASSUME NEW p \in S PROVE p \in Pools /\ body(p) \in Body /\ body(p).runtime = c.pools[p].runtime
  <2>1. p \in Pools /\ c.pools[p] \in Body
    BY Fields DEF PoolsOf
  <2>2. t.pools[p] # Absent => t.pools[p] \in Body
    BY <2>1, Fields
  <2>3. (IF t.pools[p] = Absent THEN {} ELSE t.pools[p].spans) \in SUBSET Pools
    BY <2>2 DEF Body
  <2>. QED BY <2>1, <2>3 DEF Body
<1>2. pools \in [Pools -> Body \union {Absent}]
  BY <1>1, Fields
<1>3. PoolsWritten(t, c, S) = [t EXCEPT !.pools = pools]
  BY DEF PoolsWritten
<1>4. PoolsWritten(t, c, S) \in Catalog /\ PoolsWritten(t, c, S).pools = pools
  <2>. HIDE DEF pools
  <2>. QED BY <1>2, <1>3, Replaced DEF Catalog
<1>5. ASSUME NEW p \in S PROVE pools[p] # Absent /\ pools[p].runtime = c.pools[p].runtime
  <2>1. p \in Pools /\ pools[p] = body(p)
    BY <1>1
  <2>. HIDE DEF body, pools
  <2>. QED BY <1>1, <2>1, NamesAssumption
<1>. HIDE DEF pools
<1>. QED BY <1>4, <1>5

LEMMA PoolsDroppedFields ==
  ASSUME NEW t \in Catalog, NEW c \in Catalog
  PROVE  /\ PoolsDropped(t, c) \in Catalog
         /\ PoolsOf(PoolsDropped(t, c)) = PoolsOf(t) \intersect PoolsOf(c)
         /\ \A p \in PoolsOf(PoolsDropped(t, c)) :
              PoolsDropped(t, c).pools[p].runtime = t.pools[p].runtime
<1> DEFINE body(p) == [t.pools[p] EXCEPT !.spans = t.pools[p].spans \intersect PoolsOf(c)]
           pools == [p \in Pools |-> IF t.pools[p] = Absent \/ c.pools[p] = Absent THEN Absent ELSE body(p)]
           nodes == [n \in Nodes |-> IF t.nodes[n] \in Pools \ PoolsOf(c) THEN None ELSE t.nodes[n]]
           rules == {r \in t.rules : r.pool = None \/ r.pool \in PoolsOf(c)}
<1>1. ASSUME NEW p \in Pools, t.pools[p] # Absent
      PROVE  body(p) \in Body /\ body(p).runtime = t.pools[p].runtime
  <2>1. t.pools[p] \in Body
    BY <1>1, Fields
  <2>2. t.pools[p].spans \intersect PoolsOf(c) \in SUBSET Pools
    BY DEF PoolsOf
  <2>. QED BY <2>1, <2>2, SpansReplaced
<1>2. pools \in [Pools -> Body \union {Absent}] /\ nodes \in [Nodes -> Pools \union {None, Absent}]
      /\ rules \in SUBSET Rules
  BY <1>1, Fields
<1>3. PoolsDropped(t, c) = [t EXCEPT !.pools = pools, !.nodes = nodes, !.rules = rules]
  BY DEF PoolsDropped
<1>4. PoolsDropped(t, c) \in Catalog /\ PoolsDropped(t, c).pools = pools
  <2>. HIDE DEF pools, nodes, rules
  <2>. QED BY <1>2, <1>3 DEF Catalog
<1>. QED BY <1>1, <1>4, NamesAssumption DEF PoolsOf

(* Other spans for the pools there are.                                     *)
Respan(t, spans) ==
  [t EXCEPT !.pools = [p \in Pools |-> IF t.pools[p] = Absent THEN Absent
                                       ELSE [t.pools[p] EXCEPT !.spans = spans[p]]]]

LEMMA SpansFields ==
  ASSUME NEW t \in Catalog, NEW spans \in [Pools -> SUBSET Pools]
  PROVE  /\ Respan(t, spans) \in Catalog /\ PoolsOf(Respan(t, spans)) = PoolsOf(t)
         /\ \A p \in PoolsOf(t) : /\ Respan(t, spans).pools[p] \in Body
                                  /\ Respan(t, spans).pools[p].spans = spans[p]
                                  /\ Respan(t, spans).pools[p].runtime = t.pools[p].runtime
<1> DEFINE pools == [p \in Pools |-> IF t.pools[p] = Absent THEN Absent
                                     ELSE [t.pools[p] EXCEPT !.spans = spans[p]]]
<1>1. ASSUME NEW p \in Pools, t.pools[p] # Absent
      PROVE  /\ pools[p] \in Body /\ pools[p].spans = spans[p]
             /\ pools[p].runtime = t.pools[p].runtime
  <2>1. t.pools[p] \in Body
    BY <1>1, Fields
  <2>. QED BY <1>1, <2>1, SpansReplaced
<1>2. pools \in [Pools -> Body \union {Absent}]
  BY <1>1
<1>3. Respan(t, spans) \in Catalog /\ Respan(t, spans).pools = pools
  <2>1. Respan(t, spans) = [t EXCEPT !.pools = pools]
    BY DEF Respan
  <2>. HIDE DEF pools
  <2>. QED BY <1>2, <2>1, Replaced DEF Catalog
<1>4. ASSUME NEW p \in Pools, t.pools[p] = Absent PROVE pools[p] = Absent
  BY <1>4
<1>. QED BY <1>1, <1>3, <1>4, NamesAssumption DEF PoolsOf

LEMMA SpansDroppedFields ==
  ASSUME NEW t \in Catalog
  PROVE  /\ SpansDropped(t) \in Catalog /\ PoolsOf(SpansDropped(t)) = PoolsOf(t)
         /\ \A p \in PoolsOf(SpansDropped(t)) :
              /\ SpansDropped(t).pools[p].spans = {}
              /\ SpansDropped(t).pools[p].runtime = t.pools[p].runtime
<1> DEFINE spans == [p \in Pools |-> {}]
<1>1. spans \in [Pools -> SUBSET Pools] /\ \A p \in Pools : spans[p] = {}
  OBVIOUS
<1>2. SpansDropped(t) = Respan(t, spans)
  BY DEF SpansDropped, Respan
<1>. HIDE DEF spans
<1>3. PoolsOf(t) \subseteq Pools
  BY DEF PoolsOf
<1>. QED BY <1>1, <1>2, <1>3, SpansFields

LEMMA SpansWrittenFields ==
  ASSUME NEW t \in Catalog, NEW S
  PROVE  /\ SpansWritten(t, S) \in Catalog /\ PoolsOf(SpansWritten(t, S)) = PoolsOf(t)
         /\ \A p \in PoolsOf(SpansWritten(t, S)) :
              /\ SpansWritten(t, S).pools[p] \in Body
              /\ SpansWritten(t, S).pools[p].runtime = t.pools[p].runtime
              /\ SpansWritten(t, S).pools[p].spans =
                   t.pools[p].spans \union {m \in Pools : <<p, m>> \in S}
<1> DEFINE new(p) == t.pools[p].spans \union {m \in Pools : <<p, m>> \in S}
           spans == [p \in Pools |-> IF t.pools[p] = Absent THEN {} ELSE new(p)]
<1>1. spans \in [Pools -> SUBSET Pools]
  <2>1. \A p \in Pools : t.pools[p] # Absent => t.pools[p].spans \in SUBSET Pools
    BY Fields DEF Body
  <2>. QED BY <2>1
<1>2. \A p \in Pools : t.pools[p] # Absent => spans[p] = new(p)
  OBVIOUS
<1>3. SpansWritten(t, S) = Respan(t, spans)
  BY <1>2 DEF SpansWritten, Respan
<1>. HIDE DEF spans
<1>4. \A p \in PoolsOf(t) : spans[p] = new(p)
  BY <1>2 DEF PoolsOf
<1>. QED BY <1>1, <1>3, <1>4, SpansFields

LEMMA NodesFields ==
  ASSUME NEW t \in Catalog, NEW c \in Catalog, NEW S \in SUBSET NodesOf(c)
  PROVE  /\ NodesWritten(t, c, S) \in Catalog /\ NodesWritten(t, c, S).pools = t.pools
         /\ \A n \in S : NodesWritten(t, c, S).nodes[n] = c.nodes[n]
         /\ NodesDropped(t, c) \in Catalog /\ NodesDropped(t, c).pools = t.pools
         /\ (\A n \in NodesOf(c) : t.nodes[n] = c.nodes[n]) => NodesDropped(t, c).nodes = c.nodes
<1>1. [n \in Nodes |-> IF n \in S THEN c.nodes[n] ELSE t.nodes[n]] \in [Nodes -> Pools \union {None, Absent}]
      /\ S \subseteq Nodes
  BY Fields DEF NodesOf
<1>2. NodesWritten(t, c, S) \in Catalog /\ NodesWritten(t, c, S).pools = t.pools
      /\ \A n \in S : NodesWritten(t, c, S).nodes[n] = c.nodes[n]
  BY <1>1 DEF NodesWritten, Catalog
<1>3. [n \in Nodes |-> IF c.nodes[n] = Absent THEN Absent ELSE t.nodes[n]]
        \in [Nodes -> Pools \union {None, Absent}]
      /\ {r \in t.rules : r.node = None \/ r.node \in NodesOf(c)} \in SUBSET Rules
  BY Fields
<1>4. NodesDropped(t, c) \in Catalog /\ NodesDropped(t, c).pools = t.pools
      /\ NodesDropped(t, c).nodes = [n \in Nodes |-> IF c.nodes[n] = Absent THEN Absent ELSE t.nodes[n]]
  BY <1>3 DEF NodesDropped, Catalog
<1>5. ASSUME \A n \in NodesOf(c) : t.nodes[n] = c.nodes[n]
      PROVE  [n \in Nodes |-> IF c.nodes[n] = Absent THEN Absent ELSE t.nodes[n]] = c.nodes
  BY <1>5, Fields DEF NodesOf
<1>. QED BY <1>2, <1>4, <1>5

LEMMA GroupsFields ==
  ASSUME NEW t \in Catalog, NEW c \in Catalog, NEW S \in SUBSET c.groups
  PROVE  /\ GroupsWritten(t, S) \in Catalog /\ GroupsWritten(t, S).pools = t.pools
         /\ GroupsWritten(t, S).nodes = t.nodes /\ S \subseteq GroupsWritten(t, S).groups
         /\ GroupsDropped(t, c) \in Catalog /\ GroupsDropped(t, c).pools = t.pools
         /\ GroupsDropped(t, c).nodes = t.nodes
         /\ GroupsDropped(t, c).groups = t.groups \intersect c.groups
<1>1. S \union t.groups \in SUBSET Groups
  BY Fields
<1>2. GroupsWritten(t, S) \in Catalog /\ GroupsWritten(t, S).pools = t.pools
      /\ GroupsWritten(t, S).nodes = t.nodes /\ S \subseteq GroupsWritten(t, S).groups
  BY <1>1 DEF GroupsWritten, Catalog
<1> DEFINE users == [u \in Users |-> IF t.users[u] = Absent THEN Absent ELSE t.users[u] \intersect c.groups]
           rules == {r \in t.rules : r.group = None \/ r.group \in c.groups}
<1>3. users \in [Users -> (SUBSET Groups) \union {Absent}]
  <2>1. \A u \in Users : t.users[u] # Absent => t.users[u] \intersect c.groups \in SUBSET Groups
    BY Fields
  <2>. QED BY <2>1
<1>4. rules \in SUBSET Rules /\ t.groups \intersect c.groups \in SUBSET Groups
  BY Fields
<1>5. GroupsDropped(t, c) = [t EXCEPT !.groups = t.groups \intersect c.groups, !.users = users, !.rules = rules]
  BY DEF GroupsDropped
<1>. HIDE DEF users, rules
<1>. QED BY <1>2, <1>3, <1>4, <1>5 DEF Catalog

LEMMA UsersFields ==
  ASSUME NEW t \in Catalog, NEW c \in Catalog, NEW S \in SUBSET UsersOf(c)
  PROVE  /\ UsersWritten(t, S) \in Catalog /\ UsersWritten(t, S).pools = t.pools
         /\ UsersWritten(t, S).nodes = t.nodes /\ UsersWritten(t, S).groups = t.groups
         /\ S \subseteq UsersOf(UsersWritten(t, S))
         /\ UsersDropped(t, c) \in Catalog /\ UsersDropped(t, c).pools = t.pools
         /\ UsersDropped(t, c).nodes = t.nodes /\ UsersDropped(t, c).groups = t.groups
         /\ UsersOf(UsersDropped(t, c)) = UsersOf(t) \intersect UsersOf(c)
<1> DEFINE written == [u \in Users |-> IF u \in S /\ t.users[u] = Absent THEN {} ELSE t.users[u]]
           dropped == [u \in Users |-> IF c.users[u] = Absent THEN Absent ELSE t.users[u]]
           rules == {r \in t.rules : r.user = None \/ r.user \in UsersOf(c)}
<1>1. {} \in SUBSET Groups /\ {} # Absent /\ S \subseteq Users
  BY NamesAssumption DEF UsersOf
<1>2. written \in [Users -> (SUBSET Groups) \union {Absent}] /\ \A u \in S : written[u] # Absent
  BY <1>1, Fields
<1>3. /\ dropped \in [Users -> (SUBSET Groups) \union {Absent}] /\ rules \in SUBSET Rules
      /\ \A u \in Users : dropped[u] # Absent <=> c.users[u] # Absent /\ t.users[u] # Absent
  BY Fields
<1>4. UsersWritten(t, S) = [t EXCEPT !.users = written]
      /\ UsersDropped(t, c) = [t EXCEPT !.users = dropped, !.rules = rules]
  BY DEF UsersWritten, UsersDropped
<1>. HIDE DEF written, dropped, rules
<1>5. UsersWritten(t, S) \in Catalog /\ UsersWritten(t, S).pools = t.pools
      /\ UsersWritten(t, S).nodes = t.nodes /\ UsersWritten(t, S).groups = t.groups
      /\ UsersWritten(t, S).users = written
  BY <1>2, <1>4 DEF Catalog
<1>6. UsersDropped(t, c) \in Catalog /\ UsersDropped(t, c).pools = t.pools
      /\ UsersDropped(t, c).nodes = t.nodes /\ UsersDropped(t, c).groups = t.groups
      /\ UsersDropped(t, c).users = dropped
  BY <1>3, <1>4 DEF Catalog
<1>. QED BY <1>1, <1>2, <1>3, <1>5, <1>6 DEF UsersOf

(* Other memberships for the users there are.                               *)
Rejoin(t, members) ==
  [t EXCEPT !.users = [u \in Users |-> IF t.users[u] = Absent THEN Absent ELSE members[u]]]

LEMMA MembersFields ==
  ASSUME NEW t \in Catalog, NEW members \in [Users -> SUBSET Groups], NEW d, d = Rejoin(t, members)
  PROVE  /\ d \in Catalog /\ d.pools = t.pools /\ d.nodes = t.nodes /\ d.groups = t.groups
         /\ UsersOf(d) = UsersOf(t) /\ \A u \in UsersOf(d) : d.users[u] = members[u]
<1> DEFINE users == [u \in Users |-> IF t.users[u] = Absent THEN Absent ELSE members[u]]
<1>1. users \in [Users -> (SUBSET Groups) \union {Absent}]
  OBVIOUS
<1>2. \A u \in Users : t.users[u] # Absent => users[u] = members[u] /\ users[u] # Absent
  BY NamesAssumption
<1>3. \A u \in Users : t.users[u] = Absent => users[u] = Absent
  OBVIOUS
<1>4. d = [t EXCEPT !.users = users]
  BY DEF Rejoin
<1>. HIDE DEF users
<1>5. d \in Catalog /\ d.pools = t.pools /\ d.nodes = t.nodes /\ d.groups = t.groups /\ d.users = users
  BY <1>1, <1>4 DEF Catalog
<1>. QED BY <1>2, <1>3, <1>5 DEF UsersOf

LEMMA MembersDroppedFields ==
  ASSUME NEW t \in Catalog
  PROVE  /\ MembersDropped(t) \in Catalog /\ MembersDropped(t).pools = t.pools
         /\ MembersDropped(t).nodes = t.nodes /\ MembersDropped(t).groups = t.groups
         /\ UsersOf(MembersDropped(t)) = UsersOf(t)
         /\ \A u \in UsersOf(MembersDropped(t)) : MembersDropped(t).users[u] = {}
<1> DEFINE members == [u \in Users |-> {}]
<1>1. members \in [Users -> SUBSET Groups] /\ \A u \in Users : members[u] = {}
  OBVIOUS
<1>2. MembersDropped(t) = Rejoin(t, members)
  BY DEF MembersDropped, Rejoin
<1>. HIDE DEF members
<1>3. UsersOf(t) \subseteq Users
  BY DEF UsersOf
<1> DEFINE d == MembersDropped(t)
<1>. HIDE DEF d
<1>4. /\ d \in Catalog /\ d.pools = t.pools /\ d.nodes = t.nodes /\ d.groups = t.groups
      /\ UsersOf(d) = UsersOf(t) /\ \A u \in UsersOf(d) : d.users[u] = members[u]
  BY <1>1, <1>2, MembersFields DEF d
<1>. QED BY <1>1, <1>3, <1>4 DEF d

LEMMA MembersWrittenFields ==
  ASSUME NEW t \in Catalog, NEW S
  PROVE  /\ MembersWritten(t, S) \in Catalog /\ MembersWritten(t, S).pools = t.pools
         /\ MembersWritten(t, S).nodes = t.nodes /\ MembersWritten(t, S).groups = t.groups
         /\ UsersOf(MembersWritten(t, S)) = UsersOf(t)
         /\ \A u \in UsersOf(MembersWritten(t, S)) :
              MembersWritten(t, S).users[u] = t.users[u] \union {g \in Groups : <<u, g>> \in S}
<1> DEFINE new(u) == t.users[u] \union {g \in Groups : <<u, g>> \in S}
           members == [u \in Users |-> IF t.users[u] = Absent THEN {} ELSE new(u)]
<1>1. members \in [Users -> SUBSET Groups]
  <2>1. \A u \in Users : t.users[u] # Absent => t.users[u] \in SUBSET Groups
    BY Fields
  <2>. QED BY <2>1
<1>2. \A u \in Users : t.users[u] # Absent => members[u] = new(u)
  OBVIOUS
<1>3. MembersWritten(t, S) = Rejoin(t, members)
  BY <1>2 DEF MembersWritten, Rejoin
<1>. HIDE DEF members
<1>. QED BY <1>1, <1>2, <1>3, MembersFields DEF UsersOf

LEMMA RulesFields ==
  ASSUME NEW t \in Catalog, NEW c \in Catalog, NEW S \in SUBSET c.rules
  PROVE  /\ RulesWritten(t, S) \in Catalog
         /\ RulesWritten(t, S) = [t EXCEPT !.rules = t.rules \union S]
         /\ RulesDropped(t, c) \in Catalog
         /\ RulesDropped(t, c) = [t EXCEPT !.rules = t.rules \intersect c.rules]
<1>1. t.rules \union S \in SUBSET Rules /\ t.rules \intersect c.rules \in SUBSET Rules
  BY Fields
<1>. QED BY <1>1, Replaced DEF RulesWritten, RulesDropped

(* What a batch leaves, whichever of its rows it inserts, is a catalog.     *)
LEMMA BatchTyped ==
  ASSUME NEW t \in Catalog, NEW c \in Catalog, NEW pc \in Batches, NEW S \in SUBSET RowsOf(pc, c)
  PROVE  Done(pc, t, c, S) \in Catalog
<1>1. CASE pc \in {"pools", "poolsGone"}
  BY <1>1, PoolsWrittenFields, PoolsDroppedFields DEF Done, RowsOf
<1>2. CASE pc = "spansGone"
  BY <1>2, SpansDroppedFields DEF Done
<1>3. CASE pc = "spans"
  BY <1>3, SpansWrittenFields DEF Done
<1>4. CASE pc \in {"nodes", "nodesGone"}
  BY <1>4, NodesFields DEF Done, RowsOf
<1>5. CASE pc \in {"groups", "groupsGone"}
  BY <1>5, GroupsFields DEF Done, RowsOf
<1>6. CASE pc \in {"users", "usersGone"}
  BY <1>6, UsersFields DEF Done, RowsOf
<1>7. CASE pc = "membersGone"
  BY <1>7, MembersDroppedFields DEF Done
<1>8. CASE pc = "members"
  BY <1>8, MembersWrittenFields DEF Done
<1>9. CASE pc \in {"rules", "rulesGone"}
  BY <1>9, RulesFields DEF Done, RowsOf
<1>. QED BY <1>1, <1>2, <1>3, <1>4, <1>5, <1>6, <1>7, <1>8, <1>9 DEF Batches

(* Batch by batch the rows become those of the catalog that is saved.       *)
LEMMA BatchAdds ==
  ASSUME NEW t \in Catalog, NEW c \in Catalog, NEW pc \in Batches, SoFar(pc, t, c),
         NEW d, d = Done(pc, t, c, RowsOf(pc, c))
  PROVE  SoFar(Then(pc), d, c)
<1>1. CASE pc = "pools"
  <2>1. d = PoolsWritten(t, c, PoolsOf(c)) /\ Then(pc) = "poolsGone"
    BY <1>1 DEF Done, RowsOf, Then
  <2>. QED BY <2>1, PoolsWrittenFields DEF SoFar
<1>2. CASE pc = "poolsGone"
  <2>1. d = PoolsDropped(t, c) /\ Then(pc) = "spansGone"
    BY <1>2 DEF Done, Then
  <2>2. PoolsOf(d) = PoolsOf(t) \intersect PoolsOf(c)
        /\ \A p \in PoolsOf(d) : d.pools[p].runtime = t.pools[p].runtime
    BY <2>1, PoolsDroppedFields
  <2>3. \A p \in PoolsOf(c) : p \in PoolsOf(t) /\ t.pools[p].runtime = c.pools[p].runtime
    BY <1>2 DEF SoFar, PoolsOf
  <2>4. \A p \in PoolsOf(c) : d.pools[p] # Absent /\ d.pools[p].runtime = c.pools[p].runtime
    BY <2>2, <2>3 DEF PoolsOf
  <2>5. PoolsOf(d) \subseteq PoolsOf(c)
    BY <2>2
  <2>. QED BY <2>1, <2>4, <2>5 DEF SoFar
<1>3. CASE pc = "spansGone"
  <2>1. d = SpansDropped(t) /\ Then(pc) = "spans"
    BY <1>3 DEF Done, Then
  <2>2. PoolsOf(d) = PoolsOf(t)
        /\ \A p \in PoolsOf(d) : d.pools[p].spans = {} /\ d.pools[p].runtime = t.pools[p].runtime
    BY <2>1, SpansDroppedFields
  <2>3. \A p \in PoolsOf(c) : p \in PoolsOf(t) /\ t.pools[p].runtime = c.pools[p].runtime
    BY <1>3 DEF SoFar, PoolsOf
  <2>4. PoolsOf(t) \subseteq PoolsOf(c)
    BY <1>3 DEF SoFar
  <2>5. \A p \in PoolsOf(c) : /\ d.pools[p] # Absent /\ d.pools[p].runtime = c.pools[p].runtime
                             /\ d.pools[p].spans = {}
    BY <2>2, <2>3 DEF PoolsOf
  <2>. QED BY <2>1, <2>2, <2>4, <2>5 DEF SoFar
<1>4. CASE pc = "spans"
  <2>1. d = SpansWritten(t, RowsOf("spans", c)) /\ Then(pc) = "nodes"
    BY <1>4 DEF Done, Then
  <2>2. /\ d \in Catalog /\ PoolsOf(d) = PoolsOf(t)
        /\ \A p \in PoolsOf(d) :
             /\ d.pools[p] \in Body /\ d.pools[p].runtime = t.pools[p].runtime
             /\ d.pools[p].spans = t.pools[p].spans \union {m \in Pools : <<p, m>> \in RowsOf("spans", c)}
    BY <2>1, SpansWrittenFields
  <2>3. /\ PoolsOf(t) = PoolsOf(c)
        /\ \A p \in PoolsOf(c) : t.pools[p].runtime = c.pools[p].runtime /\ t.pools[p].spans = {}
    BY <1>4 DEF SoFar, PoolsOf
  <2>4. ASSUME NEW p \in PoolsOf(c) PROVE d.pools[p] = c.pools[p]
    <3>1. c.pools[p] \in Body /\ p \in Pools
      BY Fields DEF PoolsOf
    <3>2. {m \in Pools : <<p, m>> \in RowsOf("spans", c)} = c.pools[p].spans
      BY <3>1 DEF RowsOf, Body
    <3>3. /\ d.pools[p] \in Body /\ d.pools[p].runtime = c.pools[p].runtime
          /\ d.pools[p].spans = c.pools[p].spans
      BY <2>2, <2>3, <3>2
    <3>. QED BY <3>1, <3>3, SameBody
  <2>5. \A p \in Pools : d.pools[p] = c.pools[p]
    BY <2>2, <2>3, <2>4 DEF PoolsOf
  <2>6. d.pools = c.pools
    BY <2>2, <2>5, Fields
  <2>. QED BY <2>1, <2>6 DEF SoFar
<1>5. CASE pc = "nodes"
  <2>1. d = NodesWritten(t, c, NodesOf(c)) /\ Then(pc) = "nodesGone" /\ t.pools = c.pools
    BY <1>5 DEF Done, RowsOf, Then, SoFar
  <2>. QED BY <2>1, NodesFields DEF SoFar
<1>6. CASE pc = "nodesGone"
  <2>1. /\ d = NodesDropped(t, c) /\ Then(pc) = "groups" /\ t.pools = c.pools
        /\ \A n \in NodesOf(c) : t.nodes[n] = c.nodes[n]
    BY <1>6 DEF Done, Then, SoFar
  <2>2. d.pools = t.pools /\ d.nodes = c.nodes
    BY <2>1, NodesFields
  <2>. QED BY <2>1, <2>2 DEF SoFar
<1>7. CASE pc = "groups"
  <2>1. /\ d = GroupsWritten(t, c.groups) /\ Then(pc) = "groupsGone"
        /\ t.pools = c.pools /\ t.nodes = c.nodes
    BY <1>7 DEF Done, RowsOf, Then, SoFar
  <2>2. d.pools = t.pools /\ d.nodes = t.nodes /\ c.groups \subseteq d.groups
    BY <2>1, GroupsFields
  <2>. QED BY <2>1, <2>2 DEF SoFar
<1>8. CASE pc = "groupsGone"
  <2>1. /\ d = GroupsDropped(t, c) /\ Then(pc) = "users"
        /\ t.pools = c.pools /\ t.nodes = c.nodes /\ c.groups \subseteq t.groups
    BY <1>8 DEF Done, Then, SoFar
  <2>2. d.pools = t.pools /\ d.nodes = t.nodes /\ d.groups = t.groups \intersect c.groups
    BY <2>1, GroupsFields
  <2>. QED BY <2>1, <2>2 DEF SoFar
<1>9. CASE pc = "users"
  <2>1. /\ d = UsersWritten(t, UsersOf(c)) /\ Then(pc) = "usersGone"
        /\ t.pools = c.pools /\ t.nodes = c.nodes /\ t.groups = c.groups
    BY <1>9 DEF Done, RowsOf, Then, SoFar
  <2>2. /\ d.pools = t.pools /\ d.nodes = t.nodes /\ d.groups = t.groups
        /\ UsersOf(c) \subseteq UsersOf(d)
    BY <2>1, UsersFields
  <2>. QED BY <2>1, <2>2 DEF SoFar
<1>10. CASE pc = "usersGone"
  <2>1. /\ d = UsersDropped(t, c) /\ Then(pc) = "membersGone" /\ t.pools = c.pools
        /\ t.nodes = c.nodes /\ t.groups = c.groups /\ UsersOf(c) \subseteq UsersOf(t)
    BY <1>10 DEF Done, Then, SoFar
  <2>2. /\ d.pools = t.pools /\ d.nodes = t.nodes /\ d.groups = t.groups
        /\ UsersOf(d) = UsersOf(t) \intersect UsersOf(c)
    BY <2>1, UsersFields
  <2>3. UsersOf(d) = UsersOf(c)
    BY <2>1, <2>2
  <2>. QED BY <2>1, <2>2, <2>3 DEF SoFar
<1>11. CASE pc = "membersGone"
  <2>1. /\ d = MembersDropped(t) /\ Then(pc) = "members" /\ t.pools = c.pools
        /\ t.nodes = c.nodes /\ t.groups = c.groups /\ UsersOf(t) = UsersOf(c)
    BY <1>11 DEF Done, Then, SoFar
  <2>2. /\ d.pools = t.pools /\ d.nodes = t.nodes /\ d.groups = t.groups
        /\ UsersOf(d) = UsersOf(t) /\ \A u \in UsersOf(d) : d.users[u] = {}
    BY <2>1, MembersDroppedFields
  <2>3. UsersOf(d) = UsersOf(c) /\ \A u \in UsersOf(c) : d.users[u] = {}
    BY <2>1, <2>2
  <2>. QED BY <2>1, <2>2, <2>3 DEF SoFar
<1>12. CASE pc = "members"
  <2>1. /\ d = MembersWritten(t, RowsOf("members", c)) /\ Then(pc) = "rules" /\ t.pools = c.pools
        /\ t.nodes = c.nodes /\ t.groups = c.groups /\ UsersOf(t) = UsersOf(c)
        /\ \A u \in UsersOf(c) : t.users[u] = {}
    BY <1>12 DEF Done, Then, SoFar
  <2>2. /\ d \in Catalog /\ d.pools = t.pools /\ d.nodes = t.nodes /\ d.groups = t.groups
        /\ UsersOf(d) = UsersOf(t)
        /\ \A u \in UsersOf(d) :
             d.users[u] = t.users[u] \union {g \in Groups : <<u, g>> \in RowsOf("members", c)}
    BY <2>1, MembersWrittenFields
  <2>3. ASSUME NEW u \in UsersOf(c) PROVE d.users[u] = c.users[u]
    <3>1. c.users[u] \in SUBSET Groups /\ u \in Users
      BY Fields DEF UsersOf
    <3>2. {g \in Groups : <<u, g>> \in RowsOf("members", c)} = c.users[u]
      BY <3>1 DEF RowsOf
    <3>. QED BY <2>1, <2>2, <3>2
  <2>4. \A u \in Users : d.users[u] = c.users[u]
    BY <2>1, <2>2, <2>3 DEF UsersOf
  <2>5. d.users = c.users
    BY <2>2, <2>4, Fields
  <2>. QED BY <2>1, <2>2, <2>5 DEF SoFar
<1>13. CASE pc = "rules"
  <2>1. /\ d = RulesWritten(t, c.rules) /\ Then(pc) = "rulesGone" /\ t.pools = c.pools
        /\ t.nodes = c.nodes /\ t.groups = c.groups /\ t.users = c.users
    BY <1>13 DEF Done, RowsOf, Then, SoFar
  <2>2. d = [t EXCEPT !.rules = t.rules \union c.rules]
    BY <2>1, RulesFields
  <2>3. /\ d.pools = t.pools /\ d.nodes = t.nodes /\ d.groups = t.groups /\ d.users = t.users
        /\ c.rules \subseteq d.rules
    BY <2>2 DEF Catalog
  <2>. QED BY <2>1, <2>3 DEF SoFar
<1>14. CASE pc = "rulesGone"
  <2>1. /\ d = RulesDropped(t, c) /\ Then(pc) = "commit" /\ t.pools = c.pools
        /\ t.nodes = c.nodes /\ t.groups = c.groups /\ t.users = c.users /\ c.rules \subseteq t.rules
    BY <1>14 DEF Done, Then, SoFar
  <2>2. d = [t EXCEPT !.rules = c.rules]
    <3>1. t.rules \intersect c.rules = c.rules
      BY <2>1
    <3>2. d = [t EXCEPT !.rules = t.rules \intersect c.rules]
      BY <2>1 DEF RulesDropped
    <3>. QED BY <3>1, <3>2
  <2>3. d = c
    BY <2>1, <2>2 DEF Catalog
  <2>. QED BY <2>1, <2>3 DEF SoFar
<1>. QED BY <1>1, <1>2, <1>3, <1>4, <1>5, <1>6, <1>7, <1>8, <1>9, <1>10, <1>11, <1>12, <1>13, <1>14
     DEF Batches

LEMMA ThenTyped == \A pc \in Batches : Then(pc) \in InTx
BY DEF Batches, InTx, Then

-----------------------------------------------------------------------------
(* What the steps have in common                                            *)

CatalogSound == RawValid /\ (\A c \in Clients : ClientSound(c)) /\ ReloadSound /\ InForceIsStored

Stages == InTx \union {"apply", "file", "live"}

LEMMA RequestTyped ==
  ASSUME NEW r \in Request, NEW pc \in Stages
  PROVE  /\ [r EXCEPT !.pc = pc] \in Request /\ [r EXCEPT !.fresh = FALSE] \in Request
         /\ [r EXCEPT !.pc = pc].pc = pc /\ [r EXCEPT !.pc = pc].next = r.next
         /\ [r EXCEPT !.pc = pc].by = r.by /\ [r EXCEPT !.pc = pc].fresh = r.fresh
         /\ [r EXCEPT !.fresh = FALSE].pc = r.pc /\ [r EXCEPT !.fresh = FALSE].next = r.next
         /\ [r EXCEPT !.fresh = FALSE].by = r.by /\ [r EXCEPT !.fresh = FALSE].fresh = FALSE
         /\ r.pc # "idle" /\ r.next \in Catalog
BY DEF Request, Stages, InTx, Batches

LEMMA Busy ==
  ASSUME TypeOK, NEW c \in Clients, client[c].pc # "idle" PROVE client[c] \in Request
BY DEF TypeOK, Idle

(* A request moves on with what it asks for.                                *)
LEMMA Advances ==
  ASSUME TypeOK, NEW c \in Clients, client[c] \in Request,
         NEW pc \in Stages,
         client' = [client EXCEPT ![c].pc = pc]
  PROVE  \E r \in Request :
           /\ client' = [client EXCEPT ![c] = r] /\ client'[c] = r
           /\ r.pc = pc /\ r.next = client[c].next /\ r.next \in Catalog
           /\ r.by = client[c].by /\ r.fresh = client[c].fresh
<1> DEFINE r == [client[c] EXCEPT !.pc = pc]
<1>1. client' = [client EXCEPT ![c] = r] /\ client'[c] = r
  BY DEF TypeOK
<1>2. /\ r \in Request /\ r.pc = pc /\ r.next = client[c].next /\ r.next \in Catalog
      /\ r.by = client[c].by /\ r.fresh = client[c].fresh
  BY RequestTyped
<1>. HIDE DEF r
<1>. QED BY <1>1, <1>2

LEMMA FaultTyped ==
  ASSUME TypeOK, NEW kind, Fault(kind) PROVE faults' \in 0 .. MaxFaults
BY BoundsAssumption DEF Fault, TypeOK

LEMMA RacedTyped ==
  ASSUME TypeOK, reload' = Raced PROVE reload' \in Reload \union {Idle} /\ ReloadSound'
<1>1. CASE reload = Idle
  BY <1>1 DEF Raced, ReloadSound, Idle
<1>2. CASE reload # Idle
  <2>1. reload \in Reload
    BY <1>2 DEF TypeOK
  <2>2. [reload EXCEPT !.raced = TRUE] \in Reload /\ [reload EXCEPT !.raced = TRUE].raced = TRUE
    BY <2>1 DEF Reload
  <2>. QED BY <1>2, <2>2 DEF Raced, ReloadSound
<1>. QED BY <1>1, <1>2

LEMMA ReloadKept ==
  ASSUME ReloadSound, UNCHANGED <<reload, tx, stored, driver>> PROVE ReloadSound'
BY DEF ReloadSound, Unseeded, PoolsOf

(* Whoever does not hold catMu waits for it.                                *)
LEMMA Waits ==
  ASSUME NEW d \in Clients, ClientSound(d), catMu # d PROVE client[d].pc \in {"idle", "apply"}
BY DEF ClientSound

LEMMA WaiterKept ==
  ASSUME NEW d \in Clients, ClientSound(d), client[d].pc \in {"idle", "apply"},
         client'[d] = client[d], UNCHANGED raw
  PROVE  ClientSound(d)'
BY DEF ClientSound, RowsSound, InTx, Batches, Bare, NodesOf, PoolsOf

LEMMA Untouched ==
  ASSUME NEW d \in Clients, ClientSound(d), client'[d] = client[d], UNCHANGED <<raw, tx, catMu>>,
         astray' = TRUE \/ UNCHANGED <<stored, astray>>
  PROVE  ClientSound(d)'
<1>1. RowsSound(client[d]) => RowsSound(client[d])'
  BY DEF RowsSound
<1>. QED BY <1>1 DEF ClientSound, RowsSound, Bare, NodesOf, PoolsOf

(* What is to be shown of a request that moved on to r.                     *)
LEMMA SoundThen ==
  ASSUME NEW c \in Clients, ClientSound(c), client[c] \in Request, UNCHANGED raw,
         NEW r \in Request, client'[c] = r,
         r.next = client[c].next, r.by = client[c].by, r.fresh = client[c].fresh,
         r.pc # "apply" => catMu' = c /\ Valid(r.next),
         RowsSound(r)',
         r.pc \in InTx \union {"file"} /\ ~astray' => raw = stored',
         r.pc = "live" /\ ~astray' => stored' = r.next
  PROVE  ClientSound(c)'
<1>1. client[c].pc # "idle"
  BY DEF Request, InTx, Batches
<1>2. r.by = "delete" => Valid(r.next) \/ Bare(r.next)
  BY <1>1 DEF ClientSound
<1>3. r.by = "heartbeat" /\ r.fresh => \A n \in NodesOf(raw) : r.next.nodes[n] = raw.nodes[n]
  BY <1>1 DEF ClientSound
<1>4. r.by = "heartbeat" /\ r.fresh => \A n \in NodesOf(raw') : r.next.nodes[n] = raw'.nodes[n]
  BY <1>3
<1>. QED BY <1>2, <1>4 DEF ClientSound

(* A step of the holder of catMu, or of a request that takes it.            *)
LEMMA HolderMoves ==
  ASSUME TypeOK, CatalogSound, NEW c \in Clients, catMu \in {c, None}, ClientSound(c)', UNCHANGED raw,
         NEW r \in Request \union {Idle}, client' = [client EXCEPT ![c] = r]
  PROVE  client' \in [Clients -> Request \union {Idle}] /\ \A d \in Clients : ClientSound(d)'
<1>1. \A d \in Clients \ {c} : client'[d] = client[d] /\ catMu # d
  BY NamesAssumption DEF TypeOK
<1>. QED BY <1>1, Waits, WaiterKept DEF CatalogSound, TypeOK

-----------------------------------------------------------------------------
(* The steps                                                                *)

Kept == TypeOK' /\ CatalogSound'

LEMMA AsksKept ==
  ASSUME TypeOK, CatalogSound, NEW c \in Clients, NEW next \in Catalog,
         NEW by \in {"put", "delete", "heartbeat"}, Asks(c, next, by), Askable(next, by)
  PROVE  Kept
<1> DEFINE r == [pc |-> "apply", next |-> next, by |-> by, fresh |-> TRUE]
<1>1. /\ client' = [client EXCEPT ![c] = r] /\ r \in Request /\ edits' \in 0 .. MaxEdits
      /\ UNCHANGED <<driver, raw, stored, tx, catMu, reload, astray, faults, reloads>>
  BY AskedFor DEF CatalogSound
<1>2. r.pc = "apply" /\ r.next = next /\ r.by = by
  OBVIOUS
<1>. HIDE DEF r
<1>3. TypeOK'
  BY <1>1 DEF TypeOK
<1>4. client'[c] = r
  BY <1>1 DEF TypeOK
<1>5. ClientSound(c)'
  BY <1>1, <1>2, <1>4 DEF ClientSound, RowsSound, InTx, Batches, Askable, NodesOf, Bare, PoolsOf
<1>6. ASSUME NEW d \in Clients, d # c PROVE ClientSound(d)'
  BY <1>1, <1>6, Untouched DEF CatalogSound, TypeOK
<1>7. RawValid' /\ ReloadSound' /\ InForceIsStored'
  BY <1>1, ReloadKept DEF CatalogSound, RawValid, InForceIsStored
<1>. QED BY <1>3, <1>5, <1>6, <1>7 DEF Kept, CatalogSound

LEMMA EndsKept ==
  ASSUME TypeOK, CatalogSound, NEW c \in Clients, Refuse(c) \/ NoChange(c) PROVE Kept
<1>1. /\ client' = [client EXCEPT ![c] = Idle]
      /\ UNCHANGED <<driver, raw, stored, tx, catMu, reload, astray, edits, faults, reloads>>
  BY DEF Refuse, NoChange, Gone, StoreUnchanged, BoundsUnchanged
<1>2. TypeOK'
  BY <1>1 DEF TypeOK
<1>3. ASSUME NEW d \in Clients PROVE ClientSound(d)'
  <2>1. CASE d = c
    BY <1>1, <2>1 DEF ClientSound, TypeOK, Idle
  <2>2. CASE d # c
    BY <1>1, <2>2, Untouched DEF CatalogSound, TypeOK
  <2>. QED BY <2>1, <2>2
<1>4. RawValid' /\ ReloadSound' /\ InForceIsStored'
  BY <1>1, ReloadKept DEF CatalogSound, RawValid, InForceIsStored
<1>. QED BY <1>2, <1>3, <1>4 DEF Kept, CatalogSound

LEMMA BeginSaveKept ==
  ASSUME TypeOK, CatalogSound, NEW c \in Clients, BeginSave(c) PROVE Kept
<1>1. /\ client[c].pc = "apply" /\ catMu = None /\ Valid(client[c].next) /\ catMu' = c
      /\ UNCHANGED <<driver, raw, stored, astray, edits, faults, reloads>>
  BY DEF BeginSave, BoundsUnchanged
<1>2. client[c] \in Request /\ stored \in Catalog /\ c # None
  BY <1>1, Busy, NamesAssumption DEF TypeOK
<1>3. /\ ~astray => raw = stored
      /\ client[c].by = "delete" => Valid(client[c].next) \/ Bare(client[c].next)
      /\ client[c].by = "heartbeat" /\ client[c].fresh =>
             \A n \in NodesOf(raw) : client[c].next.nodes[n] = raw.nodes[n]
  BY <1>1 DEF CatalogSound, InForceIsStored, ClientSound
<1>4. PICK pc \in {"file", "pools"} :
        /\ client' = [client EXCEPT ![c].pc = pc]
        /\ pc = "pools" => tx' = stored
        /\ (UNCHANGED <<tx, reload>>) \/ (tx' = stored /\ reload' = Raced)
  <2>1. CASE driver = "file"
    BY <1>2, <2>1 DEF BeginSave, TypeOK
  <2>2. CASE driver # "file"
    BY <1>2, <2>2 DEF BeginSave, TypeOK
  <2>. QED BY <2>1, <2>2
<1>5. PICK r \in Request :
        /\ client' = [client EXCEPT ![c] = r] /\ client'[c] = r
        /\ r.pc = pc /\ r.next = client[c].next /\ r.next \in Catalog
        /\ r.by = client[c].by /\ r.fresh = client[c].fresh
  <2>1. pc \in Stages
    BY DEF Stages, InTx, Batches
  <2>. QED BY <1>2, <1>4, <2>1, Advances
<1>7. ClientSound(c)'
  <2>1. RowsSound(r)'
    <3>1. pc = "pools" => tx' \notin {None, Aborted}
      BY <1>2, <1>4, NamesAssumption
    <3>2. SoFar("pools", tx', r.next)
      BY DEF SoFar
    <3>. QED BY <1>5, <3>1, <3>2 DEF RowsSound, InTx, Batches
  <2>. QED BY <1>1, <1>2, <1>3, <1>4, <1>5, <2>1, SoundThen DEF CatalogSound, InTx, Batches
<1>8. client' \in [Clients -> Request \union {Idle}] /\ \A d \in Clients : ClientSound(d)'
  BY <1>1, <1>5, <1>7, HolderMoves
<1>9. tx' \in Catalog \union {None, Aborted} /\ reload' \in Reload \union {Idle} /\ ReloadSound'
  BY <1>1, <1>2, <1>4, RacedTyped, ReloadKept DEF TypeOK, CatalogSound
<1>10. TypeOK'
  BY <1>1, <1>8, <1>9 DEF TypeOK
<1>11. RawValid' /\ InForceIsStored'
  BY <1>1, <1>2 DEF CatalogSound, RawValid, InForceIsStored
<1>. QED BY <1>8, <1>9, <1>10, <1>11 DEF Kept, CatalogSound

LEMMA SaveFileKept ==
  ASSUME TypeOK, CatalogSound, NEW c \in Clients, SaveFile(c) PROVE Kept
<1>1. /\ client[c].pc = "file" /\ stored' = client[c].next /\ reload' = Raced /\ astray' = FALSE
      /\ UNCHANGED <<driver, raw, tx, catMu, edits, faults, reloads>>
  BY DEF SaveFile, BoundsUnchanged
<1>2. client[c] \in Request /\ catMu = c /\ c # None /\ Valid(client[c].next)
  BY <1>1, Busy, NamesAssumption DEF CatalogSound, ClientSound
<1>3. PICK r \in Request :
        /\ client' = [client EXCEPT ![c] = r] /\ client'[c] = r
        /\ r.pc = "live" /\ r.next = client[c].next /\ r.next \in Catalog
        /\ r.by = client[c].by /\ r.fresh = client[c].fresh
  <2>1. "live" \in Stages
    BY DEF Stages
  <2>. QED BY <1>2, <2>1, Advances DEF SaveFile
<1>6. ClientSound(c)'
  <2>1. ClientSound(c)
    BY DEF CatalogSound
  <2>. QED BY <1>1, <1>2, <1>3, <2>1, SoundThen DEF RowsSound, InTx, Batches
<1>7. client' \in [Clients -> Request \union {Idle}] /\ \A d \in Clients : ClientSound(d)'
  BY <1>1, <1>2, <1>3, <1>6, HolderMoves
<1>8. reload' \in Reload \union {Idle} /\ ReloadSound'
  BY <1>1, RacedTyped
<1>9. TypeOK'
  BY <1>1, <1>3, <1>7, <1>8 DEF TypeOK
<1>10. RawValid' /\ InForceIsStored'
  BY <1>1, <1>2 DEF CatalogSound, RawValid, InForceIsStored
<1>. QED BY <1>7, <1>8, <1>9, <1>10 DEF Kept, CatalogSound

LEMMA SaveBatchKept ==
  ASSUME TypeOK, CatalogSound, NEW c \in Clients, SaveBatch(c) PROVE Kept
<1> DEFINE pc == client[c].pc
           next == client[c].next
           rows == RowsOf(pc, next)
<1>1. /\ pc \in Batches /\ tx # Aborted /\ reload' = Raced
      /\ client' = [client EXCEPT ![c].pc = Then(pc)]
      /\ tx = None => stored' = Done(pc, stored, next, rows) /\ tx' = None
      /\ tx # None => tx' = Done(pc, tx, next, rows) /\ stored' = stored
      /\ UNCHANGED <<driver, raw, catMu, astray, edits, faults, reloads>>
  BY DEF SaveBatch, BoundsUnchanged
<1>2. client[c] \in Request /\ catMu = c /\ c # None /\ Valid(next) /\ ClientSound(c)
      /\ RowsSound(client[c]) /\ next \in Catalog
  <2>1. pc \notin {"idle", "apply"}
    BY <1>1 DEF Batches
  <2>2. client[c] \in Request /\ c # None /\ ClientSound(c)
    BY <2>1, Busy, NamesAssumption DEF CatalogSound
  <2>3. next \in Catalog
    BY <2>2 DEF Request
  <2>. QED BY <2>1, <2>2, <2>3 DEF ClientSound
<1>3. pc \in InTx /\ Then(pc) \in InTx /\ Then(pc) \in Stages
  BY <1>1, ThenTyped DEF Stages, InTx
<1>4. PICK r \in Request :
        /\ client' = [client EXCEPT ![c] = r] /\ client'[c] = r
        /\ r.pc = Then(pc) /\ r.next = next /\ r.next \in Catalog
        /\ r.by = client[c].by /\ r.fresh = client[c].fresh
  BY <1>1, <1>2, <1>3, Advances
<1>. HIDE DEF pc, next, rows
<1>5. /\ tx' \in Catalog \union {None, Aborted} /\ stored' \in Catalog
      /\ (tx = None /\ tx' = None) \/ (tx \in Catalog /\ tx' \in Catalog)
  <2>1. tx = None \/ tx \in Catalog
    BY <1>1 DEF TypeOK
  <2>2. stored \in Catalog
    BY DEF TypeOK
  <2>. QED BY <1>1, <1>2, <2>1, <2>2, NamesAssumption, BatchTyped DEF rows
<1>6. RowsSound(r)' /\ (~astray' => raw = stored')
  <2>1. CASE tx = None
    <3>1. astray
      BY <1>2, <1>3, <2>1 DEF RowsSound, pc
    <3>. QED BY <1>1, <2>1, <3>1 DEF RowsSound
  <2>2. CASE tx \in Catalog
    <3>1. tx \notin {None, Aborted}
      BY <2>2, NamesAssumption
    <3>2. SoFar(pc, tx, next)
      BY <1>2, <1>3, <3>1 DEF RowsSound, pc, next
    <3>3. ~astray => raw = stored
      BY <1>2, <1>3 DEF ClientSound, InTx, Batches, pc
    <3>4. SoFar(Then(pc), tx', next)
      BY <1>1, <1>2, <2>2, <3>1, <3>2, BatchAdds DEF rows
    <3>5. tx' # None
      BY <1>5, <3>1, NamesAssumption
    <3>. QED BY <1>1, <1>4, <3>1, <3>3, <3>4, <3>5 DEF RowsSound
  <2>. QED BY <1>5, <2>1, <2>2
<1>7. ClientSound(c)'
  <2>1. r.pc # "live"
    BY <1>3, <1>4 DEF InTx, Batches
  <2>. QED BY <1>1, <1>2, <1>4, <1>6, <2>1, SoundThen DEF next
<1>8. client' \in [Clients -> Request \union {Idle}] /\ \A d \in Clients : ClientSound(d)'
  BY <1>1, <1>2, <1>4, <1>7, HolderMoves
<1>9. reload' \in Reload \union {Idle} /\ ReloadSound'
  BY <1>1, RacedTyped
<1>10. TypeOK'
  BY <1>1, <1>5, <1>8, <1>9 DEF TypeOK
<1>11. RawValid' /\ InForceIsStored'
  BY <1>1, <1>2 DEF CatalogSound, RawValid, InForceIsStored
<1>. QED BY <1>8, <1>9, <1>10, <1>11 DEF Kept, CatalogSound

LEMMA CommitKept ==
  ASSUME TypeOK, CatalogSound, NEW c \in Clients, Commit(c) PROVE Kept
<1>1. /\ client[c].pc = "commit" /\ tx' = None /\ reload' = Raced
      /\ stored' = IF tx \in {None, Aborted} THEN stored ELSE tx
      /\ UNCHANGED <<driver, raw, edits, reloads>>
  BY DEF Commit
<1>2. client[c] \in Request /\ c # None /\ ClientSound(c)
  BY <1>1, Busy, NamesAssumption DEF CatalogSound
<1>3. catMu = c /\ Valid(client[c].next) /\ RowsSound(client[c])
  BY <1>1, <1>2 DEF ClientSound
<1>4. stored' \in Catalog /\ (tx \notin {None, Aborted} => stored' = client[c].next)
  <2>1. tx \notin {None, Aborted} => tx = client[c].next
    BY <1>1, <1>3 DEF RowsSound, SoFar, InTx
  <2>. QED BY <1>1, <2>1 DEF TypeOK
<1>5. /\ client' \in [Clients -> Request \union {Idle}] /\ \A d \in Clients : ClientSound(d)'
      /\ catMu' \in Clients \union {None} /\ astray' \in BOOLEAN /\ faults' \in 0 .. MaxFaults
      /\ astray' \/ catMu' = c
  <2>1. CASE /\ client' = [client EXCEPT ![c].pc = "live"] /\ astray' = (tx \in {None, Aborted})
             /\ UNCHANGED <<catMu, faults>>
    <3>1. "live" \in Stages
      BY DEF Stages
    <3>2. PICK r \in Request :
            /\ client' = [client EXCEPT ![c] = r] /\ client'[c] = r
            /\ r.pc = "live" /\ r.next = client[c].next /\ r.next \in Catalog
            /\ r.by = client[c].by /\ r.fresh = client[c].fresh
      BY <1>2, <2>1, <3>1, Advances
    <3>3. RowsSound(r)' /\ r.pc \notin InTx \union {"file"}
      BY <3>2 DEF RowsSound, InTx, Batches
    <3>4. r.pc = "live" /\ ~astray' => stored' = r.next
      BY <1>4, <2>1, <3>2
    <3>5. ClientSound(c)'
      BY <1>1, <1>2, <1>3, <2>1, <3>2, <3>3, <3>4, SoundThen
    <3>6. client' \in [Clients -> Request \union {Idle}] /\ \A d \in Clients : ClientSound(d)'
      BY <1>1, <1>3, <3>2, <3>5, HolderMoves
    <3>. QED BY <1>3, <2>1, <3>6 DEF TypeOK
  <2>2. CASE Fault("commit") /\ client' = Gone(c) /\ catMu' = None /\ astray' = TRUE
    <3>1. client' = [client EXCEPT ![c] = Idle] /\ client'[c] = Idle
      BY <2>2 DEF Gone, TypeOK
    <3>2. ClientSound(c)'
      BY <3>1 DEF ClientSound, Idle
    <3>3. client' \in [Clients -> Request \union {Idle}] /\ \A d \in Clients : ClientSound(d)'
      BY <1>1, <1>3, <3>1, <3>2, HolderMoves
    <3>. QED BY <2>2, <3>3, FaultTyped
  <2>. QED BY <2>1, <2>2 DEF Commit
<1>6. reload' \in Reload \union {Idle} /\ ReloadSound'
  BY <1>1, RacedTyped
<1>7. TypeOK'
  BY <1>1, <1>4, <1>5, <1>6 DEF TypeOK
<1>8. RawValid' /\ InForceIsStored'
  BY <1>1, <1>2, <1>5 DEF CatalogSound, RawValid, InForceIsStored
<1>. QED BY <1>5, <1>6, <1>7, <1>8 DEF Kept, CatalogSound

LEMMA SaveFailsKept ==
  ASSUME TypeOK, CatalogSound, NEW c \in Clients, SaveFails(c) PROVE Kept
<1>1. /\ client[c].pc \in InTx \union {"file"} /\ tx' = None /\ reload' = Raced
      /\ stored' \in LeftBy(client[c]) /\ faults' \in 0 .. MaxFaults
      /\ client' = [client EXCEPT ![c] = Idle] /\ catMu' = None
      /\ UNCHANGED <<driver, raw, astray, edits, reloads>>
  BY FaultTyped DEF SaveFails, Gone, TypeOK
<1>2. client'[c] = Idle /\ client[c].pc \notin {"idle", "apply"} /\ ClientSound(c)
  BY <1>1 DEF TypeOK, InTx, Batches, CatalogSound
<1>3. catMu = c /\ (~astray => raw = stored) /\ RowsSound(client[c])
  BY <1>1, <1>2 DEF ClientSound
<1>4. stored' \in Catalog /\ (~astray => stored' = stored)
  <2>0. stored \in Catalog /\ client[c].next \in Catalog
    BY <1>2, Busy DEF TypeOK, Request
  <2>1. CASE client[c].pc \in Batches /\ tx = None
    <3>1. astray
      BY <1>3, <2>1 DEF RowsSound, InTx
    <3>2. CASE stored' = stored
      BY <2>0, <3>2
    <3>3. CASE stored' # stored
      <4>1. PICK S \in SUBSET {row \in RowsOf(client[c].pc, client[c].next) :
                                 Fits(client[c].pc, stored, client[c].next, row)} :
              stored' = Done(client[c].pc, stored, client[c].next, S)
        BY <1>1, <2>1, <3>3 DEF LeftBy
      <4>2. S \in SUBSET RowsOf(client[c].pc, client[c].next)
        OBVIOUS
      <4>. QED BY <2>0, <2>1, <3>1, <4>1, <4>2, BatchTyped
    <3>. QED BY <3>1, <3>2, <3>3
  <2>2. CASE ~(client[c].pc \in Batches /\ tx = None)
    BY <1>1, <2>0, <2>2 DEF LeftBy
  <2>. QED BY <2>1, <2>2
<1>5. ClientSound(c)'
  BY <1>2 DEF ClientSound, Idle
<1>6. client' \in [Clients -> Request \union {Idle}] /\ \A d \in Clients : ClientSound(d)'
  BY <1>1, <1>3, <1>5, HolderMoves
<1>7. reload' \in Reload \union {Idle} /\ ReloadSound'
  BY <1>1, RacedTyped
<1>8. TypeOK'
  BY <1>1, <1>4, <1>6, <1>7 DEF TypeOK
<1>9. RawValid' /\ InForceIsStored'
  BY <1>1, <1>3, <1>4 DEF CatalogSound, RawValid, InForceIsStored
<1>. QED BY <1>6, <1>7, <1>8, <1>9 DEF Kept, CatalogSound

LEMMA StoreReconnectsKept ==
  ASSUME TypeOK, CatalogSound, NEW c \in Clients, StoreReconnects(c) PROVE Kept
<1>1. /\ client[c].pc \in InTx /\ tx' = None /\ astray' = TRUE /\ reload' = Raced
      /\ faults' \in 0 .. MaxFaults
      /\ UNCHANGED <<driver, raw, catMu, edits, reloads>>
  BY FaultTyped DEF StoreReconnects
<1>2. client[c] \in Request /\ catMu = c /\ Valid(client[c].next) /\ ClientSound(c)
      /\ client[c].next \in Catalog
  <2>1. client[c].pc \notin {"idle", "apply"}
    BY <1>1 DEF InTx, Batches
  <2>2. client[c] \in Request /\ ClientSound(c)
    BY <2>1, Busy DEF CatalogSound
  <2>. QED BY <2>1, <2>2 DEF ClientSound, Request
<1>3. /\ stored' \in Catalog
      /\ \E r \in Request :
           /\ client' = [client EXCEPT ![c] = r] /\ client'[c] = r
           /\ r.pc \in InTx /\ r.next = client[c].next
           /\ r.by = client[c].by /\ r.fresh = client[c].fresh
  <2>1. CASE UNCHANGED <<client, stored>>
    <3>1. client' = [client EXCEPT ![c] = client[c]] /\ client'[c] = client[c] /\ stored' \in Catalog
      BY <2>1 DEF TypeOK
    <3>. QED BY <1>1, <1>2, <3>1
  <2>2. CASE ~UNCHANGED <<client, stored>>
    <3>1. PICK rest \in SUBSET RowsOf(client[c].pc, client[c].next) :
            /\ client[c].pc \in Batches
            /\ stored' = Done(client[c].pc, stored, client[c].next, rest)
            /\ client' = [client EXCEPT ![c].pc = Then(client[c].pc)]
      BY <2>2 DEF StoreReconnects
    <3>2. stored' \in Catalog
      BY <1>2, <3>1, BatchTyped DEF TypeOK
    <3>3. Then(client[c].pc) \in InTx /\ Then(client[c].pc) \in Stages
      BY <3>1, ThenTyped DEF Stages
    <3>4. PICK then \in Stages : client' = [client EXCEPT ![c].pc = then] /\ then \in InTx
      BY <3>1, <3>3
    <3>5. PICK r \in Request :
            /\ client' = [client EXCEPT ![c] = r] /\ client'[c] = r
            /\ r.pc = then /\ r.next = client[c].next /\ r.next \in Catalog
            /\ r.by = client[c].by /\ r.fresh = client[c].fresh
      <4>1. client' = [client EXCEPT ![c].pc = then]
        BY <3>4
      <4>2. client[c] \in Request
        BY <1>2
      <4>. QED BY <4>1, <4>2, Advances
    <3>. QED BY <3>2, <3>4, <3>5
  <2>. QED BY <2>1, <2>2
<1>4. PICK r \in Request :
        /\ client' = [client EXCEPT ![c] = r] /\ client'[c] = r
        /\ r.pc \in InTx /\ r.next = client[c].next
        /\ r.by = client[c].by /\ r.fresh = client[c].fresh
  BY <1>3
<1>5. ClientSound(c)'
  <2>1. RowsSound(r)'
    BY <1>1 DEF RowsSound
  <2>. QED BY <1>1, <1>2, <1>4, <2>1, SoundThen
<1>6. client' \in [Clients -> Request \union {Idle}] /\ \A d \in Clients : ClientSound(d)'
  BY <1>1, <1>2, <1>4, <1>5, HolderMoves
<1>7. reload' \in Reload \union {Idle} /\ ReloadSound'
  BY <1>1, RacedTyped
<1>8. TypeOK'
  BY <1>1, <1>3, <1>6, <1>7 DEF TypeOK
<1>9. RawValid' /\ InForceIsStored'
  BY <1>1 DEF CatalogSound, RawValid, InForceIsStored
<1>. QED BY <1>6, <1>7, <1>8, <1>9 DEF Kept, CatalogSound

LEMMA StoreRefusedKept ==
  ASSUME TypeOK, CatalogSound, StoreRefused PROVE Kept
<1>1. /\ tx \notin {None, Aborted} /\ tx' = Aborted /\ faults' \in 0 .. MaxFaults
      /\ UNCHANGED <<driver, raw, stored, catMu, client, reload, astray, edits, reloads>>
  BY FaultTyped DEF StoreRefused
<1>2. TypeOK'
  BY <1>1 DEF TypeOK
<1>3. ASSUME NEW d \in Clients PROVE ClientSound(d)'
  <2>1. ClientSound(d)
    BY DEF CatalogSound
  <2>2. RowsSound(client[d])'
    BY <1>1, NamesAssumption DEF RowsSound
  <2>. QED BY <1>1, <2>1, <2>2 DEF ClientSound, RowsSound, Bare, NodesOf, PoolsOf
<1>4. ReloadSound'
  <2>1. reload.pc # "idle" => reload.raced = TRUE
    <3>1. reload.pc # "idle" => reload \in Reload
      BY DEF TypeOK, Idle
    <3>. QED BY <1>1, <3>1 DEF CatalogSound, ReloadSound, Reload
  <2>. QED BY <1>1, <2>1 DEF ReloadSound
<1>5. RawValid' /\ InForceIsStored'
  BY <1>1 DEF CatalogSound, RawValid, InForceIsStored
<1>. QED BY <1>2, <1>3, <1>4, <1>5 DEF Kept, CatalogSound

(* Nobody holds catMu once a catalog is put in force, and the copies the    *)
(* others made are not the catalog in force any more.                       *)
LEMMA OthersBehind ==
  ASSUME TypeOK, CatalogSound, NEW c, catMu \in {c, None}, client' = Behind(c)
  PROVE  client' \in [Clients -> Request \union {Idle}] /\ \A d \in Clients : ClientSound(d)'
<1>. SUFFICES ASSUME NEW d \in Clients
              PROVE  client'[d] \in Request \union {Idle} /\ ClientSound(d)'
  BY DEF Behind
<1>1. CASE d = c \/ client[d] = Idle
  <2>1. client'[d] = Idle
    BY <1>1 DEF Behind
  <2>. QED BY <2>1 DEF ClientSound, Idle
<1>2. CASE d # c /\ client[d] # Idle
  <2>1. client'[d] = [client[d] EXCEPT !.fresh = FALSE]
    BY <1>2 DEF Behind
  <2>2. client[d] \in Request /\ catMu # d /\ ClientSound(d)
    BY <1>2, NamesAssumption DEF TypeOK, CatalogSound
  <2>3. client[d].pc = "apply"
    BY <2>2, Waits DEF Request, InTx, Batches
  <2>4. "apply" \in Stages
    BY DEF Stages
  <2>5. PICK r \in Request : /\ client'[d] = r /\ r.pc = "apply" /\ r.next = client[d].next
                             /\ r.by = client[d].by /\ r.fresh = FALSE
    <3> DEFINE r == [client[d] EXCEPT !.fresh = FALSE]
    <3>1. /\ r \in Request /\ r.pc = client[d].pc /\ r.next = client[d].next
          /\ r.by = client[d].by /\ r.fresh = FALSE
      BY <2>2, <2>4, RequestTyped
    <3>2. client'[d] = r
      BY <2>1
    <3>. HIDE DEF r
    <3>. QED BY <2>3, <3>1, <3>2
  <2>6. r.by = "delete" => Valid(r.next) \/ Bare(r.next)
    BY <2>2, <2>3, <2>5 DEF ClientSound
  <2>. QED BY <2>5, <2>6 DEF ClientSound, RowsSound, InTx, Batches
<1>. QED BY <1>1, <1>2

LEMMA MakeLiveKept ==
  ASSUME TypeOK, CatalogSound, NEW c \in Clients, MakeLive(c) PROVE Kept
<1>1. /\ client[c].pc = "live" /\ raw' = client[c].next /\ client' = Behind(c) /\ catMu' = None
      /\ UNCHANGED <<driver, stored, tx, reload, astray, edits, faults, reloads>>
  BY DEF MakeLive, StoreUnchanged, BoundsUnchanged
<1>2. client[c] \in Request /\ ClientSound(c)
  BY <1>1, Busy DEF CatalogSound
<1>3. /\ catMu = c /\ Valid(client[c].next) /\ client[c].next \in Catalog
      /\ ~astray => stored = client[c].next
  BY <1>1, <1>2 DEF ClientSound, Request
<1>4. client' \in [Clients -> Request \union {Idle}] /\ \A d \in Clients : ClientSound(d)'
  BY <1>1, <1>3, OthersBehind
<1>5. TypeOK'
  BY <1>1, <1>3, <1>4 DEF TypeOK
<1>6. RawValid' /\ ReloadSound' /\ InForceIsStored'
  BY <1>1, <1>3, ReloadKept DEF CatalogSound, RawValid, InForceIsStored
<1>. QED BY <1>4, <1>5, <1>6 DEF Kept, CatalogSound

LEMMA LoadBeginsKept ==
  ASSUME TypeOK, CatalogSound, LoadBegins PROVE Kept
<1>1. /\ reload' = [pc |-> IF driver = "file" THEN "file" ELSE "pools", got |-> Empty,
                    raced |-> tx # None]
      /\ UNCHANGED <<driver, raw, stored, tx, catMu, client, astray, edits, faults>>
      /\ reloads' \in 0 .. MaxReloads
  BY BoundsAssumption DEF LoadBegins, StoreUnchanged, TypeOK
<1>2. reload' \in Reload
  BY <1>1, EmptyValid DEF Reload
<1>3. ReloadSound'
  BY <1>1 DEF ReloadSound
<1>4. TypeOK'
  BY <1>1, <1>2 DEF TypeOK
<1>5. ASSUME NEW d \in Clients PROVE ClientSound(d)'
  BY <1>1, Untouched DEF CatalogSound
<1>. QED BY <1>1, <1>3, <1>4, <1>5 DEF Kept, CatalogSound, RawValid, InForceIsStored

(* What a reload goes on with: its next section, and what it has by then.   *)
LEMMA SectionLoaded ==
  ASSUME TypeOK, CatalogSound, NEW pc, NEW got \in Catalog,
         NEW then \in {"nodes", "people", "rules", "set"},
         pc # "idle", LoadsSection(pc, got, then),
         ~reload.raced =>
           /\ then \in {"nodes", "people", "rules"} => got.pools = stored.pools
           /\ then \in {"people", "rules"} => got.nodes = stored.nodes
           /\ then = "rules" => got.groups = stored.groups /\ got.users = stored.users
           /\ then = "set" => got = stored \/ Unseeded(stored)
  PROVE  Kept
<1>1. /\ reload.pc = pc /\ reload' = [reload EXCEPT !.pc = then, !.got = got]
      /\ UNCHANGED <<driver, raw, stored, tx, catMu, client, astray, edits, faults, reloads>>
  BY DEF LoadsSection, StoreUnchanged, BoundsUnchanged
<1>2. reload \in Reload
  BY <1>1 DEF TypeOK, Idle
<1>3. reload' \in Reload /\ reload'.pc = then /\ reload'.got = got /\ reload'.raced = reload.raced
  BY <1>1, <1>2 DEF Reload
<1>4. ReloadSound'
  <2>1. ~reload.raced => tx = None
    BY <1>1, <1>2 DEF CatalogSound, ReloadSound
  <2>2. Unseeded(stored) => Unseeded(stored)'
    BY <1>1 DEF Unseeded, PoolsOf
  <2>. QED BY <1>1, <1>3, <2>1, <2>2 DEF ReloadSound
<1>5. TypeOK'
  BY <1>1, <1>3 DEF TypeOK
<1>6. ASSUME NEW d \in Clients PROVE ClientSound(d)'
  BY <1>1, Untouched DEF CatalogSound
<1>. QED BY <1>1, <1>4, <1>5, <1>6 DEF Kept, CatalogSound, RawValid, InForceIsStored

LEMMA LoadSectionKept ==
  ASSUME TypeOK, CatalogSound, LoadSection PROVE Kept
<1> DEFINE got == reload.got
<1>1. reload \in Reload /\ got \in Catalog
  <2>1. reload # Idle
    BY DEF LoadSection, LoadsSection, Idle
  <2>. QED BY <2>1 DEF TypeOK, Reload
<1>2. Rows \in Catalog /\ stored \in Catalog
  BY DEF LoadSection, TypeOK, Rows
<1>3. ASSUME ~reload.raced PROVE Rows = stored
  <2>1. reload.pc # "idle"
    BY <1>1 DEF Reload
  <2>. QED BY <1>3, <2>1 DEF CatalogSound, ReloadSound, Rows
<1>4. CASE LoadsSection("file", stored, "set")
  BY <1>2, <1>4, SectionLoaded
<1>5. CASE LoadsSection("pools", [got EXCEPT !.pools = Rows.pools],
                        IF Unseeded(Rows) THEN "set" ELSE "nodes")
  <2>1. [got EXCEPT !.pools = Rows.pools] \in Catalog
    BY <1>1, <1>2, Fields, Replaced
  <2>2. [got EXCEPT !.pools = Rows.pools].pools = Rows.pools
    BY <1>1 DEF Catalog
  <2>. DEFINE then == IF Unseeded(Rows) THEN "set" ELSE "nodes"
  <2>3. then \in {"nodes", "people", "rules", "set"}
    OBVIOUS
  <2>4. ~reload.raced => (then = "set" => Unseeded(stored)) /\ then \notin {"people", "rules"}
    BY <1>3
  <2>5. LoadsSection("pools", [got EXCEPT !.pools = Rows.pools], then)
    BY <1>5
  <2>. HIDE DEF then
  <2>. QED BY <1>3, <2>1, <2>2, <2>3, <2>4, <2>5, SectionLoaded
<1>6. CASE LoadsSection("nodes", [got EXCEPT !.nodes = Rows.nodes], "people")
  <2>1. [got EXCEPT !.nodes = Rows.nodes] \in Catalog
    BY <1>1, <1>2, Fields, Replaced
  <2>2. [got EXCEPT !.nodes = Rows.nodes].nodes = Rows.nodes
        /\ [got EXCEPT !.nodes = Rows.nodes].pools = got.pools
    BY <1>1 DEF Catalog
  <2>3. ~reload.raced => got.pools = stored.pools
    BY <1>6 DEF LoadsSection, CatalogSound, ReloadSound
  <2>. QED BY <1>3, <1>6, <2>1, <2>2, <2>3, SectionLoaded
<1>7. CASE LoadsSection("people", [got EXCEPT !.groups = Rows.groups, !.users = Rows.users], "rules")
  <2> DEFINE read == [got EXCEPT !.groups = Rows.groups, !.users = Rows.users]
  <2>1. /\ read \in Catalog
        /\ read.groups = Rows.groups /\ read.users = Rows.users
        /\ read.pools = got.pools /\ read.nodes = got.nodes
    BY <1>1, <1>2 DEF Catalog
  <2>2. ~reload.raced => got.pools = stored.pools /\ got.nodes = stored.nodes
    BY <1>7 DEF LoadsSection, CatalogSound, ReloadSound
  <2>3. LoadsSection("people", read, "rules")
    BY <1>7
  <2>. HIDE DEF read
  <2>. QED BY <1>3, <2>1, <2>2, <2>3, SectionLoaded
<1>8. CASE LoadsSection("rules", [got EXCEPT !.rules = Rows.rules], "set")
  <2> DEFINE read == [got EXCEPT !.rules = Rows.rules]
  <2>1. /\ read \in Catalog /\ read.rules = Rows.rules
        /\ read.pools = got.pools /\ read.nodes = got.nodes
        /\ read.groups = got.groups /\ read.users = got.users
    BY <1>1, <1>2 DEF Catalog
  <2>2. ~reload.raced => /\ got.pools = stored.pools /\ got.nodes = stored.nodes
                         /\ got.groups = stored.groups /\ got.users = stored.users
    BY <1>8 DEF LoadsSection, CatalogSound, ReloadSound
  <2>3. LoadsSection("rules", read, "set")
    BY <1>8
  <2>. HIDE DEF read
  <2>4. ~reload.raced => read = stored
    BY <1>2, <1>3, <2>1, <2>2 DEF Catalog
  <2>. QED BY <2>1, <2>3, <2>4, SectionLoaded
<1>. QED BY <1>4, <1>5, <1>6, <1>7, <1>8 DEF LoadSection

LEMMA LoadFailsKept ==
  ASSUME TypeOK, CatalogSound, LoadFails PROVE Kept
<1>1. /\ reload' = Idle
      /\ UNCHANGED <<driver, raw, stored, tx, catMu, client, astray, edits, faults, reloads>>
  BY DEF LoadFails, StoreUnchanged, BoundsUnchanged
<1>2. TypeOK' /\ ReloadSound'
  BY <1>1 DEF TypeOK, ReloadSound, Idle
<1>3. ASSUME NEW d \in Clients PROVE ClientSound(d)'
  BY <1>1, Untouched DEF CatalogSound
<1>. QED BY <1>1, <1>2, <1>3 DEF Kept, CatalogSound, RawValid, InForceIsStored

LEMMA LoadSetKept ==
  ASSUME TypeOK, CatalogSound, LoadSet PROVE Kept
<1>1. /\ reload.pc = "set" /\ catMu = None /\ reload' = Idle
      /\ UNCHANGED <<driver, stored, tx, catMu, edits, faults, reloads>>
  BY DEF LoadSet, StoreUnchanged, BoundsUnchanged
<1>2. reload \in Reload
  BY <1>1 DEF TypeOK, Idle
<1>3. /\ raw' \in Catalog /\ RawValid' /\ astray' \in BOOLEAN /\ InForceIsStored'
      /\ client' \in [Clients -> Request \union {Idle}] /\ \A d \in Clients : ClientSound(d)'
  <2>1. CASE Accepted(reload.got)
    <3>1. /\ raw' = reload.got /\ client' = Behind(None)
          /\ astray' = (reload.raced \/ Unseeded(stored))
      BY <2>1 DEF LoadSet
    <3>2. client' \in [Clients -> Request \union {Idle}] /\ \A d \in Clients : ClientSound(d)'
      BY <1>1, <3>1, OthersBehind
    <3>3. ~astray' => raw' = stored
      BY <1>1, <3>1 DEF CatalogSound, ReloadSound
    <3>. QED BY <1>1, <1>2, <2>1, <3>1, <3>2, <3>3 DEF Reload, Accepted, RawValid, InForceIsStored
  <2>2. CASE ~Accepted(reload.got)
    <3>1. UNCHANGED <<raw, client, astray>>
      BY <2>2 DEF LoadSet
    <3>2. ASSUME NEW d \in Clients PROVE ClientSound(d)'
      BY <1>1, <3>1, Untouched DEF CatalogSound
    <3>. QED BY <1>1, <3>1, <3>2 DEF CatalogSound, TypeOK, RawValid, InForceIsStored
  <2>. QED BY <2>1, <2>2
<1>4. TypeOK' /\ ReloadSound'
  BY <1>1, <1>3 DEF TypeOK, ReloadSound, Idle
<1>. QED BY <1>3, <1>4 DEF Kept, CatalogSound

LEMMA RestartKept ==
  ASSUME TypeOK, CatalogSound, Restart PROVE Kept
<1>1. /\ raw' = Loaded /\ tx' = None /\ catMu' = None /\ reload' = Idle
      /\ client' = [c \in Clients |-> Idle]
      /\ astray' = (~Valid(stored) \/ Unseeded(stored))
      /\ UNCHANGED <<driver, stored, edits, reloads>> /\ faults' \in 0 .. MaxFaults
  BY FaultTyped DEF Restart
<1>2. Loaded \in Catalog /\ Valid(Loaded) /\ (~astray' => Loaded = stored)
  BY <1>1, EmptyValid DEF Loaded, Accepted, TypeOK
<1>3. TypeOK'
  BY <1>1, <1>2 DEF TypeOK
<1>4. ASSUME NEW d \in Clients PROVE ClientSound(d)'
  BY <1>1 DEF ClientSound, Idle
<1>5. RawValid' /\ ReloadSound' /\ InForceIsStored'
  BY <1>1, <1>2 DEF RawValid, ReloadSound, InForceIsStored, Idle
<1>. QED BY <1>3, <1>4, <1>5 DEF Kept, CatalogSound

LEMMA EditedBySqlKept ==
  ASSUME TypeOK, CatalogSound, EditedBySql PROVE Kept
<1>1. /\ reload' = Raced /\ astray' = TRUE /\ faults' \in 0 .. MaxFaults
      /\ UNCHANGED <<driver, raw, tx, catMu, client, edits, reloads>>
  BY FaultTyped DEF EditedBySql
<1>2. stored' \in Catalog
  <2>1. stored \in Catalog
    BY DEF TypeOK
  <2>2. CASE \E p \in PoolsOf(stored) : stored' = RemovePool(stored, p)
    BY <2>1, <2>2, RemovePoolFields DEF PoolsOf
  <2>3. CASE \E n \in NodesOf(stored), p \in PoolsOf(stored) : stored' = SetNode(stored, n, p)
    <3>1. PICK n \in NodesOf(stored), p \in PoolsOf(stored) : stored' = SetNode(stored, n, p)
      BY <2>3
    <3>2. n \in Nodes /\ p \in Pools \union {None, Absent}
      BY DEF PoolsOf, NodesOf
    <3>. QED BY <2>1, <3>1, <3>2, SetNodeFields
  <2>. QED BY <2>2, <2>3 DEF EditedBySql
<1>3. reload' \in Reload \union {Idle} /\ ReloadSound'
  BY <1>1, RacedTyped
<1>4. TypeOK'
  BY <1>1, <1>2, <1>3 DEF TypeOK
<1>5. ASSUME NEW d \in Clients PROVE ClientSound(d)'
  BY <1>1, Untouched DEF CatalogSound
<1>. QED BY <1>1, <1>3, <1>4, <1>5 DEF Kept, CatalogSound, RawValid, InForceIsStored

LEMMA StutterKept ==
  ASSUME TypeOK, CatalogSound, UNCHANGED vars PROVE Kept
<1>1. ASSUME NEW d \in Clients PROVE ClientSound(d)'
  BY Untouched DEF CatalogSound, vars
<1>2. TypeOK' /\ RawValid' /\ ReloadSound' /\ InForceIsStored'
  BY ReloadKept DEF CatalogSound, TypeOK, RawValid, InForceIsStored, vars
<1>. QED BY <1>1, <1>2 DEF Kept, CatalogSound

LEMMA InvInit == Init => Inv
<1>. SUFFICES ASSUME Init PROVE Inv
  OBVIOUS
<1>1. TypeOK
  <2>1. raw \in Catalog /\ stored \in Catalog /\ driver \in Drivers
    BY CatalogsAssumption DEF Init
  <2>2. edits \in 0 .. MaxEdits /\ faults \in 0 .. MaxFaults /\ reloads \in 0 .. MaxReloads
    BY BoundsAssumption DEF Init
  <2>3. client \in [Clients -> Request \union {Idle}] /\ reload \in Reload \union {Idle}
    BY DEF Init
  <2>. QED BY <2>1, <2>2, <2>3 DEF Init, TypeOK
<1>2. RawValid /\ ReloadSound /\ InForceIsStored
  BY DEF Init, RawValid, ReloadSound, InForceIsStored, Idle
<1>3. \A c \in Clients : ClientSound(c)
  BY DEF Init, ClientSound, Idle
<1>. QED BY <1>1, <1>2, <1>3 DEF Inv

LEMMA InvStep == Inv /\ [Next]_vars => Inv'
<1>. SUFFICES ASSUME TypeOK, CatalogSound, [Next]_vars PROVE Kept
  BY DEF Inv, Kept, CatalogSound
<1>1. ASSUME NEW c \in Clients,
             \/ PutNode(c) \/ DeleteNode(c) \/ PutPool(c) \/ DeletePool(c) \/ PutGroup(c)
             \/ DeleteGroup(c) \/ PutUser(c) \/ DeleteUser(c) \/ PutRule(c) \/ DeleteRule(c)
             \/ PutConfig(c) \/ Heartbeat(c)
      PROVE  Kept
  <2>1. \E next \in Catalog, by \in {"put", "delete", "heartbeat"} :
          Asks(c, next, by) /\ Askable(next, by)
    BY <1>1, AsksWhat DEF CatalogSound
  <2>. QED BY <2>1, AsksKept
<1>2. ASSUME NEW c \in Clients,
             \/ Refuse(c) \/ NoChange(c) \/ BeginSave(c) \/ SaveFile(c) \/ SaveBatch(c)
             \/ Commit(c) \/ SaveFails(c) \/ StoreReconnects(c) \/ MakeLive(c)
      PROVE  Kept
  BY <1>2, EndsKept, BeginSaveKept, SaveFileKept, SaveBatchKept, CommitKept, SaveFailsKept,
     StoreReconnectsKept, MakeLiveKept
<1>3. CASE \/ LoadBegins \/ LoadSection \/ LoadFails \/ LoadSet
           \/ Restart \/ EditedBySql \/ StoreRefused
  BY <1>3, LoadBeginsKept, LoadSectionKept, LoadFailsKept, LoadSetKept, RestartKept,
     EditedBySqlKept, StoreRefusedKept
<1>. QED BY <1>1, <1>2, <1>3, StutterKept DEF Next

-----------------------------------------------------------------------------
(* Theorems                                                                 *)

(* In every reachable state the catalog in force is valid; the rows of an   *)
(* open transaction are what its batches add up to so far, and a save whose *)
(* transaction a reconnect ended is noted as such; and a reload that ran    *)
(* into nothing has what is stored.                                         *)
THEOREM CatalogInvariant == Spec => []Inv
<1>. QED BY InvInit, InvStep, PTL DEF Spec

(* The catalog, the store, the transaction and the requests under way are   *)
(* of their types.                                                          *)
THEOREM CatalogTypes == Spec => []TypeOK
<1>1. Inv => TypeOK
  BY DEF Inv
<1>. QED BY <1>1, CatalogInvariant, PTL

(* No name in the catalog in force (a span, an assignment, a membership, a  *)
(* rule) is of something that is gone, whatever requests, reloads, failed   *)
(* saves, edits of the tables and restarts met.                             *)
THEOREM NamesResolve == Spec => []NothingDangles
<1>1. Inv => NothingDangles
  BY DEF Inv, RawValid, Valid, NothingDangles
<1>. QED BY <1>1, CatalogInvariant, PTL

(* SaveCatalog's statements add up to the catalog that was put in force,    *)
(* and an unhurried reload reads just that, unless a write of the store     *)
(* replaced the connection or broke the transaction, a commit was in doubt, *)
(* or the tables were edited.                                               *)
THEOREM StoreHoldsCatalog == Spec => []InForceIsStored
<1>1. Inv => InForceIsStored
  BY DEF Inv
<1>. QED BY <1>1, CatalogInvariant, PTL

(* A removal is refused only when it takes the last member of a virtual     *)
(* pool without a runtime of its own.                                       *)
THEOREM RemovalsPass == Spec => RemovalsAccepted
<1>1. Inv =>
        \A c \in Clients :
          Refuse(c) /\ client[c].by = "delete" =>
            \E p \in PoolsOf(client[c].next) :
              /\ client[c].next.pools[p] = [runtime |-> "", spans |-> {}]
  <2>. SUFFICES ASSUME Inv, NEW c \in Clients, Refuse(c), client[c].by = "delete"
                PROVE  Bare(client[c].next)
    BY DEF Bare
  <2>1. ClientSound(c) /\ client[c].pc = "apply" /\ ~Valid(client[c].next)
    BY DEF Inv, Refuse
  <2>. QED BY <2>1 DEF ClientSound
<1>. QED BY <1>1, CatalogInvariant, PTL DEF RemovalsAccepted

(* The first heartbeat of a node leaves every node the catalog knows where  *)
(* it is, unless the copy it edits was overtaken.                           *)
THEOREM AssignmentWins == Spec => HeartbeatMovesNobody
<1>1. Inv =>
        \A c \in Clients :
          MakeLive(c) /\ client[c].by = "heartbeat" /\ client[c].fresh =>
            \A n \in NodesOf(raw) : raw'.nodes[n] = raw.nodes[n]
  <2>. SUFFICES ASSUME Inv, NEW c \in Clients, MakeLive(c), client[c].by = "heartbeat",
                       client[c].fresh
                PROVE  \A n \in NodesOf(raw) : raw'.nodes[n] = raw.nodes[n]
    OBVIOUS
  <2>1. ClientSound(c) /\ client[c].pc = "live" /\ raw' = client[c].next
    BY DEF Inv, MakeLive
  <2>. QED BY <2>1 DEF ClientSound
<1>. QED BY <1>1, CatalogInvariant, PTL DEF HeartbeatMovesNobody
=============================================================================
