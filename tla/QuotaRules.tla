----------------------------- MODULE QuotaRules -----------------------------
(***************************************************************************)
(* The catalog as admission reads it: pools, the pool each node serves,    *)
(* groups, and the table of quota rules; and which rule governs whom.      *)
(*                                                                         *)
(* A rule limits the slots a subject may hold in a scope at one time.  For *)
(* a group or everyone the limit is on each user, unless the rule counts   *)
(* them together.                                                          *)
(***************************************************************************)
EXTENDS Naturals

CONSTANTS Users, Groups, Pools, Nodes, NoPool, NoNode

ASSUME NoPoolAssumption == NoPool \notin Pools
ASSUME NoNodeAssumption == NoNode \notin Nodes

Subject == ({"user"} \X Users) \union ({"group"} \X Groups) \union {<<"everyone">>}

Scope == ({"node"} \X Nodes) \union ({"pool"} \X Pools) \union {<<"everywhere">>}

QuotaRule == {rule \in [subject: Subject, together: BOOLEAN, scope: Scope, max: Nat] :
                rule.together => rule.subject[1] # "user"}

Catalog == [pools: SUBSET Pools,                       \* pools that exist
            spans: [Pools -> SUBSET Pools],            \* members of a virtual pool
            nodePool: [Nodes -> Pools \union {NoPool}],
            groups: [Users -> SUBSET Groups],
            rules: SUBSET QuotaRule]

-----------------------------------------------------------------------------

IsVirtual(cat, p) == cat.spans[p] # {}

\* The concrete pools whose nodes serve p.
NodePools(cat, p) == IF IsVirtual(cat, p) THEN cat.spans[p] ELSE {p}

\* The pools a run submitted to p counts in when it sits on n: p, the concrete
\* pool of the node (p itself when the node has none), and every virtual pool
\* that spans that one.
PoolsOf(cat, p, n) ==
  LET concrete == IF cat.nodePool[n] # NoPool THEN {cat.nodePool[n]}
                  ELSE IF p \in cat.pools /\ ~IsVirtual(cat, p) THEN {p} ELSE {}
  IN {p} \union concrete \union {v \in cat.pools : cat.spans[v] \intersect concrete # {}}

Covers(cat, rule, u) ==
  \/ rule.subject = <<"user", u>>
  \/ \E g \in cat.groups[u] : rule.subject = <<"group", g>>
  \/ rule.subject = <<"everyone">>

\* The per-user rules that govern u in a scope: the user's own, else the most
\* permissive of the groups', else everyone's.  (Two only when their limits
\* are equal.)
UserCap(cat, u, scope) ==
  LET caps  == {r \in cat.rules : ~r.together /\ r.scope = scope /\ Covers(cat, r, u)}
      own   == {r \in caps : r.subject[1] = "user"}
      group == {r \in caps : r.subject[1] = "group"}
  IN IF own # {} THEN own
     ELSE IF group # {} THEN {r \in group : \A q \in group : q.max <= r.max}
     ELSE caps

TogetherRules(cat, u, scope) ==
  {r \in cat.rules : r.together /\ r.scope = scope /\ Covers(cat, r, u)}
=============================================================================
