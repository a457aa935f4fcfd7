----------------------------- MODULE MCCatalog -----------------------------
(* Catalog with two concrete pools and a virtual one. *)
EXTENDS Catalog, TLC

CONSTANTS p, q, v, n, g, u

Symmetry == Permutations(Clients)

Process == [runtime |-> "process", spans |-> {}]
Container == [runtime |-> "container", spans |-> {}]
Over(members) == [runtime |-> "", spans |-> members]

SomeBodies == p :> {Process} @@ q :> {Process, Container} @@ v :> {Over({p}), Over({p, q})}

Everyone == [user |-> None, group |-> None, together |-> TRUE, pool |-> None, node |-> None]
UserInPool == [Everyone EXCEPT !.user = u, !.together = FALSE, !.pool = v]
GroupOnNode == [Everyone EXCEPT !.group = g, !.node = n]
Malformed == [Everyone EXCEPT !.user = u]
SomeRules == {UserInPool, GroupOnNode, Malformed}

Full == [pools |-> p :> Process @@ q :> Process @@ v :> Over({p, q}),
         nodes |-> n :> p, groups |-> {g}, users |-> u :> {g},
         rules |-> {UserInPool, GroupOnNode}]
OnePool == [Empty EXCEPT !.pools[p] = Process, !.users[u] = {}]
SomeCatalogs == {Full, OnePool}
=============================================================================
