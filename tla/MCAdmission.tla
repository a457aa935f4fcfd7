----------------------------- MODULE MCAdmission -----------------------------
(* Admission on a lab of two concrete pools and a virtual one over both. *)
EXTENDS Admission, TLC

CONSTANTS r1, r2, r3, r4, u1, u2, g1, p1, p2, v, n1, n2

JobOf(u, p, pri, at) ==
  [user |-> u, pool |-> p, priority |-> pri, queuedAt |-> at, suits |-> {n1, n2}]

\* Two of u1's, in the virtual pool and, more urgent, in one of its members, and
\* two of u2's.
JobsOfFour == r1 :> JobOf(u1, v, 0, 1) @@ r2 :> JobOf(u1, p1, 1, 2)
     @@ r3 :> JobOf(u2, v, 0, 3) @@ r4 :> JobOf(u2, p2, 1, 4)

Jobs == [r \in RunIds |-> JobsOfFour[r]]

OneAndTwoSlots == n1 :> 2 @@ n2 :> 1

Lab(pools, rules) ==
  [pools |-> pools,
   spans |-> (p1 :> {} @@ p2 :> {} @@ v :> {p1, p2} \intersect pools),
   nodePool |-> (n1 :> p1 @@ n2 :> IF p2 \in pools THEN p2 ELSE p1),
   groups |-> (u1 :> {g1} @@ u2 :> {g1}),
   rules |-> rules]

Rule(subject, together, scope, max) ==
  [subject |-> subject, together |-> together, scope |-> scope, max |-> max]

\* Each user is capped in the virtual pool, the group in a member; the members
\* of the group may use two slots each, but one of them only one; and a node is
\* off limits for the other.
Caps == {Rule(<<"everyone">>, FALSE, <<"pool", v>>, 1),
         Rule(<<"group", g1>>, TRUE, <<"pool", p1>>, 1),
         Rule(<<"group", g1>>, FALSE, <<"everywhere">>, 2),
         Rule(<<"user", u1>>, FALSE, <<"everywhere">>, 1),
         Rule(<<"user", u2>>, FALSE, <<"node", n2>>, 0)}

\* No rules, and one pool less: its node serves the other.
Labs == {Lab({p1, p2, v}, Caps), Lab({p1, v}, {})}

\* Every node is ready, or one is out.
Outages == {{n1, n2}, {n2}}
=============================================================================
