---------------------------- MODULE MCNodeAgent ----------------------------
(* NodeAgent with a label that is detected and one that is configured. *)
EXTENDS NodeAgent

CONSTANTS java, tag, a, b

Tagged == [NoLabels EXCEPT ![tag] = a]
Overridden == [NoLabels EXCEPT ![java] = b]
SomeConfigs == {Tagged, Overridden, Bad}
SomeFacts == {NoLabels, [NoLabels EXCEPT ![java] = a]}
=============================================================================
