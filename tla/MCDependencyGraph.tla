------------------------- MODULE MCDependencyGraph -------------------------
(* Small instances of DependencyGraph for TLC. *)
EXTENDS DependencyGraph, TLC

CONSTANTS n1, n2, p1, s1, s2, w1, v1, k1, k2, k3, k4, chatter, t1, t2

(* A timer publishes to two subscribers, one of them in another node, ... *)
MCCallerOf == (k1 :> w1 @@ k2 :> s1 @@ k3 :> s2)
MCNodeOf == (p1 :> n1 @@ w1 :> n1 @@ s1 :> n1 @@ s2 :> n2)
MCTopicOf == (p1 :> chatter @@ s1 :> chatter @@ s2 :> chatter)
MCPeriodOf == (w1 :> 0)

(* ... or a service is called. *)
MCServiceCallerOf == (k1 :> v1 @@ k2 :> s1)
MCServiceNodeOf == (p1 :> n1 @@ v1 :> n1 @@ s1 :> n1)
MCServiceTopicOf == (p1 :> chatter @@ s1 :> chatter)
MCServicePeriodOf == [w \in {} |-> 0]

MCQuantiles == {<<0, 1>>, <<1, 10>>, <<1, 2>>, <<9, 10>>, <<99, 100>>, <<1, 1>>}

MCMinMultiplier == <<3, 2>>

(* The ranges do not depend on the order of edges in the hash map. *)
EdgesInOneOrder ==
  weighed' # weighed => weighed' = weighed \cup {CHOOSE e \in DrawnEdges \ weighed : TRUE}

(* The time at which the executor of a node without timers wakes up is never read. *)
WakesAreRead ==
  \A n \in RosNode : (\A x \in Timer \cup Service : NodeOf[x] # n) => IsUnknown(lastWake'[n])

Symmetry == Permutations({t1, t2})
=============================================================================
