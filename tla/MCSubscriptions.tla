-------------------------- MODULE MCSubscriptions --------------------------
(* Small instances of Subscriptions for TLC. *)
EXTENDS Subscriptions, FiniteSets, TLC

CONSTANTS n1, r1, r2, h1, h2, c1, c2, f1, f2, g1, g2, a1, p1, p2, p3, k1, k2, chatter

VARIABLE focus   \* the part of the system the states are spent on

(* Handles, gids and addresses are interchangeable; the heap references are
   not, since NewSubscriber and the like choose among them. *)
Symmetry ==
  UNION {Permutations(S) : S \in {{r1, r2}, {h1, h2}, {g1, g2}}}

-----------------------------------------------------------------------------
(* To spend the states on messages: a start after the events that register one
   node and two subscriptions with their callbacks. *)

Complete(r, h, c, k) ==
  [rmw |-> r, rcl |-> h, rclcpp |-> c, gid |-> g1, topic |-> chatter, node |-> n1,
   callback |-> k, taken |-> << >>, removed |-> FALSE]

ReadyInit ==
  /\ outcome = "running"
  /\ nodes = {n1}
  /\ nodeSubscribers = (n1 :> {p1, p2})
  /\ subscribers = [p \in Subscriber |-> CASE p = p1 -> Complete(r1, h1, c1, k1)
                                           [] p = p2 -> Complete(r2, h2, c2, k2)
                                           [] OTHER -> Nil]
  /\ subscribersByRmw = (r1 :> p1 @@ r2 :> p2)
  /\ subscribersByRcl = (h1 :> p1 @@ h2 :> p2)
  /\ subscribersByRclcpp = (c1 :> p1 @@ c2 :> p2)
  /\ callbacks = [k \in Callback |->
                    CASE k = k1 -> [caller |-> p1, named |-> TRUE, running |-> Nil]
                      [] k = k2 -> [caller |-> p2, named |-> TRUE, running |-> Nil]
                      [] OTHER -> Nil]
  /\ callbacksById = (f1 :> k1 @@ f2 :> k2)
  /\ messages = [m \in Message |-> Nil]
  /\ received = [a \in Pointer |-> Nil]
  /\ published = Key

-----------------------------------------------------------------------------
(* Each focus bounds what it does not look at.  All bounds are on the number of
   objects and entries. *)

InUse(table) == {i \in DOMAIN table : table[i] # Nil}

Topics == {subscribers[p].topic : p \in InUse(subscribers)} \ {Unknown}

(* Who is registered where: three subscribers of one topic, no messages. *)
RegistryBounds ==
  /\ InUse(messages) = {}
  /\ published = {}
  /\ Cardinality(InUse(subscribersByRclcpp)) <= 1
  /\ Topics \subseteq {chatter}

(* Which callback gets which message: two subscribers, four messages, none of
   them matched. *)
QueueBounds ==
  /\ subscribers[p3] = Nil
  /\ Topics = {chatter}
  /\ \A m \in InUse(messages) : IsUnknown(messages[m].match)

(* Which publication a message is matched with: two subscribers of any topics at
   one rmw and one rcl handle, two messages. *)
MatchingBounds ==
  /\ Cardinality(InUse(subscribers)) <= 2
  /\ Cardinality(InUse(messages)) <= 2
  /\ Cardinality(InUse(subscribersByRmw)) <= 1
  /\ Cardinality(InUse(subscribersByRcl)) <= 1
  /\ InUse(subscribersByRclcpp) = {}
  /\ Cardinality({subscribers[p].gid : p \in InUse(subscribers)}) <= 1

InFocus ==
  CASE focus = "registry" -> RegistryBounds
    [] focus = "queue"    -> QueueBounds
    [] focus = "matching" -> MatchingBounds

MCInit ==
  \/ focus \in {"registry", "matching"} /\ Init
  \/ focus = "queue" /\ ReadyInit

MCNext == Next /\ UNCHANGED focus /\ InFocus'

MCSpec == MCInit /\ [][MCNext]_<<vars, focus>>
=============================================================================
