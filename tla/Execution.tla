----------------------------- MODULE Execution -----------------------------
(***************************************************************************)
(* A running ROS system, as the processed events of its trace show it to   *)
(* the analyses: threads that execute callbacks and publish messages,      *)
(* subscribers that take them, and executors of r2r that wake up.  It is   *)
(* external, modelled from what src/processor makes of the events and from *)
(* what the analyses of src/analysis assume of them.                       *)
(*                                                                         *)
(* The objects are all there from the start (Publishers, Subscriptions and *)
(* Callers say how they come about).  Time is the number of events so far. *)
(***************************************************************************)
EXTENDS Known, Naturals, Sequences

CONSTANTS
  RosNode, Topic, Thread,
  Publisher, Subscriber, Timer, Service, Callback,
  CallerOf,    \* the subscriber, timer or service of a callback
  NodeOf,      \* the node of a publisher, subscriber, timer or service
  TopicOf,     \* of a publisher or subscriber
  MaxEvents,   \* bound
  Nil

Caller == Subscriber \cup Timer \cup Service

Time == 0..MaxEvents

(* `by' is the callback that published the message, or Nil: the code does not
   know it, the properties do. *)
Publication == [publisher: Publisher, time: Time, by: Callback \cup {Nil}]

Message == [publication: Maybe(Publication), received: Time]

Instance == [callback: Callback, start: Time, message: Message \cup {Nil}]

(* The objects are of different types. *)
ASSUME ExecutionAssumption ==
  /\ Publisher \cap Caller = {}
  /\ Callback \cap (Publisher \cup Caller) = {}
  /\ Subscriber \cap Timer = {} /\ Subscriber \cap Service = {} /\ Timer \cap Service = {}
  /\ Nil \notin Callback \cup Message \cup Instance
  /\ Unknown \notin Publication \cup Time
  /\ CallerOf \in [Callback -> Caller]
  /\ \A k, l \in Callback : CallerOf[k] = CallerOf[l] => k = l
  /\ NodeOf \in [Publisher \cup Caller -> RosNode]
  /\ TopicOf \in [Publisher \cup Subscriber -> Topic]
  /\ MaxEvents \in Nat

VARIABLES
  now,        \* time of the last event
  running,    \* the callback instance each thread executes, or Nil
  sent,       \* messages published so far
  taken,      \* messages each subscriber took and no callback has started with
  caused,     \* <<k, l>> when l was started with a message published by k
  awake       \* nodes whose executor woke up and has not ended its spin

executionVars == <<now, running, sent, taken, caused, awake>>

ExecutionTypeOK ==
  /\ now \in Time
  /\ running \in [Thread -> Instance \cup {Nil}]
  /\ sent \subseteq Publication
  /\ taken \in [Subscriber -> Seq(Message)]
  /\ caused \subseteq Callback \X Callback
  /\ awake \subseteq RosNode

ExecutionInit ==
  /\ now = 0
  /\ running = [t \in Thread |-> Nil]
  /\ sent = {}
  /\ taken = [s \in Subscriber |-> << >>]
  /\ caused = {}
  /\ awake = {}

Tick == now < MaxEvents /\ now' = now + 1

(* The messages k can be started with: a subscription needs one it took, the
   oldest; timers and services need none. *)
Triggers(k) ==
  IF CallerOf[k] \in Subscriber
  THEN {taken[CallerOf[k]][i] : i \in 1..Len(taken[CallerOf[k]]) \cap {1}}
  ELSE {Nil}

PublishedBy(m) ==
  IF m = Nil \/ IsUnknown(m.publication) THEN Nil ELSE m.publication.by

(* A callback has one running instance, and a thread executes one callback. *)
StartCallback(t, k, m) ==
  /\ Tick
  /\ running[t] = Nil
  /\ \A u \in Thread : running[u] # Nil => running[u].callback # k
  /\ running' = [running EXCEPT ![t] = [callback |-> k, start |-> now', message |-> m]]
  /\ taken' = IF m = Nil THEN taken ELSE [taken EXCEPT ![CallerOf[k]] = Tail(@)]
  /\ caused' = caused \cup {<<l, k>> : l \in {PublishedBy(m)} \ {Nil}}
  /\ UNCHANGED <<sent, awake>>

EndCallback(t) ==
  /\ Tick
  /\ running[t] # Nil
  /\ running' = [running EXCEPT ![t] = Nil]
  /\ UNCHANGED <<sent, taken, caused, awake>>

(* In a callback or outside of any. *)
Publish(t, p) ==
  /\ Tick
  /\ sent' = sent \cup
       {[publisher |-> p, time |-> now',
         by |-> IF running[t] = Nil THEN Nil ELSE running[t].callback]}
  /\ UNCHANGED <<running, taken, caused, awake>>

(* A message of the topic, or one whose publication is not in the trace. *)
Take(s, m) ==
  /\ Tick
  /\ IsKnown(m) => TopicOf[m.publisher] = TopicOf[s]
  /\ taken' = [taken EXCEPT ![s] = Append(@, [publication |-> m, received |-> now'])]
  /\ UNCHANGED <<running, sent, caused, awake>>

(* An executor wakes up once in a spin, and a spin that timed out has no end event
   (Spins). *)
WakeUp(n) ==
  /\ Tick
  /\ n \notin awake
  /\ awake' = awake \cup {n}
  /\ UNCHANGED <<running, sent, taken, caused>>

EndSpin(n) ==
  /\ Tick
  /\ n \in awake
  /\ awake' = awake \ {n}
  /\ UNCHANGED <<running, sent, taken, caused>>
=============================================================================
