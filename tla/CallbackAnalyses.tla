-------------------------- MODULE CallbackAnalyses --------------------------
(***************************************************************************)
(* The analyses of callbacks: CallbackDuration, PublicationInCallback and  *)
(* CallbackDependency, and the utilization computed from the first         *)
(* (src/analysis/callback_duration.rs, publication_in_callback.rs,         *)
(* callback_dependency.rs, utilization.rs).                                *)
(*                                                                         *)
(* One operator for each event an analysis reacts to.  What an operator    *)
(* asserts of the event is a predicate of its own; DependencyGraph puts    *)
(* them together.  Only the vtid identifies a thread: one host.            *)
(***************************************************************************)
EXTENDS Execution, Statistics

CONSTANT
  PeriodOf           \* the period of a timer, if its init event was seen: what the
                     \* event says, which nothing checks

ASSUME CallbackAnalysesAssumption == PeriodOf \in [Timer -> Maybe(Int)]

VARIABLES
  executions,        \* CallbackDuration::execution_data
  started,           \* CallbackDuration::started_callbacks
  active,            \* PublicationInCallback::active_callbacks
  dependency,        \* PublicationInCallback::dependency
  timerDriven,       \* CallbackDependency::timer_driven_callbacks
  messageDriven,     \* CallbackDependency::message_driven_callbacks
  callbackGraph      \* CallbackDependency::graph

callbackVars ==
  <<executions, started, active, dependency, timerDriven, messageDriven, callbackGraph>>

ExecutionData == [start: Time, duration: Time, thread: Thread]

CallbackTypeOK ==
  /\ executions \in [Callback -> Seq(ExecutionData)]
  /\ started \subseteq Instance
  /\ active \in [Thread -> Instance \cup {Nil}]
  /\ dependency \subseteq Publisher \X Callback
  /\ timerDriven \in Seq(Callback)
  /\ messageDriven \in Seq(Callback)
  /\ callbackGraph \in
       [nodes: Seq(Callback), edges: SUBSET (Nat \X Nat), sources: SUBSET Nat] \cup {Nil}

CallbackInit ==
  /\ executions = [k \in Callback |-> << >>]
  /\ started = {}
  /\ active = [t \in Thread |-> Nil]
  /\ dependency = {}
  /\ timerDriven = << >>
  /\ messageDriven = << >>
  /\ callbackGraph = Nil
-----------------------------------------------------------------------------
(* CallbackDuration and PublicationInCallback at callback_start of instance i ... *)

AcceptsStart(t) == active[t] = Nil

CallbackStarts(t, i) ==
  /\ started' = started \cup {i}
  /\ active' = [active EXCEPT ![t] = i]
  /\ UNCHANGED <<executions, dependency, timerDriven, messageDriven, callbackGraph>>

(* ... and at its callback_end. *)
AcceptsEnd(t, i) == i \in started /\ active[t] = i

CallbackEnds(t, i) ==
  /\ started' = started \ {i}
  /\ executions' = [executions EXCEPT ![i.callback] =
                      Append(@, [start |-> i.start, duration |-> now' - i.start, thread |-> t])]
  /\ active' = [active EXCEPT ![t] = Nil]
  /\ UNCHANGED <<dependency, timerDriven, messageDriven, callbackGraph>>

(* PublicationInCallback::process_publication; in the mutated form all threads are
   looked at. *)
PublishedOnAny(t, p) ==
  /\ dependency' = dependency \cup
       {<<p, active[u].callback>> : u \in {u \in Thread : active[u] # Nil}}
  /\ UNCHANGED <<executions, started, active, timerDriven, messageDriven, callbackGraph>>
PublishedOn(t, p) ==
  /\ dependency' = dependency \cup
       {<<p, active[u].callback>> : u \in {u \in {t} : active[u] # Nil}}
  /\ UNCHANGED <<executions, started, active, timerDriven, messageDriven, callbackGraph>>

(* CallbackDependency::add_callback, which ignores the callbacks of services. *)
CallbackAppears(k) ==
  /\ timerDriven' = IF CallerOf[k] \in Timer THEN Append(timerDriven, k) ELSE timerDriven
  /\ messageDriven' =
       IF CallerOf[k] \in Subscriber THEN Append(messageDriven, k) ELSE messageDriven
  /\ UNCHANGED <<executions, started, active, dependency, callbackGraph>>
-----------------------------------------------------------------------------
(* CallbackDependency::construct_callback_graph: nodes are the callbacks of
   timers, the sources, and then those of subscribers; edges lead from a callback
   that published on a topic to the callbacks of its subscribers. *)

GraphNodes == timerDriven \o messageDriven

(* The nodes whose subscriber is on topic t; in the mutated form the one registered
   last. *)
LastNodeOnTopic(t) ==
  LET on == {i \in DOMAIN messageDriven : TopicOf[CallerOf[messageDriven[i]]] = t}
  IN  {Len(timerDriven) + i : i \in {i \in on : \A j \in on : j <= i}}
NodesOnTopic(t) ==
  LET on == {i \in DOMAIN messageDriven : TopicOf[CallerOf[messageDriven[i]]] = t}
  IN  {Len(timerDriven) + i : i \in on}

(* Every publishing callback is looked up among the nodes, when there is a node
   to lead an edge to. *)
LacksNode(k) == \A i \in DOMAIN GraphNodes : GraphNodes[i] # k

ConstructionPanics ==
  \E d \in dependency : NodesOnTopic(TopicOf[d[1]]) # {} /\ LacksNode(d[2])

ConstructedGraph ==
  [nodes   |-> GraphNodes,
   sources |-> DOMAIN timerDriven,
   edges   |-> UNION {{i \in DOMAIN GraphNodes : GraphNodes[i] = d[2]}
                        \X NodesOnTopic(TopicOf[d[1]]) : d \in dependency}]

(* The analyses are finalized.  Instances still started have no end time: not_ended. *)
CallbacksFinalized ==
  /\ started' = {}
  /\ callbackGraph' = ConstructedGraph
  /\ UNCHANGED <<executions, active, dependency, timerDriven, messageDriven>>
-----------------------------------------------------------------------------
(* CallbackDuration and Utilization as they are written. *)

DurationsOf(data) == [i \in DOMAIN data |-> data[i].duration]

(* CallbackDuration::get_inter_arrival_time; there is none of a single execution. *)
InterArrivalTimes(k) ==
  IF Len(executions[k]) < 2 THEN Unknown
  ELSE [i \in 1..(Len(executions[k]) - 1) |->
          executions[k][i + 1].start - executions[k][i].start]

(* The time between two executions utilization is relative to: the period of a
   timer, if known, else the mean of what was measured.  Callbacks of which neither
   is known have no utilization. *)
InterArrivalTime(k) ==
  LET period   == IF CallerOf[k] \in Timer THEN PeriodOf[CallerOf[k]] ELSE Unknown
      measured == InterArrivalTimes(k)
  IN  IF IsKnown(period) THEN period
      ELSE IF IsUnknown(measured) THEN Unknown ELSE MeanOf(measured)

ThreadsOf(k) == {executions[k][i].thread : i \in DOMAIN executions[k]}

(* Utilization::get_thread_callback_map *)
CallbacksOn(t) == {k \in Callback : t \in ThreadsOf(k)}

(* The durations of those executions that were on thread t, in their order. *)
OnThread(data, t) ==
  LET on[n \in 0..Len(data)] ==
        IF n = 0 THEN << >>
        ELSE IF data[n].thread = t THEN Append(on[n - 1], data[n].duration) ELSE on[n - 1]
  IN  on[Len(data)]

(* Durations of the executions of k on one thread; in the mutated form on any. *)
DurationsOnAny(k, t) == DurationsOf(executions[k])
DurationsOn(k, t) == OnThread(executions[k], t)

(* Utilization is a fraction of a thread.  The real one is the execution time on
   the thread over the time all executions had; the other assumes that all on the
   thread took as long as quantile q of them. *)
UtilizationUnits(k) == InterArrivalTime(k) * Len(executions[k])

RealUtilization(k, t) == <<Total(DurationsOn(k, t)), UtilizationUnits(k)>>

QuantileUtilization(k, t, q) ==
  <<AtQuantile(Sorted(DurationsOn(k, t)), q) * Len(DurationsOn(k, t)), UtilizationUnits(k)>>
=============================================================================
