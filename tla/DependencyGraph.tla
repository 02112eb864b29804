-------------------------- MODULE DependencyGraph --------------------------
(***************************************************************************)
(* The dependency graph of src/analysis/dependency_graph.rs, fed together  *)
(* with the analyses of CallbackAnalyses with the events of Execution,     *)
(* until the trace ends, they are finalized and the graph is drawn, for    *)
(* which the range of latencies each edge is coloured in is found first.   *)
(*                                                                         *)
(* A node or an edge of the graph records the times between consecutive    *)
(* activations and the last one; an edge also records latencies.  An edge  *)
(* is the pair of the objects it joins, which tell its type.               *)
(*                                                                         *)
(* The messages are of subscribers and publishers the processor knows, as  *)
(* in a trace that begins before the application.  A take that took        *)
(* nothing is not seen here: process_rmw_take returns at once.             *)
(***************************************************************************)
EXTENDS CallbackAnalyses

CONSTANTS
  LatencyInvalid,    \* LATENCY_INVALID: more than any time
  MinMultiplier,     \* the option --min-multiplier, as a fraction
  Quantiles          \* the option --quantiles

Item == Publisher \cup Subscriber \cup Timer \cup Callback

Edge == (Callback \X Publisher) \cup (Publisher \X Subscriber)
          \cup {<<CallerOf[k], k>> : k \in Callback}

Activity == [last: Time, delays: Seq(Time)]

EdgeData == [last: Time, delays: Seq(Time), latencies: Seq(Time \cup {LatencyInvalid})]

(* What edges are coloured alike: those between a publisher and a subscriber, and
   those of a type inside one node. *)
Scale ==
  {<<"communication", Nil>>} \cup ({"subscription", "timer", "publication"} \X RosNode)

ASSUME DependencyGraphAssumption ==
  /\ Nil \notin Activity \cup EdgeData
  /\ LatencyInvalid \in Nat /\ LatencyInvalid > MaxEvents
  /\ MinMultiplier \in Nat \X (Nat \ {0})
  /\ \A q \in Quantiles : IsQuantile(q)

VARIABLES
  outcome,           \* "running", "finalized", "drawn"; "panicked" while analysing or
                     \* finalizing, "undrawable" when drawing panicked
  activity,          \* publisher_nodes, subscriber_nodes, timer_nodes, callback_nodes
  durations,         \* CallbackNode::durations
  edges,
  lastWake,          \* last_spin_wake_up_time_for_node
  executing,         \* running_callbacks
  ranges,            \* EdgeWeightStats of the nodes, and the range of communication
  weighed            \* edges process_edges is through with

graphVars   == <<activity, durations, edges, lastWake, executing>>
drawingVars == <<ranges, weighed>>
vars        == <<outcome, executionVars, callbackVars, graphVars, drawingVars>>

AnalysisTypeOK ==
  /\ ExecutionTypeOK
  /\ CallbackTypeOK
  /\ outcome \in {"running", "finalized", "drawn", "panicked", "undrawable"}
  /\ activity \in [Item -> Activity \cup {Nil}]
  /\ durations \in [Callback -> Seq(Time)]
  /\ edges \in [Edge -> EdgeData \cup {Nil}]
  /\ lastWake \in [RosNode -> Maybe(Time)]
  /\ executing \in [Thread -> Instance \cup {Nil}]

DrawingTypeOK ==
  /\ ranges \in [Scale -> [low: Int, high: Int]]
  /\ weighed \subseteq Edge

TypeOK == AnalysisTypeOK /\ DrawingTypeOK

(* The range of nothing: (i64::MAX, i64::MIN). *)
Unset == [low |-> LatencyInvalid, high |-> -LatencyInvalid - 1]

Init ==
  /\ ExecutionInit
  /\ CallbackInit
  /\ outcome = "running"
  /\ activity = [x \in Item |-> Nil]
  /\ durations = [k \in Callback |-> << >>]
  /\ edges = [e \in Edge |-> Nil]
  /\ lastWake = [n \in RosNode |-> Unknown]
  /\ executing = [t \in Thread |-> Nil]
  /\ ranges = [c \in Scale |-> Unset]
  /\ weighed = {}
-----------------------------------------------------------------------------
(* A node is activated now. *)
Activated(a) ==
  IF a = Nil THEN [last |-> now', delays |-> << >>]
  ELSE [last |-> now', delays |-> Append(a.delays, now' - a.last)]

(* An edge is activated now, with a latency.  In the mutated form the last
   activation stays the first. *)
TraversedFromFirst(d, latency) ==
  IF d = Nil THEN [last |-> now', delays |-> << >>, latencies |-> <<latency>>]
  ELSE [last |-> d.last, delays |-> Append(d.delays, now' - d.last),
        latencies |-> Append(d.latencies, latency)]
Traversed(d, latency) ==
  IF d = Nil THEN [last |-> now', delays |-> << >>, latencies |-> <<latency>>]
  ELSE [last |-> now', delays |-> Append(d.delays, now' - d.last),
        latencies |-> Append(d.latencies, latency)]

(* From the take of the message to the callback; for timers and services from the
   last time the executor of their node woke up.  In the mutated form nothing stands
   for a latency that is not known. *)
InvocationLatencyIfKnown(k, m) ==
  LET wake == lastWake[NodeOf[CallerOf[k]]] IN
  IF m # Nil THEN now' - m.received
  ELSE IF IsKnown(wake) THEN now' - wake
  ELSE Unknown
InvocationLatency(k, m) ==
  LET wake == lastWake[NodeOf[CallerOf[k]]] IN
  IF m # Nil THEN now' - m.received
  ELSE IF IsKnown(wake) THEN now' - wake
  ELSE LatencyInvalid

(* The items a callback_start activates. *)
ActivatedWith(k) == {k} \cup ({CallerOf[k]} \cap Timer)

GraphCallbackStarts(t, i) ==
  LET k == i.callback
      e == <<CallerOf[k], k>>
  IN
  /\ executing' = [executing EXCEPT ![t] = i]
  /\ activity' = [x \in Item |-> IF x \in ActivatedWith(k) THEN Activated(activity[x])
                                 ELSE activity[x]]
  /\ edges' = [edges EXCEPT ![e] = Traversed(@, InvocationLatency(k, i.message))]
  /\ UNCHANGED <<durations, lastWake>>

(* The duration is taken from the last activation of the callback; in the mutated
   form from the one before. *)
DurationSinceOneBefore(k) ==
  LET d == activity[k].delays
  IN  now' - activity[k].last + (IF d = << >> THEN 0 ELSE d[Len(d)])
DurationSinceLast(k) == now' - activity[k].last

(* process_callback_end accepts a thread that executes nothing.  In the mutated
   form the thread goes on executing the instance. *)
AcceptsGraphEnd(t, i) == executing[t] \in {i, Nil} /\ activity[i.callback] # Nil

NotVacated(t) == executing
Vacated(t) == [executing EXCEPT ![t] = Nil]

GraphCallbackEnds(t, i) ==
  /\ executing' = Vacated(t)
  /\ durations' = [durations EXCEPT ![i.callback] = Append(@, DurationSinceLast(i.callback))]
  /\ UNCHANGED <<activity, edges, lastWake>>

GraphTake(s, m) ==
  /\ activity' = [activity EXCEPT ![s] = Activated(@)]
  /\ edges' = IF IsUnknown(m) THEN edges
              ELSE [edges EXCEPT ![<<m.publisher, s>>] = Traversed(@, now' - m.time)]
  /\ UNCHANGED <<durations, lastWake, executing>>

GraphPublication(t, p) ==
  LET i == executing[t] IN
  /\ activity' = [activity EXCEPT ![p] = Activated(@)]
  /\ edges' = IF i = Nil THEN edges
              ELSE [edges EXCEPT ![<<i.callback, p>>] = Traversed(@, now' - i.start)]
  /\ UNCHANGED <<durations, lastWake, executing>>

GraphWakeUp(n) ==
  /\ lastWake' = [lastWake EXCEPT ![n] = now']
  /\ UNCHANGED <<activity, durations, edges, executing>>

AcceptsSpinEnd(n) == IsKnown(lastWake[n])
-----------------------------------------------------------------------------
(* An event, as all the analyses see it. *)

Continue == outcome' = outcome

Panic ==
  /\ outcome' = "panicked"
  /\ UNCHANGED <<callbackVars, graphVars>>

(* rclcpp_callback_register.  Bound: callbacks are registered before anything
   else, in one order. *)
Registered == {k \in Callback : ~LacksNode(k) \/ CallerOf[k] \in Service}

CallbackRegister ==
  /\ now = 0
  /\ Registered # Callback
  /\ CallbackAppears(CHOOSE k \in Callback \ Registered : TRUE)
  /\ Continue
  /\ UNCHANGED <<executionVars, graphVars>>

CallbackStart(t, k) ==
  /\ Registered = Callback
  /\ \E m \in Triggers(k) :
       /\ StartCallback(t, k, m)
       /\ IF AcceptsStart(t) /\ executing[t] = Nil
          THEN /\ CallbackStarts(t, running'[t])
               /\ GraphCallbackStarts(t, running'[t])
               /\ Continue
          ELSE Panic

CallbackEnd(t) ==
  /\ EndCallback(t)
  /\ IF AcceptsEnd(t, running[t]) /\ AcceptsGraphEnd(t, running[t])
     THEN /\ CallbackEnds(t, running[t])
          /\ GraphCallbackEnds(t, running[t])
          /\ Continue
     ELSE Panic

RmwPublish(t, p) ==
  /\ Registered = Callback
  /\ Publish(t, p)
  /\ PublishedOn(t, p)
  /\ GraphPublication(t, p)
  /\ Continue

RmwTake(s) ==
  /\ Registered = Callback
  /\ \E m \in Maybe(sent) : Take(s, m) /\ GraphTake(s, m)
  /\ Continue
  /\ UNCHANGED callbackVars

SpinWake(n) ==
  /\ Registered = Callback
  /\ WakeUp(n)
  /\ GraphWakeUp(n)
  /\ Continue
  /\ UNCHANGED callbackVars

SpinEnd(n) ==
  /\ Registered = Callback
  /\ EndSpin(n)
  /\ IF AcceptsSpinEnd(n) THEN Continue /\ UNCHANGED <<callbackVars, graphVars>> ELSE Panic
-----------------------------------------------------------------------------
(* Drawing the graph: DisplayAsDot. *)

Drawn == {x \in Item : activity[x] # Nil}

DrawnEdges == {e \in Edge : edges[e] # Nil}

RosNodeOf(x) == NodeOf[IF x \in Callback THEN CallerOf[x] ELSE x]

MedianLatency(e) == MedianOf(edges[e].latencies)

TypeOf(e) ==
  CASE e[1] \in Publisher  -> "communication"
    [] e[1] \in Callback   -> "publication"
    [] e[1] \in Subscriber -> "subscription"
    [] e[1] \in Timer      -> "timer"
    [] e[1] \in Service    -> "service"

(* Edges of services and edges out of a node have no scale. *)
IsScaled(e) ==
  \/ TypeOf(e) = "communication"
  \/ TypeOf(e) # "service" /\ RosNodeOf(e[1]) = RosNodeOf(e[2])

ScaleOf(e) ==
  <<TypeOf(e), IF TypeOf(e) = "communication" THEN Nil ELSE RosNodeOf(e[1])>>

Widened(r, latency) ==
  [low  |-> IF latency < r.low THEN latency ELSE r.low,
   high |-> IF latency > r.high THEN latency ELSE r.high]

(* process_edges, at one edge: it looks both ends up among the nodes, and services are
   not among them. *)
Weigh(e) ==
  /\ outcome = "finalized"
  /\ e \in DrawnEdges \ weighed
  /\ IF {e[1], e[2]} \subseteq Drawn
     THEN /\ weighed' = weighed \cup {e}
          /\ ranges' = IF IsScaled(e)
                       THEN [ranges EXCEPT ![ScaleOf(e)] = Widened(@, MedianLatency(e))]
                       ELSE ranges
          /\ Continue
     ELSE outcome' = "undrawable" /\ UNCHANGED drawingVars
  /\ UNCHANGED <<executionVars, callbackVars, graphVars>>

Draw ==
  /\ outcome = "finalized"
  /\ weighed = DrawnEdges
  /\ outcome' = "drawn"
  /\ UNCHANGED <<executionVars, callbackVars, graphVars, drawingVars>>

(* EdgeWeightStats::validate_range tells a range from none; in the mutated form by
   either of its ends. *)
ValidatedEither(r) == r.low # Unset.low /\ r.high # Unset.high
Validated(r) == r.low # Unset.low \/ r.high # Unset.high

HasRange(e) == IsScaled(e) /\ Validated(ranges[ScaleOf(e)])

(* The latency times the minimum multiplier, as far as that can be represented. *)
Multiplied(latency) ==
  LET product == (latency * MinMultiplier[1]) \div MinMultiplier[2]
  IN  IF product > LatencyInvalid THEN LatencyInvalid ELSE product

(* The range the weight of an edge is placed in. *)
RangeOf(e) ==
  LET r == ranges[ScaleOf(e)]
  IN  <<r.low, IF Multiplied(r.low) > r.high THEN Multiplied(r.low) ELSE r.high>>

SmallestOf(S) == CHOOSE x \in S : \A y \in S : x <= y
LargestOf(S) == CHOOSE x \in S : \A y \in S : y <= x

Finalize ==
  /\ outcome = "running"
  /\ IF ConstructionPanics
     THEN Panic
     ELSE /\ outcome' = "finalized"
          /\ CallbacksFinalized
          /\ executing' = [t \in Thread |-> Nil]
          /\ UNCHANGED <<activity, durations, edges, lastWake>>
  /\ UNCHANGED <<executionVars, drawingVars>>

Event ==
  \/ CallbackRegister
  \/ \E t \in Thread :
       \/ \E k \in Callback : CallbackStart(t, k)
       \/ CallbackEnd(t)
       \/ \E p \in Publisher : RmwPublish(t, p)
  \/ \E s \in Subscriber : RmwTake(s)
  \/ \E n \in RosNode : SpinWake(n) \/ SpinEnd(n)

Next ==
  \/ outcome = "running" /\ Event /\ UNCHANGED drawingVars
  \/ Finalize
  \/ \E e \in Edge : Weigh(e)
  \/ Draw

Spec == Init /\ [][Next]_vars
-----------------------------------------------------------------------------
(* None of the assertions, unwraps and lookups of the analyses fails on the events
   of a system without services: those about the callback a thread runs, of which
   PublicationInCallback and DependencyGraph keep a record each, the lookups of
   the callback graph, and those of the drawing, at whatever point the trace ends. *)
NoAnalysisPanics == outcome \notin {"panicked", "undrawable"}

(* "Service is represented by its callback so the latency is always 0"
   (dependency_graph.rs:764): an edge from a service does not keep the graph from
   being drawn. *)
ServicesAreDrawn == outcome # "undrawable"

(* CallbackDuration takes durations from the instances, the graph from the last
   activation of the callback: the two agree, and so do the times between the
   starts of ended executions and the activation delays.  "Timer and Timer callback
   have the same data" (dependency_graph.rs:236), and a timer is only activated as
   the caller of its callback. *)
DurationsAgree ==
  \A k \in Callback :
    /\ DurationsOf(executions[k]) = durations[k]
    /\ LET between == InterArrivalTimes(k)
       IN  IsKnown(between) => between = SubSeq(activity[k].delays, 1, Len(between))
    /\ CallerOf[k] \in Timer => activity[CallerOf[k]] = activity[k]

(* Which callback published is found by thread.  Both analyses that do so find the
   callback that did, however executions on several threads interleave, and find
   none for a publication outside of callbacks. *)
PublicationsAreAttributed ==
  LET published == {<<m.publisher, m.by>> : m \in {m \in sent : m.by # Nil}} IN
  /\ dependency = published
  /\ \A k \in Callback, p \in Publisher : edges[<<k, p>>] # Nil <=> <<p, k>> \in published

(* Edges record what happened.  There is a delay between any two consecutive
   latencies, as the debug assertions say; a callback is invoked by its caller as
   often and when it is started; and the edge from a callback to a publisher is of
   exactly the messages it published. *)
EdgesRecordEvents ==
  /\ \A e \in DrawnEdges : Len(edges[e].delays) + 1 = Len(edges[e].latencies)
  /\ \A k \in Callback :
       LET e == edges[<<CallerOf[k], k>>] IN
       e # Nil => e.delays = activity[k].delays /\ e.last = activity[k].last
  /\ \A k \in Callback, p \in Publisher :
       LET times == {m.time : m \in {m \in sent : m.publisher = p /\ m.by = k}}
           e     == edges[<<k, p>>]
       IN  e # Nil =>
             /\ Len(e.latencies) = Cardinality(times)
             /\ e.last = LargestOf(times)
             /\ Total(e.delays) = LargestOf(times) - SmallestOf(times)

(* When a callback was started by a message another callback published, the
   finalized callback graph has an edge between the two. *)
CausesAreEdges ==
  callbackGraph # Nil =>
    LET node(k) == CHOOSE i \in DOMAIN callbackGraph.nodes : callbackGraph.nodes[i] = k
    IN  \A c \in caused : <<node(c[1]), node(c[2])>> \in callbackGraph.edges

(* Quantiles are those of the nearest-rank method, which the comment of
   Sorted::quantile promises: the smallest value that at least q of the values do
   not exceed. *)
QuantilesAreNearestRank ==
  \A k \in Callback, q \in Quantiles :
    LET data == durations[k]
        upTo(v) == Cardinality({i \in DOMAIN data : data[i] <= v})
        rank(v) == upTo(v) * q[2] >= q[1] * Len(data)
    IN  data # << >> =>
          LET v == AtQuantile(Sorted(data), q) IN
          /\ v \in {data[i] : i \in DOMAIN data}
          /\ rank(v)
          /\ \A i \in DOMAIN data : rank(data[i]) => v <= data[i]

(* The threads of a callback share its execution time out between them, and its
   utilization by the shortest and the longest execution on a thread are bounds of
   the real one.  What these times are divided by is positive, unless the period the
   trace gives for the timer is not: nothing checks that, and then the utilization is
   infinite, negative or not a number. *)
UtilizationAddsUp ==
  \A k \in Callback :
    IsKnown(InterArrivalTime(k)) /\ executions[k] # << >> =>
      /\ UtilizationUnits(k) <= 0 =>
           /\ CallerOf[k] \in Timer
           /\ IsKnown(PeriodOf[CallerOf[k]]) /\ PeriodOf[CallerOf[k]] <= 0
      /\ MapThenSumSet(LAMBDA t : RealUtilization(k, t)[1], ThreadsOf(k))
           = Total(DurationsOf(executions[k]))
      /\ \A t \in ThreadsOf(k) :
           /\ k \in CallbacksOn(t)
           /\ QuantileUtilization(k, t, <<0, 1>>)[1] <= RealUtilization(k, t)[1]
           /\ RealUtilization(k, t)[1] <= QuantileUtilization(k, t, <<1, 1>>)[1]

(* The edges whose latencies an edge is to be compared with. *)
Alike(e) ==
  {f \in DrawnEdges :
     /\ TypeOf(f) = TypeOf(e)
     /\ TypeOf(e) # "communication" =>
          RosNodeOf(f[1]) = RosNodeOf(e[1]) /\ RosNodeOf(f[2]) = RosNodeOf(e[2])}

(* "The gradient range is exactly [minimum value, max(maximum value, minimum value *
   `MIN_MULTIPLIER`)]" (argsv2.rs:130), of the median latencies of the edges of the
   type, inside the node where that is said: also when the smallest is
   LATENCY_INVALID, the value that stands for no minimum while they are collected.
   The range is only empty when all these latencies are one and its multiple is not
   more (0, or LATENCY_INVALID, or a multiplier of at most one): then the thickness is
   not a number. *)
WeightIsInRange ==
  outcome = "drawn" =>
    \A e \in {e \in DrawnEdges : IsScaled(e)} :
      LET medians == {MedianLatency(f) : f \in Alike(e)}
          least   == SmallestOf(medians)
          most    == LargestOf(medians)
      IN  /\ HasRange(e)
          /\ RangeOf(e) = <<least, IF Multiplied(least) > most THEN Multiplied(least) ELSE most>>
          /\ MedianLatency(e) \in RangeOf(e)[1]..RangeOf(e)[2]
          /\ RangeOf(e)[1] = RangeOf(e)[2] => medians = {least} /\ Multiplied(least) <= least
=============================================================================
