------------------------ MODULE DependencyGraphProofs ------------------------
(***************************************************************************)
(* Proofs about DependencyGraph and the analyses of CallbackAnalyses, for  *)
(* every set of threads, callbacks, publishers and subscribers and every   *)
(* number of events.                                                       *)
(*                                                                         *)
(* The analyses never see the system, only the events of its threads.      *)
(* IInv relates what each of them recorded to what happened: the same      *)
(* instance is active as its thread executes (Linked), a callback has one  *)
(* activation for each of its executions, the running one included         *)
(* (ActivityOK), an edge is activated with the callback it invokes         *)
(* (EdgesOK), it exists when there was a publication (AttributionOK), and  *)
(* what it joins was activated before (DrawableOK).                        *)
(*                                                                         *)
(* RecordsOK says more of the numbers recorded: the executions of a        *)
(* callback start one after the other (OrderedOK), and the delays of the   *)
(* edge to a publisher lead from its first message to its last             *)
(* (PublishedOK).  WakesOK is of the executors that are awake, WeighingOK   *)
(* of the ranges while the edges are gone through one after the other.     *)
(* Each is inductive together with IInv.                                   *)
(***************************************************************************)
EXTENDS DependencyGraph, StatisticsProofs, TLAPS

(* Nothing recorded is of the future, and what a subscriber took was published on
   its topic. *)
MessageOK(s, m) ==
  /\ m.received <= now
  /\ IsKnown(m.publication) =>
       m.publication \in sent /\ TopicOf[m.publication.publisher] = TopicOf[s]

PastOK ==
  /\ \A t \in Thread : running[t] # Nil => running[t].start <= now
  /\ \A m \in sent : m.time <= now
  /\ \A s \in Subscriber : \A i \in 1..Len(taken[s]) : MessageOK(s, taken[s][i])
  /\ \A x \in Item : activity[x] # Nil => activity[x].last <= now
  /\ \A e \in Edge : edges[e] # Nil => edges[e].last <= now
  /\ \A n \in RosNode : IsKnown(lastWake[n]) => lastWake[n] <= now

(* A callback runs on one thread, and as long as there are events the analyses know
   what a thread runs. *)
Linked ==
  /\ \A t, u \in Thread :
       running[t] # Nil /\ running[u] # Nil /\ running[t].callback = running[u].callback => t = u
  /\ outcome = "running" =>
       /\ active = running /\ executing = running
       /\ \A t \in Thread : running[t] # Nil => running[t] \in started

(* The activations of a callback are the starts of its executions, the running one
   included. *)
RunsOn(t, k) == running[t] # Nil /\ running[t].callback = k

ActivityOK(k) ==
  LET a == activity[k]
      x == executions[k]
  IN
  /\ \A t \in Thread : RunsOn(t, k) =>
       /\ a # Nil /\ a.last = running[t].start /\ Len(a.delays) = Len(x)
       /\ x # << >> => a.delays[Len(x)] = a.last - x[Len(x)].start
  /\ (\A t \in Thread : ~RunsOn(t, k)) =>
       /\ x = << >> => a = Nil
       /\ x # << >> => a # Nil /\ a.last = x[Len(x)].start /\ Len(a.delays) = Len(x) - 1
  /\ a # Nil => \A j \in 1..(Len(x) - 1) : a.delays[j] = x[j + 1].start - x[j].start
  /\ Len(durations[k]) = Len(x) /\ \A j \in 1..Len(x) : durations[k][j] = x[j].duration
  /\ CallerOf[k] \in Timer => activity[CallerOf[k]] = a

(* An edge has a delay between any two latencies; that of an invocation is activated
   with the callback. *)
InvocationOK(k) ==
  LET e == edges[<<CallerOf[k], k>>] IN
  /\ e # Nil <=> activity[k] # Nil
  /\ e # Nil => e.delays = activity[k].delays /\ e.last = activity[k].last

EdgesOK ==
  /\ \A e \in Edge : edges[e] # Nil => Len(edges[e].delays) + 1 = Len(edges[e].latencies)
  /\ \A k \in Callback : InvocationOK(k)

AttributionOK ==
  \A p \in Publisher, k \in Callback :
    LET published == \E m \in sent : m.publisher = p /\ m.by = k IN
    /\ <<p, k>> \in dependency <=> published
    /\ edges[<<k, p>>] # Nil <=> published

(* The ends of an edge are nodes, but for services. *)
DrawableOK ==
  /\ \A m \in sent : activity[m.publisher] # Nil
  /\ \A s \in Subscriber : taken[s] # << >> => activity[s] # Nil
  /\ \A e \in Edge : edges[e] # Nil =>
       /\ e[1] \in Service \/ activity[e[1]] # Nil
       /\ activity[e[2]] # Nil

RegisteredOK ==
  /\ now > 0 => Registered = Callback
  /\ now = 0 => sent = {} /\ caused = {} /\ \A t \in Thread : running[t] = Nil
  /\ \A i \in 1..Len(timerDriven) : CallerOf[timerDriven[i]] \in Timer
  /\ \A i \in 1..Len(messageDriven) : CallerOf[messageDriven[i]] \in Subscriber

(* A cause is a publication on the topic of the subscriber that was started. *)
CausedOK ==
  \A c \in caused :
    /\ CallerOf[c[2]] \in Subscriber
    /\ \E p \in Publisher : /\ <<p, c[1]>> \in dependency
                            /\ TopicOf[p] = TopicOf[CallerOf[c[2]]]

FinishedOK ==
  /\ outcome = "running" => callbackGraph = Nil
  /\ callbackGraph # Nil => ~ConstructionPanics /\ callbackGraph = ConstructedGraph

IInv ==
  /\ AnalysisTypeOK /\ PastOK /\ Linked
  /\ \A k \in Callback : ActivityOK(k)
  /\ EdgesOK /\ AttributionOK /\ DrawableOK
  /\ RegisteredOK /\ CausedOK /\ FinishedOK
-----------------------------------------------------------------------------
LEMMA Kinds ==
  /\ Caller \subseteq Subscriber \cup Timer \cup Service
  /\ \A x \in Publisher : x \notin Caller /\ x \notin Callback
  /\ \A k \in Callback : k \notin Publisher /\ k \notin Caller /\ k # Nil
  /\ \A s \in Subscriber : s \notin Timer /\ s \notin Service
  /\ \A w \in Timer : w \notin Service
  /\ \A k \in Callback : CallerOf[k] \in Caller
  /\ Subscriber \subseteq Caller /\ Timer \subseteq Caller /\ Service \subseteq Caller
  BY ExecutionAssumption DEF Caller

LEMMA NilIsNothing ==
  /\ Nil \notin Callback /\ Nil \notin Message /\ Nil \notin Instance
  /\ Nil \notin Activity /\ Nil \notin EdgeData
  /\ Unknown \notin Publication
  BY ExecutionAssumption, DependencyGraphAssumption

LEMMA TimeIsNat ==
  /\ MaxEvents \in Nat /\ LatencyInvalid \in Nat
  /\ \A x : x \in Time <=> x \in Nat /\ x <= MaxEvents
  /\ \A x, y \in Time : x <= y => y - x \in Time
  BY ExecutionAssumption, DependencyGraphAssumption DEF Time

(* A node or an edge that is activated. *)
LEMMA ActivatedFields ==
  ASSUME now' \in Time, NEW a \in Activity \cup {Nil}, a # Nil => a.last <= now'
  PROVE  /\ Activated(a) \in Activity /\ Activated(a) # Nil
         /\ Activated(a).last = now'
         /\ a = Nil => Activated(a).delays = << >>
         /\ a # Nil => Activated(a).delays = Append(a.delays, now' - a.last)
<1>1. PICK ds : ds = IF a = Nil THEN << >> ELSE Append(a.delays, now' - a.last)
  OBVIOUS
<1>2. ds \in Seq(Time)
  <2>1. CASE a = Nil
    BY <1>1, <2>1
  <2>2. CASE a # Nil
    <3>1. a.last \in Time /\ a.delays \in Seq(Time)
      BY <2>2 DEF Activity
    <3>2. now' - a.last \in Time
      BY <2>2, <3>1, TimeIsNat
    <3>. QED
      BY <1>1, <2>2, <3>1, <3>2
  <2>. QED
    BY <2>1, <2>2
<1>3. PICK r : r = [last |-> now', delays |-> ds]
  OBVIOUS
<1>4. Activated(a) = r
  BY <1>1, <1>3 DEF Activated
<1>5. r \in Activity /\ r.last = now' /\ r.delays = ds
  BY <1>2, <1>3 DEF Activity
<1>. QED
  BY <1>1, <1>4, <1>5, NilIsNothing

LEMMA TraversedFields ==
  ASSUME now' \in Time, NEW d \in EdgeData \cup {Nil}, d # Nil => d.last <= now',
         NEW l \in Time \cup {LatencyInvalid}
  PROVE  /\ Traversed(d, l) \in EdgeData /\ Traversed(d, l) # Nil
         /\ Traversed(d, l).last = now'
         /\ d = Nil => Traversed(d, l).delays = << >> /\ Traversed(d, l).latencies = <<l>>
         /\ d # Nil => /\ Traversed(d, l).delays = Append(d.delays, now' - d.last)
                       /\ Traversed(d, l).latencies = Append(d.latencies, l)
<1>1. PICK ds : ds = IF d = Nil THEN << >> ELSE Append(d.delays, now' - d.last)
  OBVIOUS
<1>2. PICK ls : ls = IF d = Nil THEN <<l>> ELSE Append(d.latencies, l)
  OBVIOUS
<1>3. ds \in Seq(Time) /\ ls \in Seq(Time \cup {LatencyInvalid})
  <2>1. CASE d = Nil
    BY <1>1, <1>2, <2>1
  <2>2. CASE d # Nil
    <3>1. /\ d.last \in Time /\ d.delays \in Seq(Time)
          /\ d.latencies \in Seq(Time \cup {LatencyInvalid})
      BY <2>2 DEF EdgeData
    <3>2. now' - d.last \in Time
      BY <2>2, <3>1, TimeIsNat
    <3>. QED
      BY <1>1, <1>2, <2>2, <3>1, <3>2
  <2>. QED
    BY <2>1, <2>2
<1>4. PICK r : r = [last |-> now', delays |-> ds, latencies |-> ls]
  OBVIOUS
<1>5. Traversed(d, l) = r
  BY <1>1, <1>2, <1>4 DEF Traversed
<1>6. r \in EdgeData /\ r.last = now' /\ r.delays = ds /\ r.latencies = ls
  BY <1>3, <1>4 DEF EdgeData
<1>. QED
  BY <1>1, <1>2, <1>5, <1>6, NilIsNothing

LEMMA Ticks ==
  ASSUME AnalysisTypeOK, Tick
  PROVE  now' = now + 1 /\ now' \in Time /\ now \in Nat /\ now < now'
<1>1. now \in Time /\ now < MaxEvents /\ now' = now + 1
  BY DEF AnalysisTypeOK, ExecutionTypeOK, Tick
<1>. QED
  BY <1>1, TimeIsNat

LEMMA ItemKinds ==
  /\ Publisher \subseteq Item /\ Subscriber \subseteq Item /\ Timer \subseteq Item
  /\ Callback \subseteq Item
  BY DEF Item

LEMMA EdgeKinds ==
  /\ \A k \in Callback, p \in Publisher : <<k, p>> \in Edge
  /\ \A p \in Publisher, s \in Subscriber : <<p, s>> \in Edge
  /\ \A k \in Callback : <<CallerOf[k], k>> \in Edge
  BY DEF Edge

-----------------------------------------------------------------------------
(* What the events do, which the analyses always accept. *)
Started(t, k, i) ==
  /\ i \in Instance /\ i # Nil /\ i.callback = k /\ i.start = now'
  /\ running[t] = Nil /\ \A u \in Thread : ~RunsOn(u, k)
  /\ running' = [running EXCEPT ![t] = i]
  /\ active' = [active EXCEPT ![t] = i]
  /\ executing' = [executing EXCEPT ![t] = i]
  /\ started' = started \cup {i}
  /\ activity' = [x \in Item |-> IF x \in ActivatedWith(k) THEN Activated(activity[x])
                                 ELSE activity[x]]
  /\ edges' = [edges EXCEPT ![<<CallerOf[k], k>>] =
                 Traversed(@, InvocationLatency(k, i.message))]
  /\ UNCHANGED <<outcome, sent, awake, executions, dependency, timerDriven, messageDriven,
                 callbackGraph, durations, lastWake>>

(* The message of a started subscription is the oldest it took. *)
GotMessage(k, m) ==
  \/ m = Nil /\ taken' = taken /\ caused' = caused /\ CallerOf[k] \notin Subscriber
  \/ /\ m \in Message /\ m # Nil /\ CallerOf[k] \in Subscriber
     /\ taken[CallerOf[k]] # << >> /\ m = taken[CallerOf[k]][1]
     /\ taken' = [taken EXCEPT ![CallerOf[k]] = Tail(@)]
     /\ caused' = caused \cup {<<l, k>> : l \in {PublishedBy(m)} \ {Nil}}

LEMMA StartIsAccepted ==
  ASSUME IInv, outcome = "running", NEW t \in Thread, NEW k \in Callback, CallbackStart(t, k)
  PROVE  /\ Registered = Callback /\ Tick
         /\ \E i \in Instance : Started(t, k, i) /\ GotMessage(k, i.message)
<1>1. PICK m \in Triggers(k) :
        /\ StartCallback(t, k, m)
        /\ IF AcceptsStart(t) /\ executing[t] = Nil
           THEN /\ CallbackStarts(t, running'[t])
                /\ GraphCallbackStarts(t, running'[t])
                /\ Continue
           ELSE Panic
  BY DEF CallbackStart
<1>2. PICK i : i = [callback |-> k, start |-> now', message |-> m]
  OBVIOUS
<1>3. /\ Tick /\ running[t] = Nil /\ running' = [running EXCEPT ![t] = i]
      /\ \A u \in Thread : ~RunsOn(u, k) /\ UNCHANGED <<sent, awake>>
  BY <1>1, <1>2 DEF StartCallback, RunsOn
<1>4. running'[t] = i
  BY <1>3 DEF IInv, AnalysisTypeOK, ExecutionTypeOK
<1>5. active[t] = Nil /\ executing[t] = Nil
  BY <1>3 DEF IInv, Linked
<1>6. CallbackStarts(t, i) /\ GraphCallbackStarts(t, i) /\ Continue
  BY <1>1, <1>4, <1>5 DEF AcceptsStart
<1>7. /\ m = Nil => CallerOf[k] \notin Subscriber
      /\ m # Nil => /\ m \in Message /\ CallerOf[k] \in Subscriber
                    /\ taken[CallerOf[k]] # << >> /\ m = taken[CallerOf[k]][1]
  <2>1. CASE CallerOf[k] \in Subscriber
    <3>1. taken[CallerOf[k]] \in Seq(Message)
      BY <2>1 DEF IInv, AnalysisTypeOK, ExecutionTypeOK
    <3>2. PICK j \in 1..Len(taken[CallerOf[k]]) \cap {1} : m = taken[CallerOf[k]][j]
      BY <2>1 DEF Triggers
    <3>. QED
      BY <2>1, <3>1, <3>2, NilIsNothing
  <2>2. CASE CallerOf[k] \notin Subscriber
    BY <2>2 DEF Triggers
  <2>. QED
    BY <2>1, <2>2
<1>8. i \in Instance /\ i # Nil /\ i.callback = k /\ i.start = now' /\ i.message = m
  BY <1>2, <1>3, <1>7, Ticks, NilIsNothing DEF Instance, IInv
<1>9. Started(t, k, i)
  BY <1>3, <1>6, <1>8 DEF Started, CallbackStarts, GraphCallbackStarts, Continue
<1>10. GotMessage(k, m)
  <2>1. CASE m = Nil
    BY <1>1, <1>7, <2>1 DEF StartCallback, GotMessage, PublishedBy
  <2>2. CASE m # Nil
    BY <1>1, <1>7, <2>2 DEF StartCallback, GotMessage
  <2>. QED
    BY <2>1, <2>2
<1>11. Registered = Callback
  BY DEF CallbackStart
<1>. QED
  BY <1>3, <1>8, <1>9, <1>10, <1>11

Ended(t, k, i) ==
  /\ i \in Instance /\ i # Nil /\ i = running[t] /\ i.callback = k /\ k \in Callback
  /\ running' = [running EXCEPT ![t] = Nil]
  /\ active' = [active EXCEPT ![t] = Nil]
  /\ executing' = [executing EXCEPT ![t] = Nil]
  /\ started' = started \ {i}
  /\ executions' = [executions EXCEPT ![k] =
       Append(executions[k], [start |-> i.start, duration |-> now' - i.start, thread |-> t])]
  /\ durations' = [durations EXCEPT ![k] = Append(durations[k], now' - activity[k].last)]
  /\ UNCHANGED <<outcome, sent, taken, caused, awake, dependency, timerDriven, messageDriven,
                 callbackGraph, activity, edges, lastWake>>

LEMMA EndIsAccepted ==
  ASSUME IInv, outcome = "running", NEW t \in Thread, CallbackEnd(t)
  PROVE  Registered = Callback /\ Tick /\ \E k \in Callback, i \in Instance : Ended(t, k, i)
<1>1. PICK i, k : i = running[t] /\ k = i.callback
  OBVIOUS
<1>2. /\ Tick /\ i # Nil /\ running' = [running EXCEPT ![t] = Nil]
      /\ UNCHANGED <<sent, taken, caused, awake>>
  BY <1>1 DEF CallbackEnd, EndCallback
<1>3. i \in Instance /\ k \in Callback
  BY <1>1, <1>2 DEF IInv, AnalysisTypeOK, ExecutionTypeOK, Instance
<1>4. i \in started /\ active[t] = i /\ executing[t] = i
  BY <1>1, <1>2 DEF IInv, Linked
<1>5. activity[k] # Nil
  BY <1>1, <1>2, <1>3 DEF IInv, ActivityOK, RunsOn
<1>6. CallbackEnds(t, i) /\ GraphCallbackEnds(t, i) /\ Continue
  BY <1>1, <1>4, <1>5 DEF CallbackEnd, AcceptsEnd, AcceptsGraphEnd
<1>7. Ended(t, k, i)
  BY <1>1, <1>2, <1>3, <1>6
     DEF Ended, CallbackEnds, GraphCallbackEnds, Vacated, DurationSinceLast, Continue
<1>8. Registered = Callback
  <2>1. now # 0
    BY <1>1, <1>2 DEF IInv, RegisteredOK
  <2>2. now \in Nat
    BY <1>2, Ticks DEF IInv
  <2>3. now > 0
    BY <2>1, <2>2
  <2>. QED
    BY <2>3 DEF IInv, RegisteredOK
<1>. QED
  BY <1>2, <1>3, <1>7, <1>8

Publishes(t, p, m) ==
  /\ m \in Publication /\ m.publisher = p /\ m.time = now'
  /\ m.by = (IF running[t] = Nil THEN Nil ELSE running[t].callback)
  /\ sent' = sent \cup {m}
  /\ dependency' = dependency \cup {<<p, k>> : k \in {m.by} \ {Nil}}
  /\ activity' = [activity EXCEPT ![p] = Activated(@)]
  /\ edges' = IF m.by = Nil THEN edges
              ELSE [edges EXCEPT ![<<m.by, p>>] = Traversed(@, now' - running[t].start)]
  /\ UNCHANGED <<outcome, running, taken, caused, awake, executions, started, active, timerDriven,
                 messageDriven, callbackGraph, durations, lastWake, executing>>

LEMMA PublicationIsAccepted ==
  ASSUME IInv, outcome = "running", NEW t \in Thread, NEW p \in Publisher, RmwPublish(t, p)
  PROVE  Registered = Callback /\ Tick /\ \E m \in Publication : Publishes(t, p, m)
<1>1. PICK b : b = IF running[t] = Nil THEN Nil ELSE running[t].callback
  OBVIOUS
<1>2. PICK m : m = [publisher |-> p, time |-> now', by |-> b]
  OBVIOUS
<1>3. /\ Registered = Callback /\ Tick /\ sent' = sent \cup {m}
      /\ UNCHANGED <<running, taken, caused, awake>>
      /\ PublishedOn(t, p) /\ GraphPublication(t, p) /\ Continue
  BY <1>1, <1>2 DEF RmwPublish, Publish
<1>4. active[t] = running[t] /\ executing[t] = running[t] /\ running[t] \in Instance \cup {Nil}
  BY DEF IInv, Linked, AnalysisTypeOK, ExecutionTypeOK
<1>5. b \in Callback \cup {Nil} /\ (b = Nil <=> running[t] = Nil)
  BY <1>1, <1>4, NilIsNothing DEF Instance
<1>6. m \in Publication /\ m.publisher = p /\ m.time = now' /\ m.by = b
  BY <1>2, <1>3, <1>5, Ticks DEF Publication, IInv
<1>7. dependency' = dependency \cup {<<p, k>> : k \in {b} \ {Nil}}
  BY <1>1, <1>3, <1>4, <1>5 DEF PublishedOn
<1>8. edges' = IF b = Nil THEN edges
               ELSE [edges EXCEPT ![<<b, p>>] = Traversed(@, now' - running[t].start)]
  BY <1>1, <1>3, <1>4, <1>5 DEF GraphPublication
<1>9. /\ activity' = [activity EXCEPT ![p] = Activated(@)]
      /\ UNCHANGED <<outcome, durations, lastWake, executing>>
  BY <1>3 DEF GraphPublication, Continue
<1>10. UNCHANGED <<executions, started, active, timerDriven, messageDriven, callbackGraph>>
  BY <1>3 DEF PublishedOn
<1>11. Publishes(t, p, m)
  BY <1>1, <1>3, <1>6, <1>7, <1>8, <1>9, <1>10 DEF Publishes
<1>. QED
  BY <1>3, <1>6, <1>11

Takes(s, m) ==
  /\ m \in Message /\ m.received = now'
  /\ IsKnown(m.publication) =>
       m.publication \in sent /\ TopicOf[m.publication.publisher] = TopicOf[s]
  /\ taken' = [taken EXCEPT ![s] = Append(@, m)]
  /\ activity' = [activity EXCEPT ![s] = Activated(@)]
  /\ edges' = IF IsUnknown(m.publication) THEN edges
              ELSE [edges EXCEPT ![<<m.publication.publisher, s>>] =
                      Traversed(@, now' - m.publication.time)]
  /\ UNCHANGED <<outcome, running, sent, caused, awake, callbackVars, durations, lastWake,
                 executing>>

LEMMA TakeIsAccepted ==
  ASSUME IInv, NEW s \in Subscriber, RmwTake(s)
  PROVE  Registered = Callback /\ Tick /\ \E m \in Message : Takes(s, m)
<1>1. PICK x \in Maybe(sent) : Take(s, x) /\ GraphTake(s, x)
  BY DEF RmwTake
<1>2. PICK m : m = [publication |-> x, received |-> now']
  OBVIOUS
<1>3. Registered = Callback /\ Tick
  BY <1>1 DEF RmwTake, Take
<1>4. x \in Maybe(Publication)
  BY <1>1 DEF IInv, AnalysisTypeOK, ExecutionTypeOK, Maybe
<1>5. m \in Message /\ m.received = now' /\ m.publication = x
  BY <1>2, <1>3, <1>4, Ticks DEF Message, IInv
<1>6. IsKnown(x) => x \in sent /\ TopicOf[x.publisher] = TopicOf[s]
  BY <1>1 DEF Take, Maybe, IsKnown
<1>7. /\ taken' = [taken EXCEPT ![s] = Append(@, m)]
      /\ UNCHANGED <<outcome, running, sent, caused, awake, callbackVars>>
  BY <1>1, <1>2 DEF Take, RmwTake, Continue
<1>8. /\ activity' = [activity EXCEPT ![s] = Activated(@)]
      /\ edges' = IF IsUnknown(x) THEN edges
                  ELSE [edges EXCEPT ![<<x.publisher, s>>] = Traversed(@, now' - x.time)]
      /\ UNCHANGED <<durations, lastWake, executing>>
  BY <1>1 DEF GraphTake
<1>9. Takes(s, m)
  BY <1>5, <1>6, <1>7, <1>8 DEF Takes
<1>. QED
  BY <1>3, <1>5, <1>9

-----------------------------------------------------------------------------
(* Nodes S are activated, or one edge. *)
LEMMA NodesActivated ==
  ASSUME AnalysisTypeOK, PastOK, Tick, NEW S \in SUBSET Item,
         activity' = [x \in Item |-> IF x \in S THEN Activated(activity[x]) ELSE activity[x]]
  PROVE  /\ activity' \in [Item -> Activity \cup {Nil}]
         /\ \A x \in Item : activity'[x] # Nil => activity'[x].last <= now'
         /\ \A x \in Item : activity[x] # Nil => activity'[x] # Nil
         /\ \A x \in Item : x \notin S => activity'[x] = activity[x]
         /\ \A x \in S : /\ activity'[x] = Activated(activity[x])
                         /\ activity'[x] # Nil /\ activity'[x].last = now'
                         /\ activity[x] = Nil => activity'[x].delays = << >>
                         /\ activity[x] # Nil =>
                              activity'[x].delays = Append(activity[x].delays, now' - activity[x].last)
<1>1. now' \in Time /\ now \in Nat /\ now < now' /\ now' \in Nat
  BY Ticks, TimeIsNat
<1>2. ASSUME NEW x \in Item
      PROVE  /\ activity[x] \in Activity \cup {Nil}
             /\ activity[x] # Nil => activity[x].last <= now' /\ activity[x].last \in Nat
  <2>1. activity[x] \in Activity \cup {Nil} /\ (activity[x] # Nil => activity[x].last <= now)
    BY DEF AnalysisTypeOK, PastOK
  <2>2. activity[x] # Nil => activity[x].last \in Nat
    BY <2>1, TimeIsNat DEF Activity
  <2>. QED
    BY <1>1, <2>1, <2>2
<1>3. \A x \in S : /\ activity'[x] = Activated(activity[x])
                   /\ activity'[x] \in Activity
                   /\ activity'[x] # Nil /\ activity'[x].last = now'
                   /\ activity[x] = Nil => activity'[x].delays = << >>
                   /\ activity[x] # Nil =>
                        activity'[x].delays = Append(activity[x].delays, now' - activity[x].last)
  BY <1>1, <1>2, ActivatedFields
<1>4. \A x \in Item : x \notin S => activity'[x] = activity[x]
  OBVIOUS
<1>5. \A x \in Item : activity'[x] \in Activity \cup {Nil}
  BY <1>2, <1>3, <1>4
<1>6. activity' \in [Item -> Activity \cup {Nil}]
  <2>1. activity' = [x \in Item |-> activity'[x]]
    OBVIOUS
  <2>. QED
    BY <1>5, <2>1
<1>7. ASSUME NEW x \in Item, activity'[x] # Nil PROVE activity'[x].last <= now'
  <2>1. CASE x \in S
    <3>1. activity'[x].last = now'
      BY <1>3, <2>1
    <3>. QED
      BY <1>1, <3>1
  <2>2. CASE x \notin S
    <3>1. activity'[x] = activity[x]
      BY <1>4, <2>2
    <3>. QED
      BY <1>2, <1>7, <3>1
  <2>. QED
    BY <2>1, <2>2
<1>8. \A x \in Item : activity[x] # Nil => activity'[x] # Nil
  BY <1>3, <1>4
<1>. QED
  BY <1>3, <1>4, <1>6, <1>7, <1>8

LEMMA NodeActivated ==
  ASSUME AnalysisTypeOK, NEW p \in Item, activity' = [activity EXCEPT ![p] = Activated(@)]
  PROVE  activity' = [x \in Item |-> IF x \in {p} THEN Activated(activity[x]) ELSE activity[x]]
  BY DEF AnalysisTypeOK

LEMMA EdgeTraversed ==
  ASSUME AnalysisTypeOK, PastOK, Tick, NEW e \in Edge, NEW l \in Time \cup {LatencyInvalid},
         edges' = [edges EXCEPT ![e] = Traversed(@, l)]
  PROVE  /\ edges' \in [Edge -> EdgeData \cup {Nil}]
         /\ \A f \in Edge : edges'[f] # Nil => edges'[f].last <= now'
         /\ \A f \in Edge : f # e => edges'[f] = edges[f]
         /\ edges'[e] = Traversed(edges[e], l)
         /\ edges'[e] # Nil /\ edges'[e].last = now'
         /\ edges[e] = Nil => edges'[e].delays = << >> /\ edges'[e].latencies = <<l>>
         /\ edges[e] # Nil => /\ edges'[e].delays = Append(edges[e].delays, now' - edges[e].last)
                              /\ edges'[e].latencies = Append(edges[e].latencies, l)
<1>1. now' \in Time /\ now \in Nat /\ now < now' /\ now' \in Nat
  BY Ticks, TimeIsNat
<1>2. ASSUME NEW f \in Edge
      PROVE  /\ edges[f] \in EdgeData \cup {Nil}
             /\ edges[f] # Nil => edges[f].last <= now' /\ edges[f].last \in Nat
  <2>1. edges[f] \in EdgeData \cup {Nil} /\ (edges[f] # Nil => edges[f].last <= now)
    BY DEF AnalysisTypeOK, PastOK
  <2>2. edges[f] # Nil => edges[f].last \in Nat
    BY <2>1, TimeIsNat DEF EdgeData
  <2>. QED
    BY <1>1, <2>1, <2>2
<1>3. PICK r : r = Traversed(edges[e], l)
  OBVIOUS
<1>4. /\ r \in EdgeData /\ r # Nil /\ r.last = now'
      /\ edges[e] = Nil => r.delays = << >> /\ r.latencies = <<l>>
      /\ edges[e] # Nil => /\ r.delays = Append(edges[e].delays, now' - edges[e].last)
                           /\ r.latencies = Append(edges[e].latencies, l)
  BY <1>1, <1>2, <1>3, TraversedFields
<1>5. /\ edges' = [edges EXCEPT ![e] = r] /\ edges \in [Edge -> EdgeData \cup {Nil}]
  BY <1>3 DEF AnalysisTypeOK
<1>6. /\ edges'[e] = r /\ \A f \in Edge : f # e => edges'[f] = edges[f]
      /\ edges' \in [Edge -> EdgeData \cup {Nil}]
  BY <1>4, <1>5
<1>7. \A f \in Edge : edges'[f] # Nil => edges'[f].last <= now'
  BY <1>1, <1>2, <1>4, <1>6
<1>. QED
  BY <1>3, <1>4, <1>6, <1>7

LEMMA LatencyIsTime ==
  ASSUME AnalysisTypeOK, PastOK, Tick, NEW k \in Callback, NEW m \in Message \cup {Nil},
         m # Nil => m.received <= now
  PROVE  InvocationLatency(k, m) \in Time \cup {LatencyInvalid}
<1>1. now' \in Time /\ now \in Nat /\ now < now' /\ now' \in Nat
  BY Ticks, TimeIsNat
<1>2. PICK wake : wake = lastWake[NodeOf[CallerOf[k]]]
  OBVIOUS
<1>3. wake \in Maybe(Time) /\ (IsKnown(wake) => wake <= now)
  <2>1. NodeOf[CallerOf[k]] \in RosNode
    BY Kinds, ExecutionAssumption
  <2>. QED
    BY <1>2, <2>1 DEF AnalysisTypeOK, PastOK
<1>4. CASE m # Nil
  <2>1. m.received \in Time /\ m.received <= now' /\ now' \in Time
    BY <1>1, <1>4, TimeIsNat DEF Message
  <2>. QED
    BY <1>4, <2>1, TimeIsNat DEF InvocationLatency
<1>5. CASE m = Nil /\ IsKnown(wake)
  <2>1. wake \in Time /\ wake <= now' /\ now' \in Time
    BY <1>1, <1>3, <1>5, TimeIsNat DEF Maybe, IsKnown
  <2>. QED
    BY <1>2, <1>5, <2>1, TimeIsNat DEF InvocationLatency
<1>6. CASE m = Nil /\ ~IsKnown(wake)
  BY <1>2, <1>6 DEF InvocationLatency
<1>. QED
  BY <1>4, <1>5, <1>6

-----------------------------------------------------------------------------
(* Types, and that nothing is of the future. *)
LEMMA LaterIsLater ==
  ASSUME AnalysisTypeOK, Tick
  PROVE  \A x \in Time : x <= now => x <= now'
<1>1. now \in Nat /\ now < now' /\ now' \in Nat
  BY Ticks, TimeIsNat
<1>. QED
  BY <1>1, TimeIsNat

LEMMA MessagesOfPast ==
  ASSUME AnalysisTypeOK, PastOK, Tick, sent \subseteq sent', NEW s \in Subscriber, NEW m \in Message,
         MessageOK(s, m)
  PROVE  MessageOK(s, m)'
<1>1. m.received \in Time
  BY DEF Message
<1>. QED
  BY <1>1, LaterIsLater DEF MessageOK

LEMMA StartedNodes ==
  ASSUME NEW k \in Callback
  PROVE  /\ ActivatedWith(k) \in SUBSET Item /\ k \in ActivatedWith(k)
         /\ CallerOf[k] \in Timer => CallerOf[k] \in ActivatedWith(k)
         /\ \A x \in Item : x \notin ActivatedWith(k) <=> x # k /\ ~(x = CallerOf[k] /\ x \in Timer)
  BY ItemKinds DEF ActivatedWith

LEMMA StartKeepsType ==
  ASSUME IInv, Tick, NEW t \in Thread, NEW k \in Callback, NEW i \in Instance,
         Started(t, k, i), GotMessage(k, i.message)
  PROVE  AnalysisTypeOK' /\ PastOK'
<1>0. AnalysisTypeOK /\ PastOK
  BY DEF IInv
<1>1. now' \in Time /\ now \in Nat /\ now < now' /\ now' \in Nat
  BY <1>0, Ticks, TimeIsNat
<1>2. PICK m : m = i.message
  OBVIOUS
<1>3. m \in Message \cup {Nil} /\ (m # Nil => m.received <= now)
  <2>1. m \in Message \cup {Nil}
    BY <1>2 DEF Instance
  <2>2. ASSUME m # Nil PROVE m.received <= now
    <3>1. /\ CallerOf[k] \in Subscriber /\ taken[CallerOf[k]] # << >>
          /\ m = taken[CallerOf[k]][1]
      BY <1>2, <2>2 DEF GotMessage
    <3>2. taken[CallerOf[k]] \in Seq(Message)
      BY <1>0, <3>1 DEF AnalysisTypeOK, ExecutionTypeOK
    <3>. QED
      BY <1>0, <3>1, <3>2 DEF PastOK, MessageOK
  <2>. QED
    BY <2>1, <2>2
<1>4. PICK l : l = InvocationLatency(k, m)
  OBVIOUS
<1>5. l \in Time \cup {LatencyInvalid}
  BY <1>0, <1>3, <1>4, LatencyIsTime
<1>6. /\ edges' \in [Edge -> EdgeData \cup {Nil}]
      /\ \A f \in Edge : edges'[f] # Nil => edges'[f].last <= now'
  <2>1. edges' = [edges EXCEPT ![<<CallerOf[k], k>>] = Traversed(@, l)]
    BY <1>2, <1>4 DEF Started
  <2>. QED
    BY <1>0, <1>5, <2>1, EdgeKinds, EdgeTraversed
<1>7. /\ activity' \in [Item -> Activity \cup {Nil}]
      /\ \A x \in Item : activity'[x] # Nil => activity'[x].last <= now'
  BY <1>0, NodesActivated, StartedNodes DEF Started
<1>8. taken' \in [Subscriber -> Seq(Message)]
  <2>1. CASE m = Nil
    BY <1>0, <1>2, <2>1 DEF GotMessage, AnalysisTypeOK, ExecutionTypeOK
  <2>2. CASE m # Nil
    <3>1. PICK q : q = taken[CallerOf[k]]
      OBVIOUS
    <3>2. CallerOf[k] \in Subscriber /\ q # << >> /\ taken' = [taken EXCEPT ![CallerOf[k]] = Tail(q)]
      BY <1>2, <2>2, <3>1 DEF GotMessage
    <3>3. taken \in [Subscriber -> Seq(Message)] /\ q \in Seq(Message)
      BY <1>0, <3>1, <3>2 DEF AnalysisTypeOK, ExecutionTypeOK
    <3>4. Tail(q) \in Seq(Message)
      BY <3>2, <3>3
    <3>. QED
      BY <3>2, <3>3, <3>4
  <2>. QED
    BY <2>1, <2>2
<1>9. ASSUME NEW s \in Subscriber, NEW j \in 1..Len(taken'[s])
      PROVE  MessageOK(s, taken[s][j])'
  <2>1. \E h \in 1..Len(taken[s]) : taken'[s][j] = taken[s][h]
    <3>0. taken \in [Subscriber -> Seq(Message)]
      BY <1>0 DEF AnalysisTypeOK, ExecutionTypeOK
    <3>1. CASE taken'[s] = taken[s]
      BY <1>9, <3>1
    <3>2. CASE taken[s] # << >> /\ taken'[s] = Tail(taken[s])
      <4>1. j + 1 \in 1..Len(taken[s]) /\ taken'[s][j] = taken[s][j + 1]
        BY <1>9, <3>0, <3>2
      <4>. QED
        BY <4>1
    <3>. QED
      BY <1>2, <1>3, <3>0, <3>1, <3>2 DEF GotMessage
  <2>2. PICK h \in 1..Len(taken[s]) : taken'[s][j] = taken[s][h]
    BY <2>1
  <2>3. PICK x : x = taken[s][h]
    OBVIOUS
  <2>4. x \in Message /\ MessageOK(s, x)
    BY <1>0, <2>3 DEF AnalysisTypeOK, ExecutionTypeOK, PastOK
  <2>5. MessageOK(s, x)'
    BY <1>0, <2>4, MessagesOfPast DEF Started
  <2>. QED
    BY <2>2, <2>3, <2>5
<1>10. caused' \subseteq Callback \X Callback
  <2>1. m # Nil => PublishedBy(m) \in Callback \cup {Nil}
    BY <1>3 DEF PublishedBy, Message, Publication, Maybe, IsUnknown
  <2>2. caused \subseteq Callback \X Callback
    BY <1>0 DEF AnalysisTypeOK, ExecutionTypeOK
  <2>. QED
    BY <1>2, <2>1, <2>2 DEF GotMessage
<1>11. /\ running' \in [Thread -> Instance \cup {Nil}]
       /\ \A u \in Thread : running'[u] # Nil => running'[u].start <= now'
  <2>1. ASSUME NEW u \in Thread, running[u] # Nil PROVE running[u].start <= now'
    <3>1. running[u].start \in Time /\ running[u].start <= now
      BY <1>0, <2>1 DEF AnalysisTypeOK, ExecutionTypeOK, PastOK, Instance
    <3>. QED
      BY <1>0, <3>1, LaterIsLater
  <2>2. running \in [Thread -> Instance \cup {Nil}]
    BY <1>0 DEF AnalysisTypeOK, ExecutionTypeOK
  <2>3. running' \in [Thread -> Instance \cup {Nil}] /\ running' = [running EXCEPT ![t] = i]
    BY <2>2 DEF Started
  <2>4. i.start <= now'
    BY <1>1 DEF Started
  <2>. QED
    BY <2>1, <2>2, <2>3, <2>4
<1>12. ExecutionTypeOK'
  BY <1>0, <1>1, <1>8, <1>10, <1>11 DEF AnalysisTypeOK, ExecutionTypeOK, Started
<1>13. CallbackTypeOK'
  BY <1>0 DEF AnalysisTypeOK, CallbackTypeOK, Started
<1>14. AnalysisTypeOK'
  BY <1>0, <1>6, <1>7, <1>12, <1>13 DEF AnalysisTypeOK, Started
<1>15. \A x \in sent' : x.time <= now'
  BY <1>0, LaterIsLater DEF AnalysisTypeOK, ExecutionTypeOK, PastOK, Started, Publication
<1>16. \A n \in RosNode : IsKnown(lastWake'[n]) => lastWake'[n] <= now'
  BY <1>0, LaterIsLater DEF AnalysisTypeOK, PastOK, Started, Maybe, IsKnown
<1>. QED
  BY <1>6, <1>7, <1>9, <1>11, <1>14, <1>15, <1>16 DEF PastOK

LEMMA PastIsKept ==
  ASSUME AnalysisTypeOK, PastOK, Tick
  PROVE  /\ \A t \in Thread : running[t] # Nil => running[t].start <= now'
         /\ \A m \in sent : m.time <= now'
         /\ \A x \in Item : activity[x] # Nil => activity[x].last <= now'
         /\ \A e \in Edge : edges[e] # Nil => edges[e].last <= now'
         /\ \A n \in RosNode : IsKnown(lastWake[n]) => lastWake[n] <= now'
<1>1. ASSUME NEW t \in Thread, running[t] # Nil PROVE running[t].start <= now'
  <2>1. running[t].start \in Time /\ running[t].start <= now
    BY <1>1 DEF AnalysisTypeOK, ExecutionTypeOK, PastOK, Instance
  <2>. QED
    BY <2>1, LaterIsLater
<1>2. ASSUME NEW m \in sent PROVE m.time <= now'
  BY LaterIsLater DEF AnalysisTypeOK, ExecutionTypeOK, PastOK, Publication
<1>3. ASSUME NEW x \in Item, activity[x] # Nil PROVE activity[x].last <= now'
  <2>1. activity[x].last \in Time /\ activity[x].last <= now
    BY <1>3 DEF AnalysisTypeOK, PastOK, Activity
  <2>. QED
    BY <2>1, LaterIsLater
<1>4. ASSUME NEW e \in Edge, edges[e] # Nil PROVE edges[e].last <= now'
  <2>1. edges[e].last \in Time /\ edges[e].last <= now
    BY <1>4 DEF AnalysisTypeOK, PastOK, EdgeData
  <2>. QED
    BY <2>1, LaterIsLater
<1>5. ASSUME NEW n \in RosNode, IsKnown(lastWake[n]) PROVE lastWake[n] <= now'
  BY <1>5, LaterIsLater DEF AnalysisTypeOK, PastOK, Maybe, IsKnown
<1>. QED
  BY <1>1, <1>2, <1>3, <1>4, <1>5

LEMMA TakenIsKept ==
  ASSUME AnalysisTypeOK, PastOK, Tick, sent \subseteq sent', taken' = taken
  PROVE  \A s \in Subscriber : \A j \in 1..Len(taken'[s]) : MessageOK(s, taken[s][j])'
<1>1. TAKE s \in Subscriber
<1>2. TAKE j \in 1..Len(taken'[s])
<1>3. PICK m : m = taken[s][j]
  OBVIOUS
<1>4. m \in Message /\ MessageOK(s, m)
  BY <1>3 DEF AnalysisTypeOK, ExecutionTypeOK, PastOK
<1>5. MessageOK(s, m)'
  BY <1>4, MessagesOfPast
<1>. QED
  BY <1>3, <1>5

LEMMA EndKeepsType ==
  ASSUME IInv, Tick, NEW t \in Thread, NEW k \in Callback, NEW i \in Instance, Ended(t, k, i)
  PROVE  AnalysisTypeOK' /\ PastOK'
<1>0. AnalysisTypeOK /\ PastOK
  BY DEF IInv
<1>1. now' \in Time /\ now \in Nat /\ now < now' /\ now' \in Nat
  BY <1>0, Ticks, TimeIsNat
<1>2. /\ i.start \in Time /\ i.start <= now' /\ now' - i.start \in Time
  BY <1>0, <1>1, PastIsKept, TimeIsNat DEF Ended, Instance
<1>3. /\ activity[k] # Nil /\ activity[k].last = i.start
  BY DEF IInv, ActivityOK, RunsOn, Ended
<1>4. /\ running' \in [Thread -> Instance \cup {Nil}]
      /\ active' \in [Thread -> Instance \cup {Nil}]
      /\ executing' \in [Thread -> Instance \cup {Nil}]
      /\ started' \subseteq Instance
  BY <1>0 DEF AnalysisTypeOK, ExecutionTypeOK, CallbackTypeOK, Ended
<1>5. executions' \in [Callback -> Seq(ExecutionData)]
  <2>1. PICK d : d = [start |-> i.start, duration |-> now' - i.start, thread |-> t]
    OBVIOUS
  <2>2. d \in ExecutionData
    BY <1>2, <2>1 DEF ExecutionData
  <2>3. executions \in [Callback -> Seq(ExecutionData)]
    BY <1>0 DEF AnalysisTypeOK, CallbackTypeOK
  <2>4. executions' = [executions EXCEPT ![k] = Append(executions[k], d)]
    BY <2>1 DEF Ended
  <2>. QED
    BY <2>2, <2>3, <2>4
<1>6. durations' \in [Callback -> Seq(Time)]
  <2>1. durations \in [Callback -> Seq(Time)]
    BY <1>0 DEF AnalysisTypeOK
  <2>2. durations' = [durations EXCEPT ![k] = Append(durations[k], now' - i.start)]
    BY <1>3 DEF Ended
  <2>. QED
    BY <1>2, <2>1, <2>2
<1>7. AnalysisTypeOK'
  BY <1>0, <1>1, <1>4, <1>5, <1>6 DEF AnalysisTypeOK, ExecutionTypeOK, CallbackTypeOK, Ended
<1>8. \A u \in Thread : running'[u] # Nil => running'[u].start <= now'
  BY <1>0, PastIsKept DEF AnalysisTypeOK, ExecutionTypeOK, Ended
<1>9. \A s \in Subscriber : \A j \in 1..Len(taken'[s]) : MessageOK(s, taken[s][j])'
  BY <1>0, TakenIsKept DEF Ended
<1>10. /\ \A m \in sent' : m.time <= now'
       /\ \A x \in Item : activity'[x] # Nil => activity'[x].last <= now'
       /\ \A e \in Edge : edges'[e] # Nil => edges'[e].last <= now'
       /\ \A n \in RosNode : IsKnown(lastWake'[n]) => lastWake'[n] <= now'
  BY <1>0, PastIsKept DEF Ended
<1>. QED
  BY <1>7, <1>8, <1>9, <1>10 DEF PastOK

(* The edge of a publication in a callback. *)
LEMMA PublicationEdge ==
  ASSUME IInv, Tick, NEW t \in Thread, NEW p \in Publisher, NEW m \in Publication,
         Publishes(t, p, m), m.by # Nil
  PROVE  /\ m.by \in Callback /\ RunsOn(t, m.by) /\ <<m.by, p>> \in Edge
         /\ now' - running[t].start \in Time
         /\ edges' = [edges EXCEPT ![<<m.by, p>>] = Traversed(@, now' - running[t].start)]
<1>0. AnalysisTypeOK /\ PastOK
  BY DEF IInv
<1>1. now' \in Time
  BY <1>0, Ticks
<1>2. m.by \in Callback /\ RunsOn(t, m.by)
  BY DEF Publishes, Publication, RunsOn
<1>3. running[t].start \in Time /\ running[t].start <= now'
  BY <1>0, <1>2, PastIsKept DEF AnalysisTypeOK, ExecutionTypeOK, Instance, RunsOn
<1>4. now' - running[t].start \in Time
  BY <1>1, <1>3, TimeIsNat
<1>. QED
  BY <1>2, <1>4, EdgeKinds DEF Publishes

LEMMA PublicationKeepsType ==
  ASSUME IInv, Tick, NEW t \in Thread, NEW p \in Publisher, NEW m \in Publication,
         Publishes(t, p, m)
  PROVE  AnalysisTypeOK' /\ PastOK'
<1>0. AnalysisTypeOK /\ PastOK
  BY DEF IInv
<1>1. now' \in Time /\ now \in Nat /\ now < now' /\ now' \in Nat
  BY <1>0, Ticks, TimeIsNat
<1>2. /\ activity' \in [Item -> Activity \cup {Nil}]
      /\ \A x \in Item : activity'[x] # Nil => activity'[x].last <= now'
  <2>1. p \in Item
    BY ItemKinds
  <2>2. activity' = [x \in Item |-> IF x \in {p} THEN Activated(activity[x]) ELSE activity[x]]
    BY <1>0, <2>1, NodeActivated DEF Publishes
  <2>. QED
    BY <1>0, <2>1, <2>2, NodesActivated
<1>3. /\ edges' \in [Edge -> EdgeData \cup {Nil}]
      /\ \A e \in Edge : edges'[e] # Nil => edges'[e].last <= now'
  <2>1. CASE m.by = Nil
    BY <1>0, <2>1, PastIsKept DEF Publishes, AnalysisTypeOK
  <2>2. CASE m.by # Nil
    BY <1>0, <2>2, PublicationEdge, EdgeTraversed
  <2>. QED
    BY <2>1, <2>2
<1>4. dependency' \subseteq Publisher \X Callback
  BY <1>0 DEF AnalysisTypeOK, CallbackTypeOK, Publishes, Publication
<1>5. AnalysisTypeOK'
  BY <1>0, <1>1, <1>2, <1>3, <1>4 DEF AnalysisTypeOK, ExecutionTypeOK, CallbackTypeOK, Publishes
<1>6. \A x \in sent' : x.time <= now'
  BY <1>0, <1>1, PastIsKept DEF Publishes
<1>7. \A s \in Subscriber : \A j \in 1..Len(taken'[s]) : MessageOK(s, taken[s][j])'
  BY <1>0, TakenIsKept DEF Publishes
<1>8. /\ \A u \in Thread : running'[u] # Nil => running'[u].start <= now'
      /\ \A n \in RosNode : IsKnown(lastWake'[n]) => lastWake'[n] <= now'
  BY <1>0, PastIsKept DEF Publishes
<1>. QED
  BY <1>2, <1>3, <1>5, <1>6, <1>7, <1>8 DEF PastOK

(* The edge of a message that was taken. *)
LEMMA TakeEdge ==
  ASSUME IInv, Tick, NEW s \in Subscriber, NEW m \in Message, Takes(s, m),
         ~IsUnknown(m.publication)
  PROVE  /\ m.publication \in sent /\ m.publication.publisher \in Publisher
         /\ <<m.publication.publisher, s>> \in Edge
         /\ now' - m.publication.time \in Time
         /\ edges' = [edges EXCEPT ![<<m.publication.publisher, s>>] =
                        Traversed(@, now' - m.publication.time)]
<1>0. AnalysisTypeOK /\ PastOK
  BY DEF IInv
<1>1. now' \in Time
  BY <1>0, Ticks
<1>2. m.publication \in sent
  BY DEF Takes, IsKnown, IsUnknown
<1>3. /\ m.publication.publisher \in Publisher /\ m.publication.time \in Time
      /\ m.publication.time <= now'
  BY <1>0, <1>2, PastIsKept DEF AnalysisTypeOK, ExecutionTypeOK, Publication
<1>4. now' - m.publication.time \in Time
  BY <1>1, <1>3, TimeIsNat
<1>. QED
  BY <1>2, <1>3, <1>4, EdgeKinds DEF Takes

LEMMA TakeKeepsType ==
  ASSUME IInv, Tick, NEW s \in Subscriber, NEW m \in Message, Takes(s, m)
  PROVE  AnalysisTypeOK' /\ PastOK'
<1>0. AnalysisTypeOK /\ PastOK
  BY DEF IInv
<1>1. now' \in Time /\ now \in Nat /\ now < now' /\ now' \in Nat
  BY <1>0, Ticks, TimeIsNat
<1>2. /\ activity' \in [Item -> Activity \cup {Nil}]
      /\ \A x \in Item : activity'[x] # Nil => activity'[x].last <= now'
  <2>1. s \in Item
    BY ItemKinds
  <2>2. activity' = [x \in Item |-> IF x \in {s} THEN Activated(activity[x]) ELSE activity[x]]
    BY <1>0, <2>1, NodeActivated DEF Takes
  <2>. QED
    BY <1>0, <2>1, <2>2, NodesActivated
<1>3. /\ edges' \in [Edge -> EdgeData \cup {Nil}]
      /\ \A e \in Edge : edges'[e] # Nil => edges'[e].last <= now'
  <2>1. CASE IsUnknown(m.publication)
    BY <1>0, <2>1, PastIsKept DEF Takes, AnalysisTypeOK
  <2>2. CASE ~IsUnknown(m.publication)
    BY <1>0, <2>2, TakeEdge, EdgeTraversed
  <2>. QED
    BY <2>1, <2>2
<1>4. /\ taken \in [Subscriber -> Seq(Message)] /\ taken[s] \in Seq(Message)
      /\ taken' = [taken EXCEPT ![s] = Append(taken[s], m)]
  BY <1>0 DEF AnalysisTypeOK, ExecutionTypeOK, Takes
<1>5. taken' \in [Subscriber -> Seq(Message)]
  BY <1>4
<1>6. CallbackTypeOK'
  BY <1>0 DEF AnalysisTypeOK, CallbackTypeOK, Takes, callbackVars
<1>7. AnalysisTypeOK'
  BY <1>0, <1>1, <1>2, <1>3, <1>5, <1>6 DEF AnalysisTypeOK, ExecutionTypeOK, Takes
<1>8. ASSUME NEW u \in Subscriber, NEW j \in 1..Len(taken'[u])
      PROVE  MessageOK(u, taken[u][j])'
  <2>1. PICK x : x = taken'[u][j]
    OBVIOUS
  <2>2. x \in Message /\ (MessageOK(u, x) \/ (x = m /\ u = s))
    <3>1. CASE u # s
      BY <1>0, <1>4, <1>8, <2>1, <3>1 DEF AnalysisTypeOK, ExecutionTypeOK, PastOK
    <3>2. CASE u = s /\ j = Len(taken[s]) + 1
      BY <1>4, <2>1, <3>2
    <3>3. CASE u = s /\ j # Len(taken[s]) + 1
      <4>1. j \in 1..Len(taken[s]) /\ x = taken[s][j]
        BY <1>4, <1>8, <2>1, <3>3
      <4>. QED
        BY <1>0, <1>4, <3>3, <4>1 DEF PastOK
    <3>. QED
      BY <3>1, <3>2, <3>3
  <2>3. MessageOK(u, x)'
    <3>1. CASE MessageOK(u, x)
      BY <1>0, <2>2, <3>1, MessagesOfPast DEF Takes
    <3>2. CASE x = m /\ u = s
      BY <1>1, <3>2 DEF Takes, MessageOK
    <3>. QED
      BY <2>2, <3>1, <3>2
  <2>. QED
    BY <2>1, <2>3
<1>9. /\ \A u \in Thread : running'[u] # Nil => running'[u].start <= now'
      /\ \A x \in sent' : x.time <= now'
      /\ \A n \in RosNode : IsKnown(lastWake'[n]) => lastWake'[n] <= now'
  BY <1>0, PastIsKept DEF Takes
<1>. QED
  BY <1>2, <1>3, <1>7, <1>8, <1>9 DEF PastOK

LEMMA WakeUpKeepsType ==
  ASSUME IInv, NEW n \in RosNode, SpinWake(n)
  PROVE  AnalysisTypeOK' /\ PastOK'
<1>0. AnalysisTypeOK /\ PastOK
  BY DEF IInv
<1>1. /\ Tick /\ lastWake' = [lastWake EXCEPT ![n] = now']
      /\ UNCHANGED <<outcome, running, sent, taken, caused, callbackVars, activity, durations,
                     edges, executing>>
      /\ awake' \subseteq RosNode
  BY <1>0 DEF SpinWake, WakeUp, GraphWakeUp, Continue, AnalysisTypeOK, ExecutionTypeOK
<1>2. now' \in Time /\ now \in Nat /\ now < now' /\ now' \in Nat
  BY <1>0, <1>1, Ticks, TimeIsNat
<1>3. lastWake' \in [RosNode -> Maybe(Time)]
  BY <1>0, <1>1, <1>2 DEF AnalysisTypeOK, Maybe
<1>4. CallbackTypeOK'
  BY <1>0, <1>1 DEF AnalysisTypeOK, CallbackTypeOK, callbackVars
<1>5. AnalysisTypeOK'
  BY <1>0, <1>1, <1>2, <1>3, <1>4 DEF AnalysisTypeOK, ExecutionTypeOK
<1>6. \A s \in Subscriber : \A j \in 1..Len(taken'[s]) : MessageOK(s, taken[s][j])'
  BY <1>0, <1>1, TakenIsKept
<1>7. /\ \A u \in Thread : running'[u] # Nil => running'[u].start <= now'
      /\ \A x \in sent' : x.time <= now'
      /\ \A x \in Item : activity'[x] # Nil => activity'[x].last <= now'
      /\ \A e \in Edge : edges'[e] # Nil => edges'[e].last <= now'
  BY <1>0, <1>1, PastIsKept
<1>8. ASSUME NEW o \in RosNode, IsKnown(lastWake'[o]) PROVE lastWake'[o] <= now'
  <2>1. CASE o = n
    BY <1>0, <1>1, <1>2, <2>1 DEF AnalysisTypeOK
  <2>2. CASE o # n
    <3>1. lastWake'[o] = lastWake[o]
      BY <1>0, <1>1, <2>2 DEF AnalysisTypeOK
    <3>. QED
      BY <1>0, <1>1, <1>8, <3>1, PastIsKept
  <2>. QED
    BY <2>1, <2>2
<1>. QED
  BY <1>5, <1>6, <1>7, <1>8 DEF PastOK

LEMMA SpinEndKeepsType ==
  ASSUME IInv, outcome = "running", NEW n \in RosNode, SpinEnd(n)
  PROVE  AnalysisTypeOK' /\ PastOK'
<1>0. AnalysisTypeOK /\ PastOK
  BY DEF IInv
<1>1. /\ Tick
      /\ UNCHANGED <<running, sent, taken, caused, callbackVars, activity, durations,
                     edges, lastWake, executing>>
      /\ awake' \subseteq RosNode /\ outcome' \in {"running", "panicked"}
  BY <1>0 DEF SpinEnd, EndSpin, Panic, graphVars, Continue, AnalysisTypeOK, ExecutionTypeOK
<1>2. now' \in Time
  BY <1>0, <1>1, Ticks
<1>3. CallbackTypeOK'
  BY <1>0, <1>1 DEF AnalysisTypeOK, CallbackTypeOK, callbackVars
<1>4. AnalysisTypeOK'
  BY <1>0, <1>1, <1>2, <1>3 DEF AnalysisTypeOK, ExecutionTypeOK
<1>5. \A s \in Subscriber : \A j \in 1..Len(taken'[s]) : MessageOK(s, taken[s][j])'
  BY <1>0, <1>1, TakenIsKept
<1>. QED
  BY <1>0, <1>1, <1>4, <1>5, PastIsKept DEF PastOK

(* While time stands still: a callback is registered, or the trace has ended. *)
LEMMA PastIsPast ==
  ASSUME PastOK, UNCHANGED <<executionVars, activity, edges, lastWake>>
  PROVE  PastOK'
<1>1. UNCHANGED <<now, running, sent, taken, activity, edges, lastWake>>
  BY DEF executionVars
<1>. QED
  BY <1>1 DEF PastOK, MessageOK

LEMMA RegisterKeepsType ==
  ASSUME IInv, CallbackRegister
  PROVE  AnalysisTypeOK' /\ PastOK'
<1>0. AnalysisTypeOK /\ PastOK
  BY DEF IInv
<1>1. PICK k \in Callback : CallbackAppears(k)
  BY DEF CallbackRegister, Registered
<1>2. UNCHANGED <<outcome, executionVars, graphVars>>
  BY DEF CallbackRegister, Continue
<1>3. timerDriven' \in Seq(Callback) /\ messageDriven' \in Seq(Callback)
  BY <1>0, <1>1 DEF AnalysisTypeOK, CallbackTypeOK, CallbackAppears
<1>4. CallbackTypeOK'
  BY <1>0, <1>1, <1>3 DEF AnalysisTypeOK, CallbackTypeOK, CallbackAppears
<1>5. ExecutionTypeOK'
  BY <1>0, <1>2 DEF AnalysisTypeOK, ExecutionTypeOK, executionVars
<1>6. AnalysisTypeOK'
  BY <1>0, <1>2, <1>4, <1>5 DEF AnalysisTypeOK, graphVars
<1>. QED
  BY <1>0, <1>2, <1>6, PastIsPast DEF graphVars

LEMMA GraphNodesOf ==
  ASSUME AnalysisTypeOK
  PROVE  /\ GraphNodes \in Seq(Callback)
         /\ Len(GraphNodes) = Len(timerDriven) + Len(messageDriven)
         /\ \A i \in 1..Len(timerDriven) : GraphNodes[i] = timerDriven[i]
         /\ \A i \in 1..Len(messageDriven) :
              GraphNodes[Len(timerDriven) + i] = messageDriven[i]
  BY DEF AnalysisTypeOK, CallbackTypeOK, GraphNodes

LEMMA GraphIsTyped ==
  ASSUME AnalysisTypeOK
  PROVE  ConstructedGraph
           \in [nodes: Seq(Callback), edges: SUBSET (Nat \X Nat), sources: SUBSET Nat]
<1>1. /\ GraphNodes \in Seq(Callback)
      /\ timerDriven \in Seq(Callback) /\ messageDriven \in Seq(Callback)
  BY GraphNodesOf DEF AnalysisTypeOK, CallbackTypeOK
<1>2. DOMAIN timerDriven \subseteq Nat /\ DOMAIN GraphNodes \subseteq Nat
  BY <1>1
<1>3. \A x : NodesOnTopic(x) \subseteq Nat
  BY <1>1 DEF NodesOnTopic
<1>4. PICK es : es = UNION {{i \in DOMAIN GraphNodes : GraphNodes[i] = d[2]}
                              \X NodesOnTopic(TopicOf[d[1]]) : d \in dependency}
  OBVIOUS
<1>5. es \subseteq Nat \X Nat
  BY <1>2, <1>3, <1>4
<1>6. ConstructedGraph = [nodes |-> GraphNodes, sources |-> DOMAIN timerDriven, edges |-> es]
  BY <1>4 DEF ConstructedGraph
<1>. QED
  BY <1>1, <1>2, <1>5, <1>6

LEMMA FinalizeKeepsType ==
  ASSUME IInv, Finalize
  PROVE  AnalysisTypeOK' /\ PastOK'
<1>0. AnalysisTypeOK /\ PastOK
  BY DEF IInv
<1>1. UNCHANGED <<executionVars, activity, durations, edges, lastWake>>
  BY DEF Finalize, Panic, graphVars
<1>2. ExecutionTypeOK' /\ PastOK'
  BY <1>0, <1>1, PastIsPast DEF AnalysisTypeOK, ExecutionTypeOK, executionVars
<1>3. CASE Panic
  <2>1. UNCHANGED <<executions, started, active, dependency, timerDriven, messageDriven,
                    callbackGraph, executing>> /\ outcome' = "panicked"
    BY <1>3 DEF Panic, callbackVars, graphVars
  <2>. QED
    BY <1>0, <1>1, <1>2, <2>1 DEF AnalysisTypeOK, CallbackTypeOK
<1>4. CASE outcome' = "finalized" /\ CallbacksFinalized /\ executing' = [t \in Thread |-> Nil]
  <2>1. callbackGraph' = ConstructedGraph /\ started' = {}
    BY <1>4 DEF CallbacksFinalized
  <2>2. CallbackTypeOK'
    BY <1>0, <1>4, <2>1, GraphIsTyped DEF AnalysisTypeOK, CallbackTypeOK, CallbacksFinalized
  <2>. QED
    BY <1>0, <1>1, <1>2, <1>4, <2>2 DEF AnalysisTypeOK
<1>. QED
  BY <1>3, <1>4 DEF Finalize

LEMMA StillKeepsType ==
  ASSUME IInv, UNCHANGED <<executionVars, callbackVars, graphVars>>,
         outcome' \in {outcome, "drawn", "undrawable"}
  PROVE  AnalysisTypeOK' /\ PastOK'
<1>0. AnalysisTypeOK /\ PastOK
  BY DEF IInv
<1>1. UNCHANGED <<now, running, sent, taken, caused, awake, executions, started, active, dependency,
                  timerDriven, messageDriven, callbackGraph, activity, durations, edges,
                  lastWake, executing>>
  BY DEF executionVars, callbackVars, graphVars
<1>. QED
  BY <1>0, <1>1, PastIsPast DEF AnalysisTypeOK, ExecutionTypeOK, CallbackTypeOK

-----------------------------------------------------------------------------
(* What the threads run, and the executions of a callback. *)
LEMMA LinkIsKept ==
  ASSUME Linked, running' = running,
         outcome' = "running" =>
           outcome = "running" /\ UNCHANGED <<active, executing, started>>
  PROVE  Linked'
  BY DEF Linked

LEMMA StartKeepsLink ==
  ASSUME IInv, outcome = "running", NEW t \in Thread, NEW k \in Callback, NEW i \in Instance,
         Started(t, k, i)
  PROVE  Linked'
<1>1. /\ running \in [Thread -> Instance \cup {Nil}]
      /\ active = running /\ executing = running
      /\ \A u \in Thread : running[u] # Nil => running[u] \in started
      /\ \A u, v \in Thread :
           running[u] # Nil /\ running[v] # Nil /\ running[u].callback = running[v].callback
             => u = v
  BY DEF IInv, AnalysisTypeOK, ExecutionTypeOK, Linked
<1>2. /\ running' = [running EXCEPT ![t] = i] /\ started' = started \cup {i}
      /\ active' = [active EXCEPT ![t] = i] /\ executing' = [executing EXCEPT ![t] = i]
      /\ i.callback = k
      /\ \A u \in Thread : running[u] # Nil => running[u].callback # k
  BY DEF Started, RunsOn
<1>3. active' = running' /\ executing' = running'
  BY <1>1, <1>2
<1>4. \A u \in Thread : running'[u] = IF u = t THEN i ELSE running[u]
  BY <1>1, <1>2
<1>5. \A u \in Thread : running'[u] # Nil => running'[u] \in started'
  BY <1>1, <1>2, <1>4
<1>6. \A u, v \in Thread :
        running'[u] # Nil /\ running'[v] # Nil /\ running'[u].callback = running'[v].callback
          => u = v
  BY <1>1, <1>2, <1>4
<1>. QED
  BY <1>3, <1>5, <1>6 DEF Linked

LEMMA EndKeepsLink ==
  ASSUME IInv, outcome = "running", NEW t \in Thread, NEW k \in Callback, NEW i \in Instance,
         Ended(t, k, i)
  PROVE  Linked'
<1>1. /\ running \in [Thread -> Instance \cup {Nil}]
      /\ active = running /\ executing = running
      /\ \A u \in Thread : running[u] # Nil => running[u] \in started
      /\ \A u, v \in Thread :
           running[u] # Nil /\ running[v] # Nil /\ running[u].callback = running[v].callback
             => u = v
  BY DEF IInv, AnalysisTypeOK, ExecutionTypeOK, Linked
<1>2. /\ running' = [running EXCEPT ![t] = Nil] /\ started' = started \ {i}
      /\ active' = [active EXCEPT ![t] = Nil] /\ executing' = [executing EXCEPT ![t] = Nil]
      /\ i = running[t] /\ i # Nil
  BY DEF Ended
<1>3. active' = running' /\ executing' = running'
  BY <1>1, <1>2
<1>4. \A u \in Thread : running'[u] = IF u = t THEN Nil ELSE running[u]
  BY <1>1, <1>2
<1>5. ASSUME NEW u \in Thread, running'[u] # Nil PROVE running'[u] \in started'
  <2>1. u # t /\ running'[u] = running[u]
    BY <1>4, <1>5
  <2>2. running[u] # i
    BY <1>1, <1>2, <1>5, <2>1
  <2>. QED
    BY <1>1, <1>2, <1>5, <2>1, <2>2
<1>6. \A u, v \in Thread :
        running'[u] # Nil /\ running'[v] # Nil /\ running'[u].callback = running'[v].callback
          => u = v
  BY <1>1, <1>4
<1>. QED
  BY <1>3, <1>5, <1>6 DEF Linked

(* What concerns one callback. *)
SameRecord(k) ==
  /\ \A t \in Thread : /\ RunsOn(t, k)' <=> RunsOn(t, k)
                       /\ RunsOn(t, k) => running'[t].start = running[t].start
  /\ activity'[k] = activity[k]
  /\ CallerOf[k] \in Timer => activity'[CallerOf[k]] = activity[CallerOf[k]]
  /\ executions'[k] = executions[k] /\ durations'[k] = durations[k]

LEMMA RecordIsKept ==
  ASSUME NEW k \in Callback, ActivityOK(k), SameRecord(k)
  PROVE  ActivityOK(k)'
  BY DEF ActivityOK, SameRecord

LEMMA InvocationIsKept ==
  ASSUME NEW k \in Callback, InvocationOK(k), activity'[k] = activity[k],
         edges'[<<CallerOf[k], k>>] = edges[<<CallerOf[k], k>>]
  PROVE  InvocationOK(k)'
  BY DEF InvocationOK

LEMMA StartKeepsRecords ==
  ASSUME IInv, Tick, NEW t \in Thread, NEW k \in Callback, NEW i \in Instance, Started(t, k, i)
  PROVE  \A l \in Callback : ActivityOK(l)'
<1>0. AnalysisTypeOK /\ PastOK
  BY DEF IInv
<1>1. /\ running \in [Thread -> Instance \cup {Nil}] /\ running' = [running EXCEPT ![t] = i]
      /\ i.callback = k /\ i # Nil /\ i.start = now' /\ running[t] = Nil
      /\ \A u \in Thread : ~RunsOn(u, k)
      /\ executions' = executions /\ durations' = durations
  BY <1>0 DEF Started, AnalysisTypeOK, ExecutionTypeOK
<1>2. \A u \in Thread : running'[u] = IF u = t THEN i ELSE running[u]
  BY <1>1
<1>3. /\ \A x \in Item : x \notin ActivatedWith(k) => activity'[x] = activity[x]
      /\ \A x \in ActivatedWith(k) :
           /\ activity'[x] = Activated(activity[x])
           /\ activity'[x] # Nil /\ activity'[x].last = now'
           /\ activity[x] = Nil => activity'[x].delays = << >>
           /\ activity[x] # Nil =>
                activity'[x].delays = Append(activity[x].delays, now' - activity[x].last)
  BY <1>0, NodesActivated, StartedNodes DEF Started
<1>4. ASSUME NEW l \in Callback, l # k PROVE ActivityOK(l)'
  <2>1. ActivityOK(l) /\ l \in Item
    BY ItemKinds DEF IInv
  <2>2. l \notin ActivatedWith(k)
    BY <1>4, <2>1, StartedNodes, Kinds
  <2>3. CallerOf[l] \in Timer => CallerOf[l] \in Item /\ CallerOf[l] \notin ActivatedWith(k)
    <3>1. CallerOf[l] # k /\ CallerOf[l] # CallerOf[k]
      BY <1>4, Kinds, ExecutionAssumption
    <3>. QED
      BY <3>1, StartedNodes, ItemKinds
  <2>4. \A u \in Thread : /\ RunsOn(u, l)' <=> RunsOn(u, l)
                          /\ RunsOn(u, l) => running'[u].start = running[u].start
    BY <1>1, <1>2, <1>4 DEF RunsOn
  <2>5. SameRecord(l)
    BY <1>1, <1>3, <2>1, <2>2, <2>3, <2>4 DEF SameRecord
  <2>. QED
    BY <2>1, <2>5, RecordIsKept
<1>5. ActivityOK(k)'
  <2>1. PICK a, b, x : a = activity[k] /\ b = activity'[k] /\ x = executions[k]
    OBVIOUS
  <2>2. /\ x = << >> => a = Nil
        /\ x # << >> => a # Nil /\ a.last = x[Len(x)].start /\ Len(a.delays) = Len(x) - 1
        /\ a # Nil => \A j \in 1..(Len(x) - 1) : a.delays[j] = x[j + 1].start - x[j].start
        /\ Len(durations[k]) = Len(x) /\ \A j \in 1..Len(x) : durations[k][j] = x[j].duration
        /\ CallerOf[k] \in Timer => activity[CallerOf[k]] = a
    BY <1>1, <2>1 DEF IInv, ActivityOK
  <2>3. /\ b # Nil /\ b.last = now'
        /\ a = Nil => b.delays = << >>
        /\ a # Nil => b.delays = Append(a.delays, now' - a.last)
    BY <1>3, <2>1, StartedNodes
  <2>4. x \in Seq(ExecutionData) /\ a \in Activity \cup {Nil}
    BY <1>0, <2>1, ItemKinds DEF AnalysisTypeOK, CallbackTypeOK
  <2>5. /\ Len(b.delays) = Len(x)
        /\ x # << >> => b.delays[Len(x)] = b.last - x[Len(x)].start
        /\ \A j \in 1..(Len(x) - 1) : b.delays[j] = x[j + 1].start - x[j].start
    <3>1. CASE x = << >>
      BY <2>2, <2>3, <3>1
    <3>2. CASE x # << >>
      <4>1. /\ a.delays \in Seq(Time) /\ Len(a.delays) = Len(x) - 1 /\ Len(x) \in Nat
            /\ b.delays = Append(a.delays, now' - a.last)
        BY <2>2, <2>3, <2>4, <3>2 DEF Activity
      <4>2. Len(b.delays) = Len(x) /\ b.delays[Len(x)] = now' - a.last
        BY <4>1
      <4>3. \A j \in 1..(Len(x) - 1) : b.delays[j] = a.delays[j]
        BY <4>1
      <4>. QED
        BY <2>2, <2>3, <3>2, <4>2, <4>3
    <3>. QED
      BY <3>1, <3>2
  <2>6. \A u \in Thread : RunsOn(u, k)' => running'[u].start = b.last
    BY <1>1, <1>2, <2>3 DEF RunsOn
  <2>7. RunsOn(t, k)'
    BY <1>1, <1>2 DEF RunsOn
  <2>8. CallerOf[k] \in Timer => activity'[CallerOf[k]] = b
    <3>1. ASSUME CallerOf[k] \in Timer PROVE activity'[CallerOf[k]] = b
      <4>1. activity'[CallerOf[k]] = Activated(activity[CallerOf[k]]) /\ b = Activated(a)
        BY <1>3, <2>1, <3>1, StartedNodes
      <4>2. activity[CallerOf[k]] = a
        BY <2>2, <3>1
      <4>. QED
        BY <4>1, <4>2
    <3>. QED
      BY <3>1
  <2>9. executions'[k] = x /\ durations'[k] = durations[k]
    BY <1>1, <2>1
  <2>. QED
    BY <2>1, <2>2, <2>3, <2>5, <2>6, <2>7, <2>8, <2>9 DEF ActivityOK
<1>. QED
  BY <1>4, <1>5

LEMMA EndKeepsRecords ==
  ASSUME IInv, Tick, NEW t \in Thread, NEW k \in Callback, NEW i \in Instance, Ended(t, k, i)
  PROVE  \A l \in Callback : ActivityOK(l)'
<1>0. AnalysisTypeOK /\ PastOK /\ Linked
  BY DEF IInv
<1>1. /\ running \in [Thread -> Instance \cup {Nil}] /\ running' = [running EXCEPT ![t] = Nil]
      /\ i.callback = k /\ i = running[t] /\ RunsOn(t, k) /\ activity' = activity
  BY <1>0 DEF Ended, AnalysisTypeOK, ExecutionTypeOK, RunsOn
<1>2. \A u \in Thread : running'[u] = IF u = t THEN Nil ELSE running[u]
  BY <1>1
<1>3. PICK d : d = [start |-> i.start, duration |-> now' - i.start, thread |-> t]
  OBVIOUS
<1>4. PICK a, x : a = activity[k] /\ x = executions[k]
  OBVIOUS
<1>5. /\ a # Nil /\ a.last = i.start /\ Len(a.delays) = Len(x)
      /\ x # << >> => a.delays[Len(x)] = a.last - x[Len(x)].start
      /\ \A j \in 1..(Len(x) - 1) : a.delays[j] = x[j + 1].start - x[j].start
      /\ Len(durations[k]) = Len(x) /\ \A j \in 1..Len(x) : durations[k][j] = x[j].duration
      /\ CallerOf[k] \in Timer => activity[CallerOf[k]] = a
  BY <1>1, <1>4 DEF IInv, ActivityOK
<1>6. /\ executions \in [Callback -> Seq(ExecutionData)] /\ durations \in [Callback -> Seq(Time)]
      /\ executions' = [executions EXCEPT ![k] = Append(x, d)]
      /\ durations' = [durations EXCEPT ![k] = Append(durations[k], d.duration)]
      /\ d.start = i.start
  BY <1>0, <1>3, <1>4, <1>5 DEF AnalysisTypeOK, CallbackTypeOK, Ended
<1>7. ASSUME NEW l \in Callback, l # k PROVE ActivityOK(l)'
  <2>1. \A u \in Thread : /\ RunsOn(u, l)' <=> RunsOn(u, l)
                          /\ RunsOn(u, l) => running'[u].start = running[u].start
    BY <1>1, <1>2, <1>7 DEF RunsOn
  <2>2. executions'[l] = executions[l] /\ durations'[l] = durations[l]
    BY <1>6, <1>7
  <2>3. SameRecord(l)
    BY <1>1, <2>1, <2>2 DEF SameRecord
  <2>. QED
    BY <2>3, RecordIsKept DEF IInv
<1>8. ActivityOK(k)'
  <2>1. \A u \in Thread : ~RunsOn(u, k)'
    BY <1>0, <1>1, <1>2 DEF RunsOn, Linked
  <2>2. PICK y : y = executions'[k]
    OBVIOUS
  <2>3. y = Append(x, d) /\ x \in Seq(ExecutionData)
    BY <1>4, <1>6, <2>2
  <2>4. /\ Len(y) = Len(x) + 1 /\ Len(x) \in Nat /\ y[Len(y)] = d /\ y # << >>
        /\ \A j \in 1..Len(x) : y[j] = x[j]
    BY <2>3
  <2>5. a.last = y[Len(y)].start /\ Len(a.delays) = Len(y) - 1
    BY <1>5, <1>6, <2>4
  <2>6. ASSUME NEW j \in 1..(Len(y) - 1) PROVE a.delays[j] = y[j + 1].start - y[j].start
    <3>1. CASE j = Len(x)
      BY <1>5, <1>6, <2>4, <3>1
    <3>2. CASE j # Len(x)
      <4>1. j \in 1..(Len(x) - 1) /\ j + 1 \in 1..Len(x) /\ j \in 1..Len(x)
        BY <2>4, <2>6, <3>2
      <4>. QED
        BY <1>5, <2>4, <4>1
    <3>. QED
      BY <3>1, <3>2
  <2>7. /\ Len(durations'[k]) = Len(y) /\ \A j \in 1..Len(y) : durations'[k][j] = y[j].duration
    <3>1. PICK e : e = durations[k]
      OBVIOUS
    <3>2. e \in Seq(Time) /\ Len(e) = Len(x) /\ durations'[k] = Append(e, d.duration)
      BY <1>5, <1>6, <3>1
    <3>3. /\ Len(durations'[k]) = Len(y) /\ durations'[k][Len(y)] = d.duration
          /\ \A j \in 1..Len(x) : durations'[k][j] = e[j]
      BY <2>4, <3>2
    <3>. QED
      BY <1>5, <2>4, <3>1, <3>3
  <2>8. activity'[k] = a /\ (CallerOf[k] \in Timer => activity'[CallerOf[k]] = a)
    BY <1>1, <1>4, <1>5
  <2>. QED
    BY <1>5, <2>1, <2>2, <2>4, <2>5, <2>6, <2>7, <2>8 DEF ActivityOK
<1>. QED
  BY <1>7, <1>8

(* Publications and takes activate no callback. *)
LEMMA OtherNodeKeepsRecords ==
  ASSUME IInv, NEW x \in Publisher \cup Subscriber,
         activity' = [activity EXCEPT ![x] = Activated(@)],
         running' = running, executions' = executions, durations' = durations
  PROVE  /\ \A k \in Callback : activity'[k] = activity[k]
         /\ \A k \in Callback : ActivityOK(k)'
<1>1. ASSUME NEW k \in Callback
      PROVE  /\ activity'[k] = activity[k]
             /\ CallerOf[k] \in Timer => activity'[CallerOf[k]] = activity[CallerOf[k]]
  <2>1. k # x /\ (CallerOf[k] \in Timer => CallerOf[k] # x)
    BY Kinds
  <2>2. k \in Item /\ (CallerOf[k] \in Timer => CallerOf[k] \in Item)
    BY ItemKinds
  <2>. QED
    BY <2>1, <2>2 DEF IInv, AnalysisTypeOK
<1>2. ASSUME NEW k \in Callback PROVE ActivityOK(k)'
  <2>1. SameRecord(k)
    BY <1>1 DEF SameRecord, RunsOn
  <2>. QED
    BY <2>1, RecordIsKept DEF IInv
<1>. QED
  BY <1>1, <1>2

-----------------------------------------------------------------------------
(* The edges. *)
LEMMA EdgesDiffer ==
  /\ \A k, l \in Callback : k # l => <<CallerOf[k], k>> # <<CallerOf[l], l>>
  /\ \A k, l \in Callback, p \in Publisher : <<k, p>> # <<CallerOf[l], l>>
  /\ \A l \in Callback, p \in Publisher, s \in Subscriber : <<p, s>> # <<CallerOf[l], l>>
  /\ \A k \in Callback, p, q \in Publisher, s \in Subscriber : <<k, p>> # <<q, s>>
  BY Kinds

(* A delay and a latency more for an edge, or a latency if it is new. *)
LEMMA LatenciesCount ==
  ASSUME IInv, Tick, NEW e \in Edge, NEW l \in Time \cup {LatencyInvalid},
         edges' = [edges EXCEPT ![e] = Traversed(@, l)]
  PROVE  \A f \in Edge : edges'[f] # Nil => Len(edges'[f].delays) + 1 = Len(edges'[f].latencies)
<1>0. AnalysisTypeOK /\ PastOK
  BY DEF IInv
<1>1. /\ \A f \in Edge : f # e => edges'[f] = edges[f]
      /\ edges[e] = Nil => edges'[e].delays = << >> /\ edges'[e].latencies = <<l>>
      /\ edges[e] # Nil => /\ edges'[e].delays = Append(edges[e].delays, now' - edges[e].last)
                           /\ edges'[e].latencies = Append(edges[e].latencies, l)
  BY <1>0, EdgeTraversed
<1>2. ASSUME NEW f \in Edge, edges'[f] # Nil
      PROVE  Len(edges'[f].delays) + 1 = Len(edges'[f].latencies)
  <2>1. CASE f # e
    BY <1>1, <1>2, <2>1 DEF IInv, EdgesOK
  <2>2. CASE f = e /\ edges[e] = Nil
    <3>1. PICK ds, ls : ds = edges'[f].delays /\ ls = edges'[f].latencies
      OBVIOUS
    <3>2. ds = << >> /\ ls = <<l>>
      BY <1>1, <2>2, <3>1
    <3>3. Len(ds) + 1 = Len(ls)
      BY <3>2
    <3>. QED
      BY <3>1, <3>3
  <2>3. CASE f = e /\ edges[e] # Nil
    <3>1. PICK ds, ls, x : ds = edges[e].delays /\ ls = edges[e].latencies /\ x = now' - edges[e].last
      OBVIOUS
    <3>2. /\ ds \in Seq(Time) /\ ls \in Seq(Time \cup {LatencyInvalid})
          /\ Len(ds) + 1 = Len(ls)
      BY <1>0, <2>3, <3>1 DEF AnalysisTypeOK, EdgeData, IInv, EdgesOK
    <3>3. edges'[f].delays = Append(ds, x) /\ edges'[f].latencies = Append(ls, l)
      BY <1>1, <2>3, <3>1
    <3>. QED
      BY <3>2, <3>3
  <2>. QED
    BY <2>1, <2>2, <2>3
<1>. QED
  BY <1>2

LEMMA StartedEdge ==
  ASSUME IInv, Tick, NEW t \in Thread, NEW k \in Callback, NEW i \in Instance,
         Started(t, k, i), GotMessage(k, i.message)
  PROVE  \E l \in Time \cup {LatencyInvalid} :
           edges' = [edges EXCEPT ![<<CallerOf[k], k>>] = Traversed(@, l)]
<1>0. AnalysisTypeOK /\ PastOK
  BY DEF IInv
<1>1. PICK m : m = i.message
  OBVIOUS
<1>2. m \in Message \cup {Nil}
  BY <1>1 DEF Instance
<1>3. ASSUME m # Nil PROVE m.received <= now
  <2>1. /\ CallerOf[k] \in Subscriber /\ taken[CallerOf[k]] # << >>
        /\ m = taken[CallerOf[k]][1]
    BY <1>1, <1>3 DEF GotMessage
  <2>2. taken[CallerOf[k]] \in Seq(Message)
    BY <1>0, <2>1 DEF AnalysisTypeOK, ExecutionTypeOK
  <2>. QED
    BY <1>0, <2>1, <2>2 DEF PastOK, MessageOK
<1>4. PICK l : l = InvocationLatency(k, m)
  OBVIOUS
<1>5. l \in Time \cup {LatencyInvalid}
  BY <1>0, <1>2, <1>3, <1>4, LatencyIsTime
<1>. QED
  BY <1>1, <1>4, <1>5 DEF Started

LEMMA StartKeepsEdges ==
  ASSUME IInv, Tick, NEW t \in Thread, NEW k \in Callback, NEW i \in Instance,
         Started(t, k, i), GotMessage(k, i.message)
  PROVE  EdgesOK' /\ AttributionOK' /\ DrawableOK'
<1>0. AnalysisTypeOK /\ PastOK
  BY DEF IInv
<1>1. PICK e \in Edge : e = <<CallerOf[k], k>>
  BY EdgeKinds
<1>2. PICK l \in Time \cup {LatencyInvalid} : edges' = [edges EXCEPT ![e] = Traversed(@, l)]
  BY <1>1, StartedEdge
<1>3. /\ \A f \in Edge : f # e => edges'[f] = edges[f]
      /\ edges'[e] # Nil /\ edges'[e].last = now'
      /\ edges[e] = Nil => edges'[e].delays = << >>
      /\ edges[e] # Nil => edges'[e].delays = Append(edges[e].delays, now' - edges[e].last)
  BY <1>0, <1>2, EdgeTraversed
<1>4. /\ \A x \in Item : activity[x] # Nil => activity'[x] # Nil
      /\ \A x \in Item : x \notin ActivatedWith(k) => activity'[x] = activity[x]
      /\ \A x \in ActivatedWith(k) :
           /\ activity'[x] # Nil /\ activity'[x].last = now'
           /\ activity[x] = Nil => activity'[x].delays = << >>
           /\ activity[x] # Nil =>
                activity'[x].delays = Append(activity[x].delays, now' - activity[x].last)
  BY <1>0, NodesActivated, StartedNodes DEF Started
<1>5. \A f \in Edge : edges'[f] # Nil => Len(edges'[f].delays) + 1 = Len(edges'[f].latencies)
  BY <1>2, LatenciesCount
<1>6. ASSUME NEW h \in Callback PROVE InvocationOK(h)'
  <2>0. InvocationOK(h)
    BY DEF IInv, EdgesOK
  <2>1. CASE h # k
    <3>1. h \in Item /\ h \notin ActivatedWith(k)
      BY <2>1, ItemKinds, StartedNodes, Kinds
    <3>2. <<CallerOf[h], h>> \in Edge /\ <<CallerOf[h], h>> # e
      BY <1>1, <2>1, EdgeKinds, EdgesDiffer
    <3>. QED
      BY <1>3, <1>4, <2>0, <3>1, <3>2, InvocationIsKept
  <2>2. CASE h = k
    <3>1. /\ edges[e] # Nil <=> activity[k] # Nil
          /\ edges[e] # Nil =>
               edges[e].delays = activity[k].delays /\ edges[e].last = activity[k].last
      BY <1>1, <2>0, <2>2 DEF InvocationOK
    <3>2. /\ activity'[k] # Nil /\ activity'[k].last = now'
          /\ activity[k] = Nil => activity'[k].delays = << >>
          /\ activity[k] # Nil =>
               activity'[k].delays = Append(activity[k].delays, now' - activity[k].last)
      BY <1>4, StartedNodes
    <3>3. edges'[e].delays = activity'[k].delays
      BY <1>3, <3>1, <3>2
    <3>. QED
      BY <1>1, <1>3, <2>2, <3>2, <3>3 DEF InvocationOK
  <2>. QED
    BY <2>1, <2>2
<1>7. AttributionOK'
  <2>1. \A p \in Publisher, h \in Callback : edges'[<<h, p>>] = edges[<<h, p>>]
    BY <1>1, <1>3, EdgeKinds, EdgesDiffer
  <2>2. sent' = sent /\ dependency' = dependency
    BY DEF Started
  <2>. QED
    BY <2>1, <2>2 DEF IInv, AttributionOK
<1>8. \A m \in sent' : activity'[m.publisher] # Nil
  <2>1. \A m \in sent : m.publisher \in Item
    BY <1>0, ItemKinds DEF AnalysisTypeOK, ExecutionTypeOK, Publication
  <2>. QED
    BY <1>4, <2>1 DEF IInv, DrawableOK, Started
<1>9. ASSUME NEW s \in Subscriber, taken'[s] # << >> PROVE activity'[s] # Nil
  <2>1. taken[s] # << >>
    <3>1. taken \in [Subscriber -> Seq(Message)]
      BY <1>0 DEF AnalysisTypeOK, ExecutionTypeOK
    <3>2. taken'[s] = taken[s] \/ taken[s] # << >>
      BY <3>1 DEF GotMessage
    <3>. QED
      BY <1>9, <3>2
  <2>. QED
    BY <1>4, <2>1, ItemKinds DEF IInv, DrawableOK
<1>10. ASSUME NEW f \in Edge, edges'[f] # Nil
       PROVE  (f[1] \in Service \/ activity'[f[1]] # Nil) /\ activity'[f[2]] # Nil
  <2>1. CASE f # e
    <3>1. edges[f] # Nil
      BY <1>3, <1>10, <2>1
    <3>2. (f[1] \in Service \/ activity[f[1]] # Nil) /\ activity[f[2]] # Nil
      BY <3>1 DEF IInv, DrawableOK
    <3>3. f[2] \in Item /\ (f[1] \in Item \/ f[1] \in Service)
      BY Kinds DEF Edge, Item
    <3>. QED
      BY <1>4, <3>2, <3>3
  <2>2. CASE f = e
    <3>1. f[1] = CallerOf[k] /\ f[2] = k
      BY <1>1, <2>2
    <3>2. activity'[k] # Nil
      BY <1>4, StartedNodes
    <3>3. CASE CallerOf[k] \in Timer
      BY <1>4, <3>1, <3>2, <3>3, StartedNodes
    <3>4. CASE CallerOf[k] \in Subscriber
      <4>1. taken[CallerOf[k]] # << >>
        BY <3>4 DEF GotMessage
      <4>2. activity[CallerOf[k]] # Nil
        BY <3>4, <4>1 DEF IInv, DrawableOK
      <4>. QED
        BY <1>4, <3>1, <3>2, <3>4, <4>2, ItemKinds
    <3>. QED
      BY <3>1, <3>2, <3>3, <3>4, Kinds
  <2>. QED
    BY <2>1, <2>2
<1>. QED
  BY <1>5, <1>6, <1>7, <1>8, <1>9, <1>10 DEF EdgesOK, DrawableOK

LEMMA EndKeepsEdges ==
  ASSUME IInv, UNCHANGED <<sent, taken, dependency, activity, edges>>
  PROVE  EdgesOK' /\ AttributionOK' /\ DrawableOK'
<1>1. EdgesOK'
  BY DEF IInv, EdgesOK, InvocationOK
<1>2. AttributionOK'
  BY DEF IInv, AttributionOK
<1>3. DrawableOK'
  BY DEF IInv, DrawableOK
<1>. QED
  BY <1>1, <1>2, <1>3

LEMMA PublicationKeepsEdges ==
  ASSUME IInv, Tick, NEW t \in Thread, NEW p \in Publisher, NEW m \in Publication,
         Publishes(t, p, m)
  PROVE  EdgesOK' /\ AttributionOK' /\ DrawableOK'
<1>0. AnalysisTypeOK /\ PastOK
  BY DEF IInv
<1>1. /\ \A x \in Item : activity[x] # Nil => activity'[x] # Nil
      /\ activity'[p] # Nil
  <2>1. p \in Item
    BY ItemKinds
  <2>2. activity' = [x \in Item |-> IF x \in {p} THEN Activated(activity[x]) ELSE activity[x]]
    BY <1>0, <2>1, NodeActivated DEF Publishes
  <2>. QED
    BY <1>0, <2>1, <2>2, NodesActivated
<1>2. \A k \in Callback : activity'[k] = activity[k]
  BY OtherNodeKeepsRecords DEF Publishes
<1>3. /\ \A f \in Edge : f # <<m.by, p>> \/ m.by = Nil => edges'[f] = edges[f]
      /\ m.by # Nil => edges'[<<m.by, p>>] # Nil
  <2>1. CASE m.by = Nil
    BY <2>1 DEF Publishes
  <2>2. CASE m.by # Nil
    BY <1>0, <2>2, PublicationEdge, EdgeTraversed
  <2>. QED
    BY <2>1, <2>2
<1>4. \A f \in Edge : edges'[f] # Nil => Len(edges'[f].delays) + 1 = Len(edges'[f].latencies)
  <2>1. CASE m.by = Nil
    BY <2>1 DEF Publishes, IInv, EdgesOK
  <2>2. CASE m.by # Nil
    BY <2>2, PublicationEdge, LatenciesCount
  <2>. QED
    BY <2>1, <2>2
<1>5. ASSUME NEW k \in Callback PROVE InvocationOK(k)'
  <2>1. InvocationOK(k) /\ <<CallerOf[k], k>> \in Edge
    BY EdgeKinds DEF IInv, EdgesOK
  <2>2. m.by # Nil => <<CallerOf[k], k>> # <<m.by, p>>
    BY PublicationEdge, EdgesDiffer
  <2>. QED
    BY <1>2, <1>3, <2>1, <2>2, InvocationIsKept
<1>6. AttributionOK'
  <2>1. ASSUME NEW q \in Publisher, NEW k \in Callback
        PROVE  /\ <<q, k>> \in dependency' <=> \E x \in sent' : x.publisher = q /\ x.by = k
               /\ edges'[<<k, q>>] # Nil <=> \E x \in sent' : x.publisher = q /\ x.by = k
    <3>1. /\ <<q, k>> \in dependency <=> \E x \in sent : x.publisher = q /\ x.by = k
          /\ edges[<<k, q>>] # Nil <=> \E x \in sent : x.publisher = q /\ x.by = k
      BY DEF IInv, AttributionOK
    <3>2. (\E x \in sent' : x.publisher = q /\ x.by = k)
            <=> (\E x \in sent : x.publisher = q /\ x.by = k) \/ (q = p /\ m.by = k)
      BY DEF Publishes
    <3>3. <<q, k>> \in dependency' <=> (<<q, k>> \in dependency \/ (q = p /\ m.by = k))
      BY Kinds DEF Publishes
    <3>4. edges'[<<k, q>>] # Nil <=> (edges[<<k, q>>] # Nil \/ (q = p /\ m.by = k))
      <4>1. CASE q = p /\ m.by = k
        BY <1>3, <4>1, Kinds
      <4>2. CASE ~(q = p /\ m.by = k)
        <5>1. <<k, q>> # <<m.by, p>> /\ <<k, q>> \in Edge
          BY <4>2, EdgeKinds
        <5>. QED
          BY <1>3, <4>2, <5>1
      <4>. QED
        BY <4>1, <4>2
    <3>. QED
      BY <3>1, <3>2, <3>3, <3>4
  <2>. QED
    BY <2>1 DEF AttributionOK
<1>7. \A x \in sent' : activity'[x.publisher] # Nil
  <2>1. \A x \in sent : x.publisher \in Item
    BY <1>0, ItemKinds DEF AnalysisTypeOK, ExecutionTypeOK, Publication
  <2>. QED
    BY <1>1, <2>1 DEF IInv, DrawableOK, Publishes
<1>8. \A s \in Subscriber : taken'[s] # << >> => activity'[s] # Nil
  BY <1>1, ItemKinds DEF IInv, DrawableOK, Publishes
<1>9. ASSUME NEW f \in Edge, edges'[f] # Nil
      PROVE  (f[1] \in Service \/ activity'[f[1]] # Nil) /\ activity'[f[2]] # Nil
  <2>1. CASE edges[f] # Nil
    <3>1. (f[1] \in Service \/ activity[f[1]] # Nil) /\ activity[f[2]] # Nil
      BY <2>1 DEF IInv, DrawableOK
    <3>2. f[2] \in Item /\ (f[1] \in Item \/ f[1] \in Service)
      BY Kinds DEF Edge, Item
    <3>. QED
      BY <1>1, <3>1, <3>2
  <2>2. CASE edges[f] = Nil
    <3>1. f = <<m.by, p>> /\ m.by # Nil
      BY <1>3, <1>9, <2>2
    <3>2. activity[m.by] # Nil /\ m.by \in Item
      BY <3>1, PublicationEdge, ItemKinds DEF IInv, ActivityOK
    <3>3. f[1] = m.by /\ f[2] = p
      BY <3>1
    <3>. QED
      BY <1>1, <3>2, <3>3
  <2>. QED
    BY <2>1, <2>2
<1>. QED
  BY <1>4, <1>5, <1>6, <1>7, <1>8, <1>9 DEF EdgesOK, DrawableOK

LEMMA TakeKeepsEdges ==
  ASSUME IInv, Tick, NEW s \in Subscriber, NEW m \in Message, Takes(s, m)
  PROVE  EdgesOK' /\ AttributionOK' /\ DrawableOK'
<1>0. AnalysisTypeOK /\ PastOK
  BY DEF IInv
<1>1. /\ \A x \in Item : activity[x] # Nil => activity'[x] # Nil
      /\ activity'[s] # Nil
  <2>1. s \in Item
    BY ItemKinds
  <2>2. activity' = [x \in Item |-> IF x \in {s} THEN Activated(activity[x]) ELSE activity[x]]
    BY <1>0, <2>1, NodeActivated DEF Takes
  <2>. QED
    BY <1>0, <2>1, <2>2, NodesActivated
<1>2. \A k \in Callback : activity'[k] = activity[k]
  BY OtherNodeKeepsRecords DEF Takes, callbackVars
<1>3. \A f \in Edge : (edges'[f] = edges[f])
        \/ (~IsUnknown(m.publication) /\ f = <<m.publication.publisher, s>>)
  <2>1. CASE IsUnknown(m.publication)
    BY <2>1 DEF Takes
  <2>2. CASE ~IsUnknown(m.publication)
    BY <1>0, <2>2, TakeEdge, EdgeTraversed
  <2>. QED
    BY <2>1, <2>2
<1>4. \A f \in Edge : edges'[f] # Nil => Len(edges'[f].delays) + 1 = Len(edges'[f].latencies)
  <2>1. CASE IsUnknown(m.publication)
    BY <2>1 DEF Takes, IInv, EdgesOK
  <2>2. CASE ~IsUnknown(m.publication)
    BY <2>2, TakeEdge, LatenciesCount
  <2>. QED
    BY <2>1, <2>2
<1>5. ASSUME NEW k \in Callback PROVE InvocationOK(k)'
  <2>1. InvocationOK(k) /\ <<CallerOf[k], k>> \in Edge
    BY EdgeKinds DEF IInv, EdgesOK
  <2>2. edges'[<<CallerOf[k], k>>] = edges[<<CallerOf[k], k>>]
    BY <1>3, <2>1, TakeEdge, EdgesDiffer
  <2>. QED
    BY <1>2, <2>1, <2>2, InvocationIsKept
<1>6. AttributionOK'
  <2>1. \A q \in Publisher, k \in Callback : edges'[<<k, q>>] = edges[<<k, q>>]
    BY <1>3, EdgeKinds, TakeEdge, EdgesDiffer
  <2>2. sent' = sent /\ dependency' = dependency
    BY DEF Takes, callbackVars
  <2>. QED
    BY <2>1, <2>2 DEF IInv, AttributionOK
<1>7. \A x \in sent' : activity'[x.publisher] # Nil
  <2>1. \A x \in sent : x.publisher \in Item
    BY <1>0, ItemKinds DEF AnalysisTypeOK, ExecutionTypeOK, Publication
  <2>. QED
    BY <1>1, <2>1 DEF IInv, DrawableOK, Takes
<1>8. ASSUME NEW u \in Subscriber, taken'[u] # << >> PROVE activity'[u] # Nil
  <2>1. CASE u = s
    BY <1>1, <2>1
  <2>2. CASE u # s
    <3>1. taken'[u] = taken[u]
      BY <1>0, <2>2 DEF Takes, AnalysisTypeOK, ExecutionTypeOK
    <3>. QED
      BY <1>1, <1>8, <3>1, ItemKinds DEF IInv, DrawableOK
  <2>. QED
    BY <2>1, <2>2
<1>9. ASSUME NEW f \in Edge, edges'[f] # Nil
      PROVE  (f[1] \in Service \/ activity'[f[1]] # Nil) /\ activity'[f[2]] # Nil
  <2>1. CASE edges[f] # Nil
    <3>1. (f[1] \in Service \/ activity[f[1]] # Nil) /\ activity[f[2]] # Nil
      BY <2>1 DEF IInv, DrawableOK
    <3>2. f[2] \in Item /\ (f[1] \in Item \/ f[1] \in Service)
      BY Kinds DEF Edge, Item
    <3>. QED
      BY <1>1, <3>1, <3>2
  <2>2. CASE edges[f] = Nil
    <3>1. ~IsUnknown(m.publication) /\ f = <<m.publication.publisher, s>>
      BY <1>3, <1>9, <2>2
    <3>2. m.publication \in sent /\ m.publication.publisher \in Item
      BY <3>1, TakeEdge, ItemKinds
    <3>3. activity[m.publication.publisher] # Nil
      BY <3>2 DEF IInv, DrawableOK
    <3>4. f[1] = m.publication.publisher /\ f[2] = s
      BY <3>1
    <3>. QED
      BY <1>1, <3>2, <3>3, <3>4
  <2>. QED
    BY <2>1, <2>2
<1>. QED
  BY <1>4, <1>5, <1>6, <1>7, <1>8, <1>9 DEF EdgesOK, DrawableOK

-----------------------------------------------------------------------------
(* The callback graph. *)
LEMMA EventKeepsGraph ==
  ASSUME IInv, outcome = "running", Tick, Registered = Callback,
         UNCHANGED <<outcome, timerDriven, messageDriven, callbackGraph>>
  PROVE  RegisteredOK' /\ FinishedOK'
<1>1. now' # 0
  BY Ticks DEF IInv
<1>2. Registered' = Callback
  BY DEF Registered, LacksNode, GraphNodes
<1>3. RegisteredOK'
  BY <1>1, <1>2 DEF IInv, RegisteredOK
<1>. QED
  BY <1>3 DEF IInv, FinishedOK

LEMMA CausesAreKept ==
  ASSUME CausedOK, caused' = caused, dependency \subseteq dependency'
  PROVE  CausedOK'
  BY DEF CausedOK

LEMMA StartKeepsCauses ==
  ASSUME IInv, NEW t \in Thread, NEW k \in Callback, NEW i \in Instance,
         Started(t, k, i), GotMessage(k, i.message)
  PROVE  CausedOK'
<1>1. dependency' = dependency
  BY DEF Started
<1>2. PICK m : m = i.message
  OBVIOUS
<1>3. CASE m = Nil
  BY <1>1, <1>2, <1>3, CausesAreKept DEF GotMessage, IInv
<1>4. CASE m # Nil
  <2>1. /\ m \in Message /\ CallerOf[k] \in Subscriber
        /\ taken[CallerOf[k]] # << >> /\ m = taken[CallerOf[k]][1]
        /\ caused' = caused \cup {<<l, k>> : l \in {PublishedBy(m)} \ {Nil}}
    BY <1>2, <1>4 DEF GotMessage
  <2>2. ASSUME NEW c \in caused'
        PROVE  /\ CallerOf[c[2]] \in Subscriber
               /\ \E p \in Publisher : /\ <<p, c[1]>> \in dependency
                                       /\ TopicOf[p] = TopicOf[CallerOf[c[2]]]
    <3>1. CASE c \in caused
      BY <3>1 DEF IInv, CausedOK
    <3>2. CASE c \notin caused
      <4>1. PICK x : x = m.publication
        OBVIOUS
      <4>2. PICK l : l = PublishedBy(m)
        OBVIOUS
      <4>3. c = <<l, k>> /\ l # Nil
        BY <2>1, <2>2, <3>2, <4>2
      <4>4. IsKnown(x) /\ l = x.by
        BY <4>1, <4>2, <4>3 DEF PublishedBy, IsKnown, IsUnknown
      <4>5. MessageOK(CallerOf[k], m)
        <5>1. taken[CallerOf[k]] \in Seq(Message)
          BY <2>1 DEF IInv, AnalysisTypeOK, ExecutionTypeOK
        <5>2. 1 \in 1..Len(taken[CallerOf[k]])
          BY <2>1, <5>1
        <5>. QED
          BY <2>1, <5>2 DEF IInv, PastOK
      <4>6. x \in sent /\ TopicOf[x.publisher] = TopicOf[CallerOf[k]]
        BY <4>1, <4>4, <4>5 DEF MessageOK
      <4>7. x.publisher \in Publisher /\ l \in Callback
        BY <4>3, <4>4, <4>6 DEF IInv, AnalysisTypeOK, ExecutionTypeOK, Publication
      <4>8. <<x.publisher, l>> \in dependency
        BY <4>4, <4>6, <4>7 DEF IInv, AttributionOK
      <4>. QED
        BY <2>1, <4>3, <4>6, <4>7, <4>8
    <3>. QED
      BY <3>1, <3>2
  <2>. QED
    BY <1>1, <2>2 DEF CausedOK
<1>. QED
  BY <1>3, <1>4

-----------------------------------------------------------------------------
(* The steps. *)
LEMMA CallbackStartKeepsInv ==
  ASSUME IInv, outcome = "running", NEW t \in Thread, NEW k \in Callback, CallbackStart(t, k)
  PROVE  IInv'
<1>1. Registered = Callback /\ Tick
  BY StartIsAccepted
<1>2. PICK i \in Instance : Started(t, k, i) /\ GotMessage(k, i.message)
  BY StartIsAccepted
<1>3. AnalysisTypeOK' /\ PastOK'
  BY <1>1, <1>2, StartKeepsType
<1>4. Linked'
  BY <1>2, StartKeepsLink
<1>5. \A l \in Callback : ActivityOK(l)'
  BY <1>1, <1>2, StartKeepsRecords
<1>6. EdgesOK' /\ AttributionOK' /\ DrawableOK'
  BY <1>1, <1>2, StartKeepsEdges
<1>7. RegisteredOK' /\ FinishedOK'
  BY <1>1, <1>2, EventKeepsGraph DEF Started
<1>8. CausedOK'
  BY <1>2, StartKeepsCauses
<1>. QED
  BY <1>3, <1>4, <1>5, <1>6, <1>7, <1>8 DEF IInv

LEMMA CallbackEndKeepsInv ==
  ASSUME IInv, outcome = "running", NEW t \in Thread, CallbackEnd(t)
  PROVE  IInv'
<1>1. Registered = Callback /\ Tick
  BY EndIsAccepted
<1>2. PICK k \in Callback, i \in Instance : Ended(t, k, i)
  BY EndIsAccepted
<1>3. AnalysisTypeOK' /\ PastOK'
  BY <1>1, <1>2, EndKeepsType
<1>4. Linked'
  BY <1>2, EndKeepsLink
<1>5. \A l \in Callback : ActivityOK(l)'
  BY <1>1, <1>2, EndKeepsRecords
<1>6. EdgesOK' /\ AttributionOK' /\ DrawableOK'
  BY <1>2, EndKeepsEdges DEF Ended
<1>7. RegisteredOK' /\ FinishedOK'
  BY <1>1, <1>2, EventKeepsGraph DEF Ended
<1>8. CausedOK'
  BY <1>2, CausesAreKept DEF Ended, IInv
<1>. QED
  BY <1>3, <1>4, <1>5, <1>6, <1>7, <1>8 DEF IInv

LEMMA RmwPublishKeepsInv ==
  ASSUME IInv, outcome = "running", NEW t \in Thread, NEW p \in Publisher, RmwPublish(t, p)
  PROVE  IInv'
<1>1. Registered = Callback /\ Tick
  BY PublicationIsAccepted
<1>2. PICK m \in Publication : Publishes(t, p, m)
  BY PublicationIsAccepted
<1>3. AnalysisTypeOK' /\ PastOK'
  BY <1>1, <1>2, PublicationKeepsType
<1>4. Linked'
  BY <1>2, LinkIsKept DEF Publishes, IInv
<1>5. \A l \in Callback : ActivityOK(l)'
  BY <1>2, OtherNodeKeepsRecords DEF Publishes
<1>6. EdgesOK' /\ AttributionOK' /\ DrawableOK'
  BY <1>1, <1>2, PublicationKeepsEdges
<1>7. RegisteredOK' /\ FinishedOK'
  BY <1>1, <1>2, EventKeepsGraph DEF Publishes
<1>8. CausedOK'
  BY <1>2, CausesAreKept DEF Publishes, IInv
<1>. QED
  BY <1>3, <1>4, <1>5, <1>6, <1>7, <1>8 DEF IInv

LEMMA RmwTakeKeepsInv ==
  ASSUME IInv, outcome = "running", NEW s \in Subscriber, RmwTake(s)
  PROVE  IInv'
<1>1. Registered = Callback /\ Tick
  BY TakeIsAccepted
<1>2. PICK m \in Message : Takes(s, m)
  BY TakeIsAccepted
<1>3. AnalysisTypeOK' /\ PastOK'
  BY <1>1, <1>2, TakeKeepsType
<1>4. UNCHANGED <<executions, started, active, dependency, timerDriven, messageDriven,
                  callbackGraph>>
  BY <1>2 DEF Takes, callbackVars
<1>5. Linked'
  BY <1>2, <1>4, LinkIsKept DEF Takes, IInv
<1>6. \A l \in Callback : ActivityOK(l)'
  BY <1>2, <1>4, OtherNodeKeepsRecords DEF Takes
<1>7. EdgesOK' /\ AttributionOK' /\ DrawableOK'
  BY <1>1, <1>2, TakeKeepsEdges
<1>8. RegisteredOK' /\ FinishedOK'
  BY <1>1, <1>2, <1>4, EventKeepsGraph DEF Takes
<1>9. CausedOK'
  BY <1>2, <1>4, CausesAreKept DEF Takes, IInv
<1>. QED
  BY <1>3, <1>5, <1>6, <1>7, <1>8, <1>9 DEF IInv

(* The records are only of callbacks, messages and nodes. *)
LEMMA RecordsAreKept ==
  ASSUME IInv,
         UNCHANGED <<running, sent, taken, executions, dependency, activity, durations, edges>>
  PROVE  (\A k \in Callback : ActivityOK(k)') /\ EdgesOK' /\ AttributionOK' /\ DrawableOK'
<1>1. ASSUME NEW k \in Callback PROVE ActivityOK(k)'
  <2>1. SameRecord(k)
    BY DEF SameRecord, RunsOn
  <2>. QED
    BY <2>1, RecordIsKept DEF IInv
<1>. QED
  BY <1>1, EndKeepsEdges

LEMMA SpinWakeKeepsInv ==
  ASSUME IInv, outcome = "running", NEW n \in RosNode, SpinWake(n)
  PROVE  IInv'
<1>1. /\ Registered = Callback /\ Tick
      /\ UNCHANGED <<outcome, running, sent, taken, caused, activity, durations, edges, executing,
                     executions, started, active, dependency, timerDriven, messageDriven,
                     callbackGraph>>
  BY DEF SpinWake, WakeUp, GraphWakeUp, Continue, callbackVars
<1>2. AnalysisTypeOK' /\ PastOK'
  BY WakeUpKeepsType
<1>3. Linked'
  BY <1>1, LinkIsKept DEF IInv
<1>4. (\A k \in Callback : ActivityOK(k)') /\ EdgesOK' /\ AttributionOK' /\ DrawableOK'
  BY <1>1, RecordsAreKept
<1>5. RegisteredOK' /\ FinishedOK'
  BY <1>1, EventKeepsGraph
<1>6. CausedOK'
  BY <1>1, CausesAreKept DEF IInv
<1>. QED
  BY <1>2, <1>3, <1>4, <1>5, <1>6 DEF IInv

LEMMA SpinEndKeepsInv ==
  ASSUME IInv, outcome = "running", NEW n \in RosNode, SpinEnd(n)
  PROVE  IInv'
<1>1. /\ Registered = Callback /\ Tick
      /\ UNCHANGED <<running, sent, taken, caused, activity, durations, edges, executing,
                     executions, started, active, dependency, timerDriven, messageDriven,
                     callbackGraph>>
  BY DEF SpinEnd, EndSpin, Panic, graphVars, callbackVars
<1>2. AnalysisTypeOK' /\ PastOK'
  BY SpinEndKeepsType
<1>3. Linked'
  BY <1>1, LinkIsKept DEF IInv
<1>4. (\A k \in Callback : ActivityOK(k)') /\ EdgesOK' /\ AttributionOK' /\ DrawableOK'
  BY <1>1, RecordsAreKept
<1>5. RegisteredOK'
  <2>1. Registered' = Callback
    BY <1>1 DEF Registered, LacksNode, GraphNodes
  <2>2. now' # 0
    BY <1>1, Ticks DEF IInv
  <2>. QED
    BY <1>1, <2>1, <2>2 DEF IInv, RegisteredOK, GraphNodes
<1>6. FinishedOK'
  BY <1>1 DEF IInv, FinishedOK
<1>7. CausedOK'
  BY <1>1, CausesAreKept DEF IInv
<1>. QED
  BY <1>2, <1>3, <1>4, <1>5, <1>6, <1>7 DEF IInv

LEMMA CallbackRegisterKeepsInv ==
  ASSUME IInv, outcome = "running", CallbackRegister
  PROVE  IInv'
<1>1. PICK k \in Callback : CallbackAppears(k)
  BY DEF CallbackRegister, Registered
<1>2. /\ now = 0
      /\ UNCHANGED <<outcome, now, running, sent, taken, caused, activity, durations, edges,
                     lastWake, executing, executions, started, active, dependency,
                     callbackGraph>>
  BY <1>1 DEF CallbackRegister, CallbackAppears, Continue, executionVars, graphVars
<1>3. AnalysisTypeOK' /\ PastOK'
  BY RegisterKeepsType
<1>4. Linked'
  BY <1>2, LinkIsKept DEF IInv
<1>5. (\A l \in Callback : ActivityOK(l)') /\ EdgesOK' /\ AttributionOK' /\ DrawableOK'
  BY <1>2, RecordsAreKept
<1>6. CausedOK'
  BY <1>2, CausesAreKept DEF IInv
<1>7. FinishedOK'
  BY <1>2 DEF IInv, FinishedOK
<1>8. timerDriven \in Seq(Callback) /\ messageDriven \in Seq(Callback)
  BY DEF IInv, AnalysisTypeOK, CallbackTypeOK
<1>9. \A i \in 1..Len(timerDriven') : CallerOf[timerDriven'[i]] \in Timer
  BY <1>1, <1>8 DEF CallbackAppears, IInv, RegisteredOK
<1>10. \A i \in 1..Len(messageDriven') : CallerOf[messageDriven'[i]] \in Subscriber
  BY <1>1, <1>8 DEF CallbackAppears, IInv, RegisteredOK
<1>11. RegisteredOK'
  BY <1>2, <1>9, <1>10 DEF IInv, RegisteredOK
<1>. QED
  BY <1>3, <1>4, <1>5, <1>6, <1>7, <1>11 DEF IInv

LEMMA RegisteredIsKept ==
  ASSUME RegisteredOK, UNCHANGED <<now, running, sent, caused, timerDriven, messageDriven>>
  PROVE  RegisteredOK'
  BY DEF RegisteredOK, Registered, LacksNode, GraphNodes

LEMMA GraphIsKept ==
  ASSUME UNCHANGED <<dependency, timerDriven, messageDriven>>
  PROVE  /\ ConstructionPanics' = ConstructionPanics
         /\ ConstructedGraph' = ConstructedGraph
  BY DEF ConstructionPanics, ConstructedGraph, NodesOnTopic, LacksNode, GraphNodes

LEMMA FinalizeKeepsInv ==
  ASSUME IInv, Finalize
  PROVE  IInv'
<1>1. /\ outcome = "running" /\ outcome' \in {"panicked", "finalized"}
      /\ UNCHANGED <<now, running, sent, taken, caused, activity, durations, edges, lastWake,
                     executions, active, dependency, timerDriven, messageDriven>>
  BY DEF Finalize, Panic, CallbacksFinalized, executionVars, callbackVars, graphVars
<1>2. AnalysisTypeOK' /\ PastOK'
  BY FinalizeKeepsType
<1>3. Linked'
  BY <1>1, LinkIsKept DEF IInv
<1>4. (\A k \in Callback : ActivityOK(k)') /\ EdgesOK' /\ AttributionOK' /\ DrawableOK'
  BY <1>1, RecordsAreKept
<1>5. RegisteredOK' /\ CausedOK'
  BY <1>1, RegisteredIsKept, CausesAreKept DEF IInv
<1>6. FinishedOK'
  <2>1. CASE ConstructionPanics
    BY <1>1, <2>1 DEF Finalize, Panic, callbackVars, IInv, FinishedOK
  <2>2. CASE ~ConstructionPanics
    <3>1. callbackGraph' = ConstructedGraph
      BY <2>2 DEF Finalize, CallbacksFinalized
    <3>2. ~ConstructionPanics' /\ ConstructedGraph' = ConstructedGraph
      BY <1>1, <2>2, GraphIsKept
    <3>. QED
      BY <1>1, <3>1, <3>2 DEF FinishedOK
  <2>. QED
    BY <2>1, <2>2
<1>. QED
  BY <1>2, <1>3, <1>4, <1>5, <1>6 DEF IInv

LEMMA StillKeepsInv ==
  ASSUME IInv, UNCHANGED <<executionVars, callbackVars, graphVars>>,
         outcome' = outcome \/ (outcome = "finalized" /\ outcome' \in {"drawn", "undrawable"})
  PROVE  IInv'
<1>1. UNCHANGED <<now, running, sent, taken, caused, awake, executions, started, active, dependency,
                  timerDriven, messageDriven, callbackGraph, activity, durations, edges,
                  lastWake, executing>>
  BY DEF executionVars, callbackVars, graphVars
<1>2. outcome' = "running" => outcome = "running"
  OBVIOUS
<1>3. AnalysisTypeOK' /\ PastOK'
  BY StillKeepsType
<1>4. Linked'
  BY <1>1, <1>2, LinkIsKept DEF IInv
<1>5. (\A k \in Callback : ActivityOK(k)') /\ EdgesOK' /\ AttributionOK' /\ DrawableOK'
  BY <1>1, RecordsAreKept
<1>6. RegisteredOK' /\ CausedOK'
  BY <1>1, RegisteredIsKept, CausesAreKept DEF IInv
<1>7. FinishedOK'
  BY <1>1, <1>2, GraphIsKept DEF IInv, FinishedOK
<1>. QED
  BY <1>3, <1>4, <1>5, <1>6, <1>7 DEF IInv

LEMMA InitInv == Init => IInv
<1>. SUFFICES ASSUME Init PROVE IInv
  OBVIOUS
<1>1. /\ now = 0 /\ running = [t \in Thread |-> Nil] /\ sent = {} /\ caused = {} /\ awake = {}
      /\ taken = [s \in Subscriber |-> << >>]
      /\ executions = [k \in Callback |-> << >>] /\ started = {}
      /\ active = [t \in Thread |-> Nil] /\ dependency = {}
      /\ timerDriven = << >> /\ messageDriven = << >> /\ callbackGraph = Nil
      /\ outcome = "running"
      /\ activity = [x \in Item |-> Nil] /\ durations = [k \in Callback |-> << >>]
      /\ edges = [e \in Edge |-> Nil] /\ lastWake = [n \in RosNode |-> Unknown]
      /\ executing = [t \in Thread |-> Nil]
  BY DEF Init, ExecutionInit, CallbackInit
<1>2. AnalysisTypeOK
  <2>1. now \in Time
    BY <1>1, TimeIsNat
  <2>2. taken \in [Subscriber -> Seq(Message)] /\ executions \in [Callback -> Seq(ExecutionData)]
        /\ durations \in [Callback -> Seq(Time)]
        /\ timerDriven \in Seq(Callback) /\ messageDriven \in Seq(Callback)
    BY <1>1
  <2>3. ExecutionTypeOK
    BY <1>1, <2>1, <2>2 DEF ExecutionTypeOK
  <2>4. CallbackTypeOK
    BY <1>1, <2>2 DEF CallbackTypeOK
  <2>. QED
    BY <1>1, <2>2, <2>3, <2>4 DEF AnalysisTypeOK, Maybe
<1>3. PastOK
  BY <1>1 DEF PastOK, IsKnown
<1>4. Linked
  BY <1>1 DEF Linked
<1>5. ASSUME NEW k \in Callback PROVE ActivityOK(k)
  <2>1. \A t \in Thread : ~RunsOn(t, k)
    BY <1>1 DEF RunsOn
  <2>2. activity[k] = Nil /\ (CallerOf[k] \in Timer => activity[CallerOf[k]] = Nil)
    BY <1>1, ItemKinds
  <2>3. executions[k] = << >> /\ durations[k] = << >>
    BY <1>1
  <2>4. /\ Len(durations[k]) = Len(executions[k])
        /\ \A j \in 1..Len(executions[k]) : durations[k][j] = executions[k][j].duration
    BY <2>3
  <2>. QED
    BY <2>1, <2>2, <2>3, <2>4 DEF ActivityOK
<1>6. ASSUME NEW k \in Callback PROVE InvocationOK(k)
  <2>1. k \in Item /\ <<CallerOf[k], k>> \in Edge
    BY ItemKinds, EdgeKinds
  <2>. QED
    BY <1>1, <2>1 DEF InvocationOK
<1>7. EdgesOK
  BY <1>1, <1>6 DEF EdgesOK
<1>8. AttributionOK
  BY <1>1, EdgeKinds DEF AttributionOK
<1>9. DrawableOK
  BY <1>1 DEF DrawableOK
<1>10. RegisteredOK
  BY <1>1 DEF RegisteredOK
<1>11. CausedOK /\ FinishedOK
  BY <1>1 DEF CausedOK, FinishedOK
<1>. QED
  BY <1>2, <1>3, <1>4, <1>5, <1>7, <1>8, <1>9, <1>10, <1>11 DEF IInv

LEMMA NextKeepsInv ==
  ASSUME IInv, [Next]_vars
  PROVE  IInv'
<1>1. CASE outcome = "running" /\ Event
  <2>1. CASE CallbackRegister
    BY <1>1, <2>1, CallbackRegisterKeepsInv
  <2>2. CASE \E t \in Thread, k \in Callback : CallbackStart(t, k)
    BY <1>1, <2>2, CallbackStartKeepsInv
  <2>3. CASE \E t \in Thread : CallbackEnd(t)
    BY <1>1, <2>3, CallbackEndKeepsInv
  <2>4. CASE \E t \in Thread, p \in Publisher : RmwPublish(t, p)
    BY <1>1, <2>4, RmwPublishKeepsInv
  <2>5. CASE \E s \in Subscriber : RmwTake(s)
    BY <1>1, <2>5, RmwTakeKeepsInv
  <2>6. CASE \E n \in RosNode : SpinWake(n)
    BY <1>1, <2>6, SpinWakeKeepsInv
  <2>7. CASE \E n \in RosNode : SpinEnd(n)
    BY <1>1, <2>7, SpinEndKeepsInv
  <2>. QED
    BY <1>1, <2>1, <2>2, <2>3, <2>4, <2>5, <2>6, <2>7 DEF Event
<1>2. CASE Finalize
  BY <1>2, FinalizeKeepsInv
<1>3. CASE Draw \/ \E e \in Edge : Weigh(e)
  <2>1. /\ UNCHANGED <<executionVars, callbackVars, graphVars>>
        /\ outcome = "finalized" /\ outcome' \in {outcome, "drawn", "undrawable"}
    BY <1>3 DEF Draw, Weigh, Continue
  <2>. QED
    BY <2>1, StillKeepsInv
<1>4. CASE UNCHANGED vars
  <2>1. outcome' = outcome /\ UNCHANGED <<executionVars, callbackVars, graphVars>>
    BY <1>4 DEF vars
  <2>. QED
    BY <2>1, StillKeepsInv
<1>. QED
  BY <1>1, <1>2, <1>3, <1>4 DEF Next

LEMMA InvHolds == Spec => []IInv
<1>1. IInv /\ [Next]_vars => IInv'
  BY NextKeepsInv
<1>. QED
  BY <1>1, InitInv, PTL DEF Spec

-----------------------------------------------------------------------------
LEMMA AttributionIsRight == IInv => PublicationsAreAttributed
<1>. SUFFICES ASSUME IInv PROVE PublicationsAreAttributed
  OBVIOUS
<1>1. PICK published : published = {<<m.publisher, m.by>> : m \in {m \in sent : m.by # Nil}}
  OBVIOUS
<1>2. ASSUME NEW p \in Publisher, NEW k \in Callback
      PROVE  <<p, k>> \in published <=> \E m \in sent : m.publisher = p /\ m.by = k
  BY <1>1, Kinds
<1>3. published \subseteq Publisher \X Callback
  BY <1>1 DEF IInv, AnalysisTypeOK, ExecutionTypeOK, Publication
<1>4. dependency \subseteq Publisher \X Callback
  BY DEF IInv, AnalysisTypeOK, CallbackTypeOK
<1>5. ASSUME NEW p \in Publisher, NEW k \in Callback
      PROVE  /\ <<p, k>> \in dependency <=> <<p, k>> \in published
             /\ edges[<<k, p>>] # Nil <=> <<p, k>> \in published
  <2>1. /\ <<p, k>> \in dependency <=> \E m \in sent : m.publisher = p /\ m.by = k
        /\ edges[<<k, p>>] # Nil <=> \E m \in sent : m.publisher = p /\ m.by = k
    BY DEF IInv, AttributionOK
  <2>. QED
    BY <1>2, <2>1
<1>6. dependency = published
  <2>1. ASSUME NEW d \in Publisher \X Callback PROVE d \in dependency <=> d \in published
    <3>1. PICK p \in Publisher, k \in Callback : d = <<p, k>>
      OBVIOUS
    <3>. QED
      BY <1>5, <3>1
  <2>. QED
    BY <1>3, <1>4, <2>1
<1>. QED
  BY <1>1, <1>5, <1>6 DEF PublicationsAreAttributed

(* A callback that publishes is found by the thread it runs on, and by both analyses
   that look for it: an instance is the active one of the analyses exactly as long as
   its thread executes it. *)
THEOREM PublicationsAlwaysAttributed == Spec => []PublicationsAreAttributed
  BY InvHolds, AttributionIsRight, PTL

LEMMA MeasurementsAgree == IInv => DurationsAgree
<1>. SUFFICES ASSUME IInv, NEW k \in Callback
     PROVE  /\ DurationsOf(executions[k]) = durations[k]
            /\ LET between == InterArrivalTimes(k)
               IN  IsKnown(between) => between = SubSeq(activity[k].delays, 1, Len(between))
            /\ CallerOf[k] \in Timer => activity[CallerOf[k]] = activity[k]
  BY DEF DurationsAgree
<1>1. PICK a, x, d : a = activity[k] /\ x = executions[k] /\ d = durations[k]
  OBVIOUS
<1>2. x \in Seq(ExecutionData) /\ d \in Seq(Time) /\ a \in Activity \cup {Nil}
  BY <1>1, ItemKinds DEF IInv, AnalysisTypeOK, CallbackTypeOK
<1>3. /\ Len(d) = Len(x) /\ \A j \in 1..Len(x) : d[j] = x[j].duration
      /\ a # Nil => \A j \in 1..(Len(x) - 1) : a.delays[j] = x[j + 1].start - x[j].start
      /\ x # << >> => a # Nil /\ (Len(a.delays) = Len(x) \/ Len(a.delays) = Len(x) - 1)
      /\ CallerOf[k] \in Timer => activity[CallerOf[k]] = a
  BY <1>1 DEF IInv, ActivityOK
<1>4. DurationsOf(x) = d
  <2>1. d = [j \in 1..Len(d) |-> d[j]]
    BY <1>2
  <2>2. DOMAIN x = 1..Len(d)
    BY <1>2, <1>3
  <2>3. [j \in DOMAIN x |-> x[j].duration] = [j \in 1..Len(d) |-> d[j]]
    BY <1>3, <2>2
  <2>. QED
    BY <2>1, <2>3 DEF DurationsOf
<1>5. ASSUME NEW b, b = InterArrivalTimes(k), IsKnown(b)
      PROVE  b = SubSeq(a.delays, 1, Len(b))
  <2>1. /\ ~(Len(x) < 2) /\ b = [i \in 1..(Len(x) - 1) |-> x[i + 1].start - x[i].start]
    BY <1>1, <1>5 DEF InterArrivalTimes, IsKnown
  <2>2. PICK n \in Nat : n = Len(x) - 1 /\ n > 0
    <3>1. Len(x) \in Nat
      BY <1>2
    <3>2. Len(x) - 1 \in Nat /\ Len(x) - 1 > 0
      BY <2>1, <3>1
    <3>. QED
      BY <3>2
  <2>3. a # Nil /\ a.delays \in Seq(Time) /\ n <= Len(a.delays)
    BY <1>2, <1>3, <2>1, <2>2 DEF Activity
  <2>4. b = [i \in 1..n |-> a.delays[i]]
    BY <1>3, <2>1, <2>2, <2>3
  <2>5. Len(b) = n
    BY <2>2, <2>4
  <2>6. SubSeq(a.delays, 1, n) = [i \in 1..n |-> a.delays[i]]
    BY <2>2, <2>3
  <2>. QED
    BY <2>4, <2>5, <2>6
<1>. QED
  BY <1>1, <1>3, <1>4, <1>5

(* CallbackDuration and the dependency graph measure the same durations and the same
   times between starts, each from a record of its own; a timer's are those of its
   callback. *)
THEOREM DurationsAlwaysAgree == Spec => []DurationsAgree
  BY InvHolds, MeasurementsAgree, PTL

LEMMA PairsAreInProduct ==
  \A S, T : \A i \in S, h \in T : <<i, h>> \in S \X T
  OBVIOUS

LEMMA CausesAreFound == IInv => CausesAreEdges
<1>. SUFFICES ASSUME IInv, callbackGraph # Nil,
                     NEW c \in caused,
                     NEW i, i = (CHOOSE j \in DOMAIN callbackGraph.nodes :
                                   callbackGraph.nodes[j] = c[1]),
                     NEW h, h = (CHOOSE j \in DOMAIN callbackGraph.nodes :
                                   callbackGraph.nodes[j] = c[2])
     PROVE  <<i, h>> \in callbackGraph.edges
  BY DEF CausesAreEdges
<1>1. /\ callbackGraph.nodes = GraphNodes /\ ~ConstructionPanics
      /\ callbackGraph.edges = UNION {{j \in DOMAIN GraphNodes : GraphNodes[j] = d[2]}
                                        \X NodesOnTopic(TopicOf[d[1]]) : d \in dependency}
  BY DEF IInv, FinishedOK, ConstructedGraph
<1>2. /\ timerDriven \in Seq(Callback) /\ messageDriven \in Seq(Callback)
      /\ DOMAIN GraphNodes = 1..(Len(timerDriven) + Len(messageDriven))
      /\ \A j \in 1..Len(timerDriven) : GraphNodes[j] = timerDriven[j]
      /\ \A j \in 1..Len(messageDriven) :
           GraphNodes[Len(timerDriven) + j] = messageDriven[j]
  <2>1. AnalysisTypeOK
    BY DEF IInv
  <2>2. /\ GraphNodes \in Seq(Callback)
        /\ Len(GraphNodes) = Len(timerDriven) + Len(messageDriven)
    BY <2>1, GraphNodesOf
  <2>3. DOMAIN GraphNodes = 1..(Len(timerDriven) + Len(messageDriven))
    BY <2>2
  <2>4. timerDriven \in Seq(Callback) /\ messageDriven \in Seq(Callback)
    BY <2>1 DEF AnalysisTypeOK, CallbackTypeOK
  <2>. QED
    BY <2>1, <2>3, <2>4, GraphNodesOf
<1>3. PICK p \in Publisher : /\ <<p, c[1]>> \in dependency
                             /\ TopicOf[p] = TopicOf[CallerOf[c[2]]]
  BY DEF IInv, CausedOK
<1>4. c[2] \in Callback /\ CallerOf[c[2]] \in Subscriber
  BY DEF IInv, CausedOK, AnalysisTypeOK, ExecutionTypeOK
<1>5. Registered = Callback
  <2>1. now # 0 /\ now \in Nat
    BY TimeIsNat DEF IInv, RegisteredOK, AnalysisTypeOK, ExecutionTypeOK
  <2>2. now > 0
    BY <2>1
  <2>. QED
    BY <2>2 DEF IInv, RegisteredOK
<1>6. h \in DOMAIN GraphNodes /\ GraphNodes[h] = c[2]
  <2>1. ~LacksNode(c[2])
    BY <1>4, <1>5, Kinds DEF Registered
  <2>. QED
    BY <1>1, <2>1 DEF LacksNode
<1>7. h \in NodesOnTopic(TopicOf[p])
  <2>1. h \notin 1..Len(timerDriven)
    BY <1>2, <1>4, <1>6, Kinds DEF IInv, RegisteredOK
  <2>2. h - Len(timerDriven) \in 1..Len(messageDriven)
    BY <1>2, <1>6, <2>1
  <2>3. PICK g \in 1..Len(messageDriven) : h = Len(timerDriven) + g
    BY <1>2, <2>2, <1>6
  <2>4. messageDriven[g] = c[2] /\ g \in DOMAIN messageDriven
    <3>1. GraphNodes[Len(timerDriven) + g] = messageDriven[g]
      BY <1>2
    <3>2. g \in DOMAIN messageDriven
      BY <1>2
    <3>. QED
      BY <1>6, <2>3, <3>1, <3>2
  <2>. QED
    BY <1>3, <2>3, <2>4 DEF NodesOnTopic
<1>8. i \in DOMAIN GraphNodes /\ GraphNodes[i] = c[1]
  <2>1. ~LacksNode(c[1])
    BY <1>1, <1>3, <1>7 DEF ConstructionPanics
  <2>. QED
    BY <1>1, <2>1 DEF LacksNode
<1>9. PICK d \in dependency : d = <<p, c[1]>>
  BY <1>3
<1>10. <<i, h>> \in {j \in DOMAIN GraphNodes : GraphNodes[j] = d[2]}
                     \X NodesOnTopic(TopicOf[d[1]])
  <2>1. d[1] = p /\ d[2] = c[1]
    BY <1>9
  <2>2. i \in {j \in DOMAIN GraphNodes : GraphNodes[j] = d[2]}
    BY <1>8, <2>1
  <2>3. h \in NodesOnTopic(TopicOf[d[1]])
    BY <1>7, <2>1
  <2>. QED
    BY <2>2, <2>3, PairsAreInProduct, Zenon
<1>. QED
  BY <1>1, <1>10

(* The callback graph is constructed when all is over, from the publishers of each
   callback and the order of registration: it leads from whatever published to what
   that started. *)
THEOREM CausesAreAlwaysEdges == Spec => []CausesAreEdges
  BY InvHolds, CausesAreFound, PTL

(* An executor that is awake was seen to wake up. *)
WakesOK == \A n \in awake : IsKnown(lastWake[n])

LEMMA WakesAreKnown ==
  ASSUME IInv, WakesOK, [Next]_vars
  PROVE  WakesOK'
<1>1. CASE outcome = "running" /\ Event
  <2>1. CASE CallbackRegister
    BY <2>1 DEF CallbackRegister, executionVars, graphVars, WakesOK
  <2>2. ASSUME NEW t \in Thread, NEW k \in Callback, CallbackStart(t, k) PROVE WakesOK'
    BY <2>2 DEF CallbackStart, StartCallback, GraphCallbackStarts, Panic, graphVars, WakesOK
  <2>3. ASSUME NEW t \in Thread, CallbackEnd(t) PROVE WakesOK'
    BY <2>3 DEF CallbackEnd, EndCallback, GraphCallbackEnds, Panic, graphVars, WakesOK
  <2>4. ASSUME NEW t \in Thread, NEW p \in Publisher, RmwPublish(t, p) PROVE WakesOK'
    BY <2>4 DEF RmwPublish, Publish, GraphPublication, WakesOK
  <2>5. ASSUME NEW s \in Subscriber, RmwTake(s) PROVE WakesOK'
    BY <2>5 DEF RmwTake, Take, GraphTake, WakesOK
  <2>6. ASSUME NEW n \in RosNode, SpinWake(n) PROVE WakesOK'
    <3>1. /\ awake' = awake \cup {n} /\ lastWake' = [lastWake EXCEPT ![n] = now'] /\ Tick
          /\ awake \subseteq RosNode /\ lastWake \in [RosNode -> Maybe(Time)]
      BY <2>6 DEF SpinWake, WakeUp, GraphWakeUp, IInv, AnalysisTypeOK, ExecutionTypeOK
    <3>2. now' # Unknown
      BY <3>1, Ticks, ExecutionAssumption DEF IInv
    <3>. QED
      BY <3>1, <3>2 DEF WakesOK, IsKnown
  <2>7. ASSUME NEW n \in RosNode, SpinEnd(n) PROVE WakesOK'
    BY <2>7 DEF SpinEnd, EndSpin, Panic, graphVars, WakesOK
  <2>. QED
    BY <1>1, <2>1, <2>2, <2>3, <2>4, <2>5, <2>6, <2>7 DEF Event
<1>2. CASE Finalize \/ Draw \/ (\E e \in Edge : Weigh(e)) \/ UNCHANGED vars
  <2>1. UNCHANGED <<awake, lastWake>>
    BY <1>2 DEF Finalize, Panic, Draw, Weigh, executionVars, graphVars, vars
  <2>. QED
    BY <2>1 DEF WakesOK
<1>. QED
  BY <1>1, <1>2 DEF Next

LEMMA WakesHold == Spec => []WakesOK
<1>1. Init => WakesOK
  BY DEF Init, ExecutionInit, WakesOK
<1>2. IInv /\ WakesOK /\ [Next]_vars => WakesOK'
  BY WakesAreKnown
<1>. QED
  BY <1>1, <1>2, InvHolds, PTL DEF Spec

LEMMA StepPanicsNot ==
  ASSUME Service = {}, IInv, WakesOK, NoAnalysisPanics, [Next]_vars
  PROVE  NoAnalysisPanics'
<1>1. CASE outcome = "running" /\ Event
  <2>1. CASE CallbackRegister
    BY <2>1 DEF CallbackRegister, Continue, NoAnalysisPanics
  <2>2. CASE \E t \in Thread, k \in Callback : CallbackStart(t, k)
    BY <1>1, <2>2, StartIsAccepted DEF Started, NoAnalysisPanics
  <2>3. CASE \E t \in Thread : CallbackEnd(t)
    BY <1>1, <2>3, EndIsAccepted DEF Ended, NoAnalysisPanics
  <2>4. CASE \E t \in Thread, p \in Publisher : RmwPublish(t, p)
    BY <2>4 DEF RmwPublish, Continue, NoAnalysisPanics
  <2>5. CASE \E s \in Subscriber : RmwTake(s)
    BY <2>5 DEF RmwTake, Continue, NoAnalysisPanics
  <2>6. CASE \E n \in RosNode : SpinWake(n)
    BY <2>6 DEF SpinWake, Continue, NoAnalysisPanics
  <2>7. CASE \E n \in RosNode : SpinEnd(n)
    BY <2>7 DEF SpinEnd, EndSpin, WakesOK, AcceptsSpinEnd, Continue, NoAnalysisPanics
  <2>. QED
    BY <1>1, <2>1, <2>2, <2>3, <2>4, <2>5, <2>6, <2>7 DEF Event
<1>2. CASE Finalize
  <2>1. ASSUME NEW d \in dependency PROVE ~LacksNode(d[2])
    <3>1. PICK p \in Publisher, k \in Callback : d = <<p, k>>
      BY DEF IInv, AnalysisTypeOK, CallbackTypeOK
    <3>2. sent # {}
      BY <3>1 DEF IInv, AttributionOK
    <3>3. now # 0 /\ now \in Nat
      BY <3>2, TimeIsNat DEF IInv, RegisteredOK, AnalysisTypeOK, ExecutionTypeOK
    <3>4. now > 0
      BY <3>3
    <3>5. Registered = Callback
      BY <3>4 DEF IInv, RegisteredOK
    <3>. QED
      BY <3>1, <3>5 DEF Registered
  <2>2. ~ConstructionPanics
    BY <2>1 DEF ConstructionPanics
  <2>. QED
    BY <1>2, <2>2 DEF Finalize, NoAnalysisPanics
<1>3. ASSUME NEW e \in Edge, Weigh(e) PROVE NoAnalysisPanics'
  <2>1. e \in Edge /\ edges[e] # Nil
    BY <1>3 DEF Weigh, DrawnEdges
  <2>2. activity[e[1]] # Nil /\ activity[e[2]] # Nil
    BY <2>1 DEF IInv, DrawableOK
  <2>3. e[1] \in Item /\ e[2] \in Item
    BY <2>1, Kinds DEF Edge, Item
  <2>4. {e[1], e[2]} \subseteq Drawn
    BY <2>2, <2>3 DEF Drawn
  <2>. QED
    BY <1>3, <2>4 DEF Weigh, Continue, NoAnalysisPanics
<1>4. CASE Draw
  BY <1>4 DEF Draw, NoAnalysisPanics
<1>5. CASE UNCHANGED vars
  BY <1>5 DEF vars, NoAnalysisPanics
<1>. QED
  BY <1>1, <1>2, <1>3, <1>4, <1>5 DEF Next

(* A node is activated before an edge leads from or to it, the callbacks are all
   registered before one publishes, an executor that ends a spin was seen to wake up, and
   the analyses and the threads agree on what is running: without services nothing
   panics. *)
THEOREM NoAnalysisEverPanics == ASSUME Service = {} PROVE Spec => []NoAnalysisPanics
<1>1. Init => NoAnalysisPanics
  BY DEF Init, NoAnalysisPanics
<1>2. IInv /\ WakesOK /\ NoAnalysisPanics /\ [Next]_vars => NoAnalysisPanics'
  BY StepPanicsNot
<1>. QED
  BY <1>1, <1>2, InvHolds, WakesHold, PTL DEF Spec
-----------------------------------------------------------------------------
(* What the analyses recorded of the events. *)

(* A callback is executed again only after it ended. *)
OrderedOK(k) ==
  LET x == executions[k] IN
  /\ \A j \in 1..Len(x) : x[j].start <= now
  /\ \A j \in 1..(Len(x) - 1) : x[j].start < x[j + 1].start
  /\ \A t \in Thread : RunsOn(t, k) /\ x # << >> => x[Len(x)].start < running[t].start

(* The times at which callback k published through p. *)
TimesOf(k, p) == {m.time : m \in {m \in sent : m.publisher = p /\ m.by = k}}

(* The edge from a callback to a publisher has a delay between any two messages, and
   they lead from the first to the last. *)
DelaysLead(ds, last, T) ==
  /\ IsFiniteSet(T) /\ Cardinality(T) = Len(ds) + 1
  /\ last \in T /\ \A x \in T : x <= last
  /\ \E x \in T : (\A y \in T : x <= y) /\ Total(ds) = last - x

PublishedOK(k, p) ==
  LET e == edges[<<k, p>>] IN
  e # Nil => DelaysLead(e.delays, e.last, TimesOf(k, p))

RecordsOK ==
  /\ \A k \in Callback : OrderedOK(k)
  /\ \A k \in Callback, p \in Publisher : PublishedOK(k, p)

-----------------------------------------------------------------------------
(* Each effect of an event keeps what was recorded. *)
LEMMA OrderIsKept ==
  ASSUME AnalysisTypeOK, NEW k \in Callback, OrderedOK(k), executions'[k] = executions[k],
         now \in Nat, now' \in Nat, now <= now',
         \A t \in Thread : RunsOn(t, k)' =>
            \/ RunsOn(t, k) /\ running'[t] = running[t]
            \/ running'[t].start \in Nat /\ running'[t].start > now
  PROVE  OrderedOK(k)'
<1>1. PICK x : x = executions[k]
  OBVIOUS
<1>2. x \in Seq(ExecutionData) /\ \A j \in 1..Len(x) : x[j].start \in Nat /\ x[j].start <= now
  <2>1. x \in Seq(ExecutionData)
    BY <1>1 DEF AnalysisTypeOK, CallbackTypeOK
  <2>2. \A j \in 1..Len(x) : x[j] \in ExecutionData
    BY <2>1
  <2>. QED
    BY <1>1, <2>1, <2>2, TimeIsNat DEF OrderedOK, ExecutionData
<1>3. \A j \in 1..Len(x) : x[j].start <= now'
  BY <1>2
<1>4. \A j \in 1..(Len(x) - 1) : x[j].start < x[j + 1].start
  BY <1>1 DEF OrderedOK
<1>5. ASSUME NEW t \in Thread, RunsOn(t, k)', x # << >>
      PROVE  x[Len(x)].start < running'[t].start
  <2>1. CASE RunsOn(t, k) /\ running'[t] = running[t]
    BY <1>1, <1>5, <2>1 DEF OrderedOK
  <2>2. CASE running'[t].start \in Nat /\ running'[t].start > now
    <3>1. Len(x) \in 1..Len(x)
      BY <1>2, <1>5
    <3>2. x[Len(x)].start \in Nat /\ x[Len(x)].start <= now
      BY <1>2, <3>1
    <3>. QED
      BY <2>2, <3>2
  <2>. QED
    BY <1>5, <2>1, <2>2
<1>. QED
  BY <1>1, <1>3, <1>4, <1>5 DEF OrderedOK

LEMMA PublicationsKept ==
  ASSUME NEW k \in Callback, NEW p \in Publisher, PublishedOK(k, p),
         sent' = sent, edges'[<<k, p>>] = edges[<<k, p>>]
  PROVE  PublishedOK(k, p)'
<1>1. TimesOf(k, p)' = TimesOf(k, p)
  BY DEF TimesOf
<1>. QED
  BY <1>1 DEF PublishedOK

LEMMA StartKeepsRecorded ==
  ASSUME IInv, RecordsOK, Tick, NEW t \in Thread, NEW k \in Callback, NEW i \in Instance,
         Started(t, k, i), GotMessage(k, i.message)
  PROVE  RecordsOK'
<1>0. AnalysisTypeOK /\ PastOK
  BY DEF IInv
<1>1. PICK l \in Time \cup {LatencyInvalid} :
        edges' = [edges EXCEPT ![<<CallerOf[k], k>>] = Traversed(@, l)]
  BY StartedEdge
<1>2. \A f \in Edge : f # <<CallerOf[k], k>> => edges'[f] = edges[f]
  BY <1>0, <1>1 DEF AnalysisTypeOK
<1>4. now \in Nat /\ now' \in Nat /\ now < now'
  BY <1>0, Ticks, TimeIsNat
<1>5. ASSUME NEW j \in Callback PROVE OrderedOK(j)'
  <2>1. ASSUME NEW u \in Thread, RunsOn(u, j)'
        PROVE  \/ RunsOn(u, j) /\ running'[u] = running[u]
               \/ running'[u].start \in Nat /\ running'[u].start > now
    <3>1. CASE u = t
      <4>1. running'[u] = i
        BY <1>0, <3>1 DEF Started, AnalysisTypeOK, ExecutionTypeOK
      <4>. QED
        BY <1>4, <4>1 DEF Started
    <3>2. CASE u # t
      <4>1. running'[u] = running[u]
        BY <1>0, <3>2 DEF Started, AnalysisTypeOK, ExecutionTypeOK
      <4>. QED
        BY <2>1, <4>1 DEF RunsOn
    <3>. QED
      BY <3>1, <3>2
  <2>2. executions'[j] = executions[j] /\ OrderedOK(j)
    BY DEF Started, RecordsOK
  <2>. QED
    BY <1>0, <1>4, <2>1, <2>2, OrderIsKept
<1>6. ASSUME NEW j \in Callback, NEW p \in Publisher PROVE PublishedOK(j, p)'
  <2>1. edges'[<<j, p>>] = edges[<<j, p>>]
    BY <1>2, EdgesDiffer, EdgeKinds
  <2>. QED
    BY <2>1, PublicationsKept DEF Started, RecordsOK
<1>. QED
  BY <1>5, <1>6 DEF RecordsOK

LEMMA EndKeepsRecorded ==
  ASSUME IInv, RecordsOK, Tick, NEW t \in Thread, NEW k \in Callback, NEW i \in Instance,
         Ended(t, k, i)
  PROVE  RecordsOK'
<1>0. AnalysisTypeOK /\ PastOK
  BY DEF IInv
<1>2. now \in Nat /\ now' \in Nat /\ now < now'
  BY <1>0, Ticks, TimeIsNat
<1>3. \A u \in Thread : u # t => running'[u] = running[u]
  BY <1>0 DEF Ended, AnalysisTypeOK, ExecutionTypeOK
<1>4. running'[t] = Nil
  BY <1>0 DEF Ended, AnalysisTypeOK, ExecutionTypeOK
<1>5. ASSUME NEW j \in Callback, j # k PROVE OrderedOK(j)'
  <2>1. ASSUME NEW u \in Thread, RunsOn(u, j)'
        PROVE  RunsOn(u, j) /\ running'[u] = running[u]
    BY <1>3, <1>4, <2>1 DEF RunsOn
  <2>2. executions'[j] = executions[j] /\ OrderedOK(j)
    BY <1>0, <1>5 DEF Ended, RecordsOK, AnalysisTypeOK, CallbackTypeOK
  <2>. QED
    BY <1>0, <1>2, <2>1, <2>2, OrderIsKept
<1>6. OrderedOK(k)'
  <2>1. PICK x, y, d : /\ x = executions[k] /\ y = executions'[k]
                       /\ d = [start |-> i.start, duration |-> now' - i.start, thread |-> t]
    OBVIOUS
  <2>2. y = Append(x, d) /\ x \in Seq(ExecutionData) /\ d.start = i.start
    BY <1>0, <2>1 DEF Ended, AnalysisTypeOK, CallbackTypeOK
  <2>3. RunsOn(t, k) /\ i.start \in Nat /\ i.start <= now /\ running[t] = i
    BY <1>0, TimeIsNat DEF Ended, RunsOn, PastOK, Instance
  <2>4. /\ Len(x) \in Nat /\ Len(y) = Len(x) + 1 /\ y[Len(x) + 1] = d
        /\ \A j \in 1..Len(x) : y[j] = x[j]
    BY <2>2
  <2>5. \A j \in 1..Len(x) : x[j] \in ExecutionData
    BY <2>2
  <2>6. OrderedOK(k)
    BY DEF RecordsOK
  <2>7. /\ \A j \in 1..Len(x) : x[j].start \in Nat /\ x[j].start <= now
        /\ \A j \in 1..(Len(x) - 1) : x[j].start < x[j + 1].start
        /\ x # << >> => x[Len(x)].start < i.start
    BY <2>1, <2>3, <2>5, <2>6, TimeIsNat DEF OrderedOK, ExecutionData
  <2>8. ASSUME NEW j \in 1..Len(y) PROVE y[j].start <= now'
    <3>1. CASE j = Len(x) + 1
      BY <1>2, <2>2, <2>3, <2>4, <3>1
    <3>2. CASE j \in 1..Len(x)
      BY <1>2, <2>4, <2>7, <3>2
    <3>. QED
      BY <2>4, <3>1, <3>2
  <2>9. ASSUME NEW j \in 1..(Len(y) - 1) PROVE y[j].start < y[j + 1].start
    <3>1. CASE j = Len(x)
      <4>1. x # << >> /\ y[j] = x[Len(x)] /\ y[j + 1] = d
        BY <2>2, <2>4, <3>1
      <4>. QED
        BY <2>2, <2>7, <4>1
    <3>2. CASE j \in 1..(Len(x) - 1)
      <4>1. y[j] = x[j] /\ y[j + 1] = x[j + 1]
        BY <2>4, <3>2
      <4>. QED
        BY <2>7, <3>2, <4>1
    <3>. QED
      BY <2>4, <3>1, <3>2
  <2>10. ASSUME NEW u \in Thread PROVE ~RunsOn(u, k)'
    <3>1. CASE u = t
      BY <1>4, <3>1 DEF RunsOn
    <3>2. CASE u # t
      BY <1>3, <2>3, <3>2 DEF RunsOn, IInv, Linked
    <3>. QED
      BY <3>1, <3>2
  <2>. QED
    BY <2>1, <2>8, <2>9, <2>10 DEF OrderedOK
<1>7. ASSUME NEW j \in Callback, NEW p \in Publisher PROVE PublishedOK(j, p)'
  BY PublicationsKept DEF Ended, RecordsOK
<1>. QED
  BY <1>5, <1>6, <1>7 DEF RecordsOK

LEMMA DelaysAreInt ==
  ASSUME AnalysisTypeOK, NEW e \in Edge, edges[e] # Nil
  PROVE  edges[e].delays \in Seq(Int)
<1>1. edges[e].delays \in Seq(Time)
  BY DEF AnalysisTypeOK, EdgeData
<1>2. Time \subseteq Int
  BY TimeIsNat
<1>. QED
  BY <1>1, <1>2, SubsetSequences

LEMMA NothingPublished ==
  ASSUME AttributionOK, NEW k \in Callback, NEW p \in Publisher, edges[<<k, p>>] = Nil
  PROVE  TimesOf(k, p) = {}
<1>1. ~\E x \in sent : x.publisher = p /\ x.by = k
  BY DEF AttributionOK
<1>. QED
  BY <1>1 DEF TimesOf

LEMMA DelaysOfOne ==
  ASSUME NEW n \in Nat
  PROVE  DelaysLead(<< >>, n, {n})
<1>1. IsFiniteSet({n}) /\ Cardinality({n}) = 1
  BY FS_Singleton
<1>2. Len(<< >>) + 1 = 1 /\ n - n = 0
  OBVIOUS
<1>. QED
  BY <1>1, <1>2, TotalOfNone DEF DelaysLead

LEMMA DelaysOfMore ==
  ASSUME NEW T \in SUBSET Nat, NEW ds \in Seq(Int), NEW last, DelaysLead(ds, last, T),
         NEW n \in Nat, \A x \in T : x < n
  PROVE  DelaysLead(Append(ds, n - last), n, T \cup {n})
<1>1. PICK U, es : U = T \cup {n} /\ es = Append(ds, n - last)
  OBVIOUS
<1>2. PICK x \in T : (\A y \in T : x <= y) /\ Total(ds) = last - x
  BY DEF DelaysLead
<1>3. last \in T /\ last \in Nat /\ x \in Nat /\ x < n /\ n - last \in Int
  BY DEF DelaysLead
<1>4. IsFiniteSet(U) /\ Cardinality(U) = Cardinality(T) + 1
  <2>1. n \notin T
    OBVIOUS
  <2>. QED
    BY <1>1, <2>1, FS_AddElement DEF DelaysLead
<1>5. Len(es) = Len(ds) + 1
  BY <1>1, <1>3
<1>6. Total(es) = n - x
  <2>1. Total(es) = Total(ds) + (n - last)
    BY <1>1, <1>3, TotalOfMore
  <2>. QED
    BY <1>2, <1>3, <2>1
<1>7. n \in U /\ x \in U /\ (\A y \in U : y <= n) /\ \A y \in U : x <= y
  BY <1>1, <1>2, <1>3
<1>8. Cardinality(U) = Len(es) + 1
  BY <1>4, <1>5 DEF DelaysLead
<1>9. DelaysLead(es, n, U)
  BY <1>4, <1>6, <1>7, <1>8 DEF DelaysLead
<1>. QED
  BY <1>1, <1>9

LEMMA PublishedNow ==
  ASSUME IInv, RecordsOK, Tick, NEW t \in Thread, NEW p \in Publisher, NEW m \in Publication,
         Publishes(t, p, m), m.by # Nil
  PROVE  PublishedOK(m.by, p)'
<1>0. AnalysisTypeOK /\ PastOK
  BY DEF IInv
<1>1. PICK k : k = m.by
  OBVIOUS
<1>2. /\ k \in Callback /\ <<k, p>> \in Edge /\ now' - running[t].start \in Time
      /\ edges' = [edges EXCEPT ![<<k, p>>] = Traversed(@, now' - running[t].start)]
  BY <1>1, PublicationEdge
<1>3. PICK T, d, f : T = TimesOf(k, p) /\ d = edges[<<k, p>>] /\ f = edges'[<<k, p>>]
  OBVIOUS
<1>4. now \in Nat /\ now' \in Nat /\ now < now'
  BY <1>0, Ticks, TimeIsNat
<1>5. T \in SUBSET Nat /\ \A x \in T : x < now'
  <2>1. \A x \in sent : x \in Publication /\ x.time <= now
    BY <1>0 DEF AnalysisTypeOK, ExecutionTypeOK, PastOK
  <2>2. \A x \in sent : x.time \in Nat /\ x.time <= now
    BY <2>1, TimeIsNat DEF Publication
  <2>. QED
    BY <1>3, <1>4, <2>2 DEF TimesOf
<1>6. TimesOf(k, p)' = T \cup {now'}
  <2>1. sent' = sent \cup {m} /\ m.publisher = p /\ m.by = k /\ m.time = now'
    BY <1>1 DEF Publishes
  <2>. QED
    BY <1>3, <2>1 DEF TimesOf
<1>7. /\ f # Nil /\ f.last = now'
      /\ d = Nil => f.delays = << >>
      /\ d # Nil => f.delays = Append(d.delays, now' - d.last)
  <2>1. PICK l \in Time \cup {LatencyInvalid} : l = now' - running[t].start
    BY <1>2
  <2>. QED
    BY <1>0, <1>2, <1>3, <2>1, EdgeTraversed
<1>8. CASE d = Nil
  <2>1. T = {}
    BY <1>2, <1>3, <1>8, NothingPublished DEF IInv
  <2>2. T \cup {now'} = {now'}
    BY <2>1
  <2>3. DelaysLead(<< >>, now', {now'})
    BY <1>4, DelaysOfOne
  <2>. QED
    BY <1>1, <1>3, <1>6, <1>7, <1>8, <2>2, <2>3 DEF PublishedOK
<1>9. CASE d # Nil
  <2>1. DelaysLead(d.delays, d.last, T)
    BY <1>2, <1>3, <1>9 DEF PublishedOK, RecordsOK
  <2>2. d.delays \in Seq(Int)
    BY <1>0, <1>2, <1>3, <1>9, DelaysAreInt
  <2>3. DelaysLead(Append(d.delays, now' - d.last), now', T \cup {now'})
    BY <1>4, <1>5, <2>1, <2>2, DelaysOfMore
  <2>. QED
    BY <1>1, <1>3, <1>6, <1>7, <1>9, <2>3 DEF PublishedOK
<1>. QED
  BY <1>8, <1>9

LEMMA PublicationKeepsRecorded ==
  ASSUME IInv, RecordsOK, Tick, NEW t \in Thread, NEW p \in Publisher, NEW m \in Publication,
         Publishes(t, p, m)
  PROVE  RecordsOK'
<1>0. AnalysisTypeOK /\ PastOK
  BY DEF IInv
<1>1. now \in Nat /\ now' \in Nat /\ now < now'
  BY <1>0, Ticks, TimeIsNat
<1>2. \A f \in Edge : f # <<m.by, p>> => edges'[f] = edges[f]
  BY <1>0 DEF Publishes, AnalysisTypeOK
<1>4. ASSUME NEW k \in Callback PROVE OrderedOK(k)'
  <2>1. executions'[k] = executions[k] /\ OrderedOK(k) /\ running' = running
    BY DEF Publishes, RecordsOK
  <2>2. \A u \in Thread : RunsOn(u, k)' => RunsOn(u, k) /\ running'[u] = running[u]
    BY <2>1 DEF RunsOn
  <2>. QED
    BY <1>0, <1>1, <2>1, <2>2, OrderIsKept
<1>5. ASSUME NEW k \in Callback, NEW q \in Publisher, <<k, q>> # <<m.by, p>>
      PROVE  PublishedOK(k, q)'
  <2>1. edges'[<<k, q>>] = edges[<<k, q>>]
    BY <1>2, <1>5, EdgeKinds
  <2>2. TimesOf(k, q)' = TimesOf(k, q)
    <3>1. sent' = sent \cup {m} /\ ~(m.publisher = q /\ m.by = k)
      BY <1>5 DEF Publishes
    <3>. QED
      BY <3>1 DEF TimesOf
  <2>3. PublishedOK(k, q)
    BY DEF RecordsOK
  <2>. QED
    BY <2>1, <2>2, <2>3 DEF PublishedOK
<1>6. ASSUME NEW k \in Callback, k = m.by PROVE PublishedOK(k, p)'
  <2>1. m.by # Nil
    BY <1>6, NilIsNothing
  <2>. QED
    BY <1>6, <2>1, PublishedNow
<1>7. ASSUME NEW k \in Callback, NEW q \in Publisher PROVE PublishedOK(k, q)'
  <2>1. CASE k = m.by /\ q = p
    BY <1>6, <2>1
  <2>2. CASE ~(k = m.by /\ q = p)
    <3>1. <<k, q>> # <<m.by, p>>
      BY <2>2
    <3>. QED
      BY <1>5, <3>1
  <2>. QED
    BY <2>1, <2>2
<1>. QED
  BY <1>4, <1>7 DEF RecordsOK

LEMMA TakeKeepsRecorded ==
  ASSUME IInv, RecordsOK, Tick, NEW s \in Subscriber, NEW m \in Message, Takes(s, m)
  PROVE  RecordsOK'
<1>0. AnalysisTypeOK /\ PastOK
  BY DEF IInv
<1>1. now \in Nat /\ now' \in Nat /\ now < now'
  BY <1>0, Ticks, TimeIsNat
<1>2. PICK e : e = <<m.publication.publisher, s>>
  OBVIOUS
<1>3. \A f \in Edge : f # e => edges'[f] = edges[f]
  BY <1>0, <1>2 DEF Takes, AnalysisTypeOK
<1>5. ASSUME NEW k \in Callback PROVE OrderedOK(k)'
  <2>1. executions'[k] = executions[k] /\ OrderedOK(k) /\ running' = running
    BY DEF Takes, RecordsOK, callbackVars
  <2>2. \A u \in Thread : RunsOn(u, k)' => RunsOn(u, k) /\ running'[u] = running[u]
    BY <2>1 DEF RunsOn
  <2>. QED
    BY <1>0, <1>1, <2>1, <2>2, OrderIsKept
<1>6. ASSUME NEW k \in Callback, NEW p \in Publisher PROVE PublishedOK(k, p)'
  <2>1. edges'[<<k, p>>] = edges[<<k, p>>]
    <3>1. CASE IsUnknown(m.publication)
      BY <3>1 DEF Takes
    <3>2. CASE ~IsUnknown(m.publication)
      <4>1. m.publication.publisher \in Publisher
        BY <3>2, TakeEdge
      <4>2. <<k, p>> # e
        BY <1>2, <4>1, EdgesDiffer
      <4>. QED
        BY <1>3, <4>2, EdgeKinds
    <3>. QED
      BY <3>1, <3>2
  <2>. QED
    BY <2>1, PublicationsKept DEF Takes, RecordsOK
<1>. QED
  BY <1>5, <1>6 DEF RecordsOK

LEMMA StillKeepsRecorded ==
  ASSUME IInv, RecordsOK, UNCHANGED <<running, sent, executions, edges>>, now' = now \/ Tick
  PROVE  RecordsOK'
<1>0. AnalysisTypeOK
  BY DEF IInv
<1>1. now \in Nat /\ now' \in Nat /\ now <= now'
  <2>1. now \in Nat
    BY <1>0, TimeIsNat DEF AnalysisTypeOK, ExecutionTypeOK
  <2>2. CASE Tick
    BY <1>0, <2>2, Ticks, TimeIsNat
  <2>3. CASE now' = now
    BY <2>1, <2>3
  <2>. QED
    BY <2>2, <2>3
<1>3. ASSUME NEW k \in Callback PROVE OrderedOK(k)'
  <2>1. \A u \in Thread : RunsOn(u, k)' => RunsOn(u, k) /\ running'[u] = running[u]
    BY DEF RunsOn
  <2>2. OrderedOK(k)
    BY DEF RecordsOK
  <2>. QED
    BY <1>0, <1>1, <2>1, <2>2, OrderIsKept
<1>4. ASSUME NEW k \in Callback, NEW p \in Publisher PROVE PublishedOK(k, p)'
  BY PublicationsKept DEF RecordsOK
<1>. QED
  BY <1>3, <1>4 DEF RecordsOK

LEMMA InitRecorded == ASSUME Init PROVE RecordsOK
<1>1. ASSUME NEW k \in Callback PROVE OrderedOK(k)
  <2>1. executions[k] = << >>
    BY DEF Init, CallbackInit
  <2>. QED
    BY <2>1 DEF OrderedOK
<1>2. ASSUME NEW k \in Callback, NEW p \in Publisher PROVE PublishedOK(k, p)
  BY EdgeKinds DEF Init, PublishedOK
<1>. QED
  BY <1>1, <1>2 DEF RecordsOK

LEMMA NextKeepsRecorded ==
  ASSUME IInv, RecordsOK, [Next]_vars
  PROVE  RecordsOK'
<1>1. CASE outcome = "running" /\ Event
  <2>1. CASE CallbackRegister
    <3>1. now' = now /\ UNCHANGED <<running, sent, executions, edges>>
      BY <2>1 DEF CallbackRegister, CallbackAppears, executionVars, graphVars
    <3>. QED
      BY <3>1, StillKeepsRecorded
  <2>2. ASSUME NEW t \in Thread, NEW k \in Callback, CallbackStart(t, k) PROVE RecordsOK'
    BY <1>1, <2>2, StartIsAccepted, StartKeepsRecorded
  <2>3. ASSUME NEW t \in Thread, CallbackEnd(t) PROVE RecordsOK'
    <3>1. Tick /\ \E k \in Callback, i \in Instance : Ended(t, k, i)
      BY <1>1, <2>3, EndIsAccepted
    <3>. QED
      BY <3>1, EndKeepsRecorded
  <2>4. ASSUME NEW t \in Thread, NEW p \in Publisher, RmwPublish(t, p) PROVE RecordsOK'
    BY <1>1, <2>4, PublicationIsAccepted, PublicationKeepsRecorded
  <2>5. ASSUME NEW s \in Subscriber, RmwTake(s) PROVE RecordsOK'
    BY <2>5, TakeIsAccepted, TakeKeepsRecorded
  <2>6. ASSUME NEW n \in RosNode, SpinWake(n) PROVE RecordsOK'
    <3>1. Tick /\ UNCHANGED <<running, sent, executions, edges>>
      BY <2>6 DEF SpinWake, WakeUp, GraphWakeUp, callbackVars
    <3>. QED
      BY <3>1, StillKeepsRecorded
  <2>7. ASSUME NEW n \in RosNode, SpinEnd(n) PROVE RecordsOK'
    <3>1. Tick /\ UNCHANGED <<running, sent, executions, edges>>
      BY <2>7 DEF SpinEnd, EndSpin, Panic, graphVars, callbackVars
    <3>. QED
      BY <3>1, StillKeepsRecorded
  <2>. QED
    BY <1>1, <2>1, <2>2, <2>3, <2>4, <2>5, <2>6, <2>7 DEF Event
<1>2. CASE Finalize
  <2>1. now' = now /\ UNCHANGED <<running, sent, executions, edges>>
    BY <1>2 DEF Finalize, Panic, CallbacksFinalized, executionVars, callbackVars, graphVars
  <2>. QED
    BY <2>1, StillKeepsRecorded
<1>3. CASE Draw \/ \E e \in Edge : Weigh(e)
  <2>1. now' = now /\ UNCHANGED <<running, sent, executions, edges>>
    BY <1>3 DEF Draw, Weigh, executionVars, callbackVars, graphVars
  <2>. QED
    BY <2>1, StillKeepsRecorded
<1>4. CASE UNCHANGED vars
  <2>1. now' = now /\ UNCHANGED <<running, sent, executions, edges>>
    BY <1>4 DEF vars, executionVars, callbackVars, graphVars
  <2>. QED
    BY <2>1, StillKeepsRecorded
<1>. QED
  BY <1>1, <1>2, <1>3, <1>4 DEF Next

(* What was recorded is kept by every event. *)
LEMMA RecordsHold == Spec => []RecordsOK
<1>1. IInv /\ RecordsOK /\ [Next]_vars => RecordsOK'
  BY NextKeepsRecorded
<1>2. Init => RecordsOK
  BY InitRecorded
<1>. QED
  BY <1>1, <1>2, InvHolds, PTL DEF Spec

-----------------------------------------------------------------------------
LEMMA LargestIs ==
  ASSUME NEW S \in SUBSET Int, NEW x \in S, \A y \in S : y <= x
  PROVE  LargestOf(S) = x
<1>1. \A z \in S : (\A y \in S : y <= z) => z = x
  OBVIOUS
<1>. QED
  BY <1>1 DEF LargestOf

LEMMA SmallestIs ==
  ASSUME NEW S \in SUBSET Int, NEW x \in S, \A y \in S : x <= y
  PROVE  SmallestOf(S) = x
<1>1. \A z \in S : (\A y \in S : z <= y) => z = x
  OBVIOUS
<1>. QED
  BY <1>1 DEF SmallestOf

LEMMA TimesAreInt ==
  ASSUME AnalysisTypeOK, NEW k, NEW p
  PROVE  TimesOf(k, p) \in SUBSET Int
  BY TimeIsNat DEF AnalysisTypeOK, ExecutionTypeOK, Publication, TimesOf

LEMMA EventsAreRecorded == IInv /\ RecordsOK => EdgesRecordEvents
<1> SUFFICES ASSUME IInv, RecordsOK PROVE EdgesRecordEvents
  OBVIOUS
<1>1. \A e \in DrawnEdges : Len(edges[e].delays) + 1 = Len(edges[e].latencies)
  BY DEF IInv, EdgesOK, DrawnEdges
<1>2. ASSUME NEW k \in Callback, edges[<<CallerOf[k], k>>] # Nil
      PROVE  /\ edges[<<CallerOf[k], k>>].delays = activity[k].delays
             /\ edges[<<CallerOf[k], k>>].last = activity[k].last
  BY <1>2 DEF IInv, EdgesOK, InvocationOK
<1>3. ASSUME NEW k \in Callback, NEW p \in Publisher, edges[<<k, p>>] # Nil
      PROVE  /\ Len(edges[<<k, p>>].latencies) = Cardinality(TimesOf(k, p))
             /\ edges[<<k, p>>].last = LargestOf(TimesOf(k, p))
             /\ Total(edges[<<k, p>>].delays) = LargestOf(TimesOf(k, p)) - SmallestOf(TimesOf(k, p))
  <2>1. PICK e, T : e = edges[<<k, p>>] /\ T = TimesOf(k, p)
    OBVIOUS
  <2>2. DelaysLead(e.delays, e.last, T)
    BY <1>3, <2>1 DEF RecordsOK, PublishedOK
  <2>3. T \in SUBSET Int
    BY <2>1, TimesAreInt DEF IInv
  <2>4. LargestOf(T) = e.last
    BY <2>2, <2>3, LargestIs DEF DelaysLead
  <2>5. PICK x \in T : (\A y \in T : x <= y) /\ Total(e.delays) = e.last - x
    BY <2>2 DEF DelaysLead
  <2>6. SmallestOf(T) = x
    BY <2>3, <2>5, SmallestIs
  <2>7. Len(e.latencies) = Cardinality(T)
    BY <1>3, <2>1, <2>2, EdgeKinds DEF IInv, EdgesOK, DelaysLead
  <2>. QED
    BY <2>1, <2>4, <2>5, <2>6, <2>7
<1>. QED
  BY <1>1, <1>2, <1>3 DEF EdgesRecordEvents, TimesOf

(* An edge has a latency for each of its messages or executions and the time between
   any two of them, which add up to the time from the first to the last: what is shown
   on it is of the same events its latencies are of (process_edge_to_callback,
   process_publication). *)
THEOREM EdgesAlwaysRecordEvents == Spec => []EdgesRecordEvents
  BY InvHolds, RecordsHold, EventsAreRecorded, PTL

LEMMA QuantileIsOfNearestRank == IInv => QuantilesAreNearestRank
<1> SUFFICES ASSUME IInv, NEW k \in Callback, NEW q \in Quantiles, durations[k] # << >>
             PROVE  NearestRank(durations[k], q, AtQuantile(Sorted(durations[k]), q))
  BY DEF QuantilesAreNearestRank, NearestRank, Count
<1>1. durations[k] \in Seq(Time)
  BY DEF IInv, AnalysisTypeOK
<1>2. Time \subseteq Int
  BY TimeIsNat
<1>3. durations[k] \in Seq(Int)
  BY <1>1, <1>2, SubsetSequences
<1>4. IsQuantile(q)
  BY DependencyGraphAssumption
<1>. QED
  BY <1>3, <1>4, QuantilesAreOfNearestRank

(* The quantiles of the durations of a callback are of nearest rank, in whatever order
   its executions ended (Sorted::quantile). *)
THEOREM QuantilesAreAlwaysNearestRank == Spec => []QuantilesAreNearestRank
  BY InvHolds, QuantileIsOfNearestRank, PTL

(* An edge that is drawn has a latency, so it has a median one. *)
LEMMA MedianLatencyIs ==
  ASSUME IInv, NEW e \in DrawnEdges
  PROVE  MedianLatency(e) \in Nat /\ MedianLatency(e) <= LatencyInvalid
<1>1. PICK d : d = edges[e]
  OBVIOUS
<1>2. d \in EdgeData /\ Len(d.delays) + 1 = Len(d.latencies)
  BY <1>1 DEF DrawnEdges, IInv, AnalysisTypeOK, EdgesOK
<1>3. /\ d.latencies \in Seq(Time \cup {LatencyInvalid})
      /\ \A x \in Time \cup {LatencyInvalid} : x \in Nat /\ x <= LatencyInvalid
  BY <1>2, TimeIsNat, DependencyGraphAssumption DEF EdgeData
<1>4. d.latencies \in Seq(Nat)
  BY <1>3, SubsetSequences
<1>5. d.latencies # << >>
  <2>1. d.delays \in Seq(Time)
    BY <1>2 DEF EdgeData
  <2>2. Len(d.delays) \in Nat
    BY <2>1
  <2>3. Len(d.latencies) # 0
    BY <1>2, <2>2
  <2>. QED
    BY <2>3
<1>6. IsQuantile(<<1, 2>>)
  BY DEF IsQuantile
<1>7. PICK i \in DOMAIN d.latencies : MedianLatency(e) = d.latencies[i]
  BY <1>1, <1>4, <1>5, <1>6, QuantileIsElement DEF MedianLatency, MedianOf
<1>. QED
  BY <1>3, <1>7

(* An edge with a scale. *)
LEMMA ScaleIs ==
  ASSUME NEW e \in Edge, IsScaled(e)
  PROVE  ScaleOf(e) \in Scale
<1>1. CASE e \in Callback \X Publisher
  <2>1. e[1] \in Callback /\ e[1] \notin Publisher
    BY <1>1, Kinds
  <2>2. TypeOf(e) = "publication"
    BY <2>1, Kinds DEF TypeOf
  <2>3. RosNodeOf(e[1]) \in RosNode
    BY <2>1, Kinds, ExecutionAssumption DEF RosNodeOf
  <2>. QED
    BY <2>2, <2>3 DEF ScaleOf, Scale
<1>2. CASE e \in Publisher \X Subscriber
  <2>1. e[1] \in Publisher
    BY <1>2
  <2>2. TypeOf(e) = "communication"
    BY <2>1, Kinds DEF TypeOf
  <2>. QED
    BY <2>2 DEF ScaleOf, Scale
<1>3. CASE \E k \in Callback : e = <<CallerOf[k], k>>
  <2>1. e[1] \in Caller /\ e[1] \notin Publisher /\ e[1] \notin Callback
    BY <1>3, Kinds
  <2>2. RosNodeOf(e[1]) \in RosNode
    BY <2>1, ExecutionAssumption DEF RosNodeOf
  <2>3. CASE e[1] \in Subscriber
    <3>1. TypeOf(e) = "subscription"
      BY <2>1, <2>3, Kinds DEF TypeOf
    <3>. QED
      BY <2>2, <3>1 DEF ScaleOf, Scale
  <2>4. CASE e[1] \in Timer
    <3>1. TypeOf(e) = "timer"
      BY <2>1, <2>4, Kinds DEF TypeOf
    <3>. QED
      BY <2>2, <3>1 DEF ScaleOf, Scale
  <2>5. CASE e[1] \in Service
    <3>1. TypeOf(e) = "service"
      BY <2>1, <2>5, Kinds DEF TypeOf
    <3>. QED
      BY <3>1 DEF IsScaled
  <2>. QED
    BY <2>1, <2>3, <2>4, <2>5, Kinds
<1>. QED
  BY <1>1, <1>2, <1>3 DEF Edge

(* The range of a scale is that of the edges weighed so far, and of nothing if none
   of them has this scale. *)
On(c) == {e \in weighed : IsScaled(e) /\ ScaleOf(e) = c}

Covers(r, S) ==
  /\ S = {} => r = Unset
  /\ \A e \in S : r.low <= MedianLatency(e) /\ MedianLatency(e) <= r.high
  /\ S # {} => /\ \E e \in S : r.low = MedianLatency(e)
               /\ \E e \in S : r.high = MedianLatency(e)

WeighingOK ==
  /\ DrawingTypeOK
  /\ weighed \subseteq DrawnEdges
  /\ outcome \in {"running", "panicked"} => weighed = {}
  /\ outcome = "drawn" => weighed = DrawnEdges
  /\ \A c \in Scale : Covers(ranges[c], On(c))

(* Another edge widens the range by its median latency. *)
LEMMA WidenedCovers ==
  ASSUME IInv, NEW S \in SUBSET DrawnEdges, NEW e \in DrawnEdges,
         NEW r \in [low: Int, high: Int], Covers(r, S)
  PROVE  /\ Widened(r, MedianLatency(e)) \in [low: Int, high: Int]
         /\ Covers(Widened(r, MedianLatency(e)), S \cup {e})
<1>1. PICK m \in Nat : m = MedianLatency(e) /\ m <= LatencyInvalid
  BY MedianLatencyIs
<1>2. PICK w : w = Widened(r, m)
  OBVIOUS
<1>3. /\ w.low = IF m < r.low THEN m ELSE r.low
      /\ w.high = IF m > r.high THEN m ELSE r.high
      /\ w \in [low: Int, high: Int]
      /\ r.low \in Int /\ r.high \in Int
  BY <1>1, <1>2 DEF Widened
<1>4. \A f \in S : MedianLatency(f) \in Nat
  BY MedianLatencyIs
<1>5. CASE S = {}
  <2>1. r.low = LatencyInvalid /\ r.high = -LatencyInvalid - 1 /\ LatencyInvalid \in Nat
    BY <1>5, DependencyGraphAssumption DEF Covers, Unset
  <2>2. w.low = m /\ w.high = m
    BY <1>1, <1>3, <2>1
  <2>3. \A f \in S \cup {e} : f = e
    BY <1>5
  <2>. QED
    BY <1>1, <1>2, <1>3, <2>2, <2>3 DEF Covers
<1>6. CASE S # {}
  <2>1. PICK a \in S, b \in S : r.low = MedianLatency(a) /\ r.high = MedianLatency(b)
    BY <1>6 DEF Covers
  <2>2. ASSUME NEW f \in S \cup {e}
        PROVE  w.low <= MedianLatency(f) /\ MedianLatency(f) <= w.high
    <3>1. CASE f = e
      BY <1>1, <1>3, <3>1
    <3>2. CASE f \in S
      <4>1. r.low <= MedianLatency(f) /\ MedianLatency(f) <= r.high /\ MedianLatency(f) \in Nat
        BY <1>4, <3>2 DEF Covers
      <4>. QED
        BY <1>1, <1>3, <4>1
    <3>. QED
      BY <2>2, <3>1, <3>2
  <2>3. \E f \in S \cup {e} : w.low = MedianLatency(f)
    BY <1>1, <1>3, <2>1
  <2>4. \E f \in S \cup {e} : w.high = MedianLatency(f)
    BY <1>1, <1>3, <2>1
  <2>. QED
    BY <1>1, <1>2, <1>3, <2>2, <2>3, <2>4 DEF Covers
<1>. QED
  BY <1>5, <1>6

LEMMA SameLatencies ==
  ASSUME edges' = edges
  PROVE  /\ DrawnEdges' = DrawnEdges
         /\ \A e : MedianLatency(e)' = MedianLatency(e)
  BY DEF DrawnEdges, MedianLatency

LEMMA CoversStill ==
  ASSUME edges' = edges, NEW r, NEW S, Covers(r, S)
  PROVE  Covers(r, S)'
  BY SameLatencies DEF Covers

LEMMA WeighKeepsWeighing ==
  ASSUME IInv, WeighingOK, NEW e \in Edge, Weigh(e)
  PROVE  WeighingOK'
<1>1. /\ outcome = "finalized" /\ outcome' \in {"finalized", "undrawable"}
      /\ e \in DrawnEdges /\ edges' = edges
      /\ ranges \in [Scale -> [low: Int, high: Int]] /\ weighed \subseteq Edge
      /\ weighed \subseteq DrawnEdges
  BY DEF Weigh, Continue, graphVars, WeighingOK, DrawingTypeOK
<1>2. DrawnEdges' = DrawnEdges
  BY <1>1, SameLatencies
<1>3. CASE UNCHANGED drawingVars
  <2>1. ranges' = ranges /\ weighed' = weighed
    BY <1>3 DEF drawingVars
  <2>2. ASSUME NEW c \in Scale PROVE Covers(ranges[c], On(c))'
    <3>1. On(c)' = On(c) /\ ranges'[c] = ranges[c] /\ Covers(ranges[c], On(c))
      BY <2>1 DEF On, WeighingOK
    <3>2. PICK r, S : r = ranges[c] /\ S = On(c)
      OBVIOUS
    <3>3. Covers(r, S)'
      BY <1>1, <3>1, <3>2, CoversStill
    <3>. QED
      BY <3>1, <3>2, <3>3 DEF Covers
  <2>. QED
    BY <1>1, <1>2, <2>1, <2>2 DEF WeighingOK, DrawingTypeOK
<1>4. CASE ~UNCHANGED drawingVars
  <2>1. /\ weighed' = weighed \cup {e}
        /\ ranges' = IF IsScaled(e)
                     THEN [ranges EXCEPT ![ScaleOf(e)] = Widened(@, MedianLatency(e))]
                     ELSE ranges
    BY <1>4 DEF Weigh
  <2>2. ASSUME NEW c \in Scale
        PROVE  ranges'[c] \in [low: Int, high: Int] /\ Covers(ranges[c], On(c))'
    <3>1. PICK r, S : r = ranges[c] /\ S = On(c)
      OBVIOUS
    <3>2. r \in [low: Int, high: Int] /\ S \in SUBSET DrawnEdges /\ Covers(r, S)
      BY <1>1, <3>1 DEF WeighingOK, On
    <3>3. CASE IsScaled(e) /\ ScaleOf(e) = c
      <4>1. PICK w : w = Widened(r, MedianLatency(e))
        OBVIOUS
      <4>2. ranges'[c] = w
        BY <1>1, <2>1, <3>1, <3>3, <4>1
      <4>3. On(c)' = S \cup {e}
        BY <2>1, <3>1, <3>3 DEF On
      <4>4. w \in [low: Int, high: Int] /\ Covers(w, S \cup {e})
        BY <1>1, <3>2, <4>1, WidenedCovers
      <4>5. PICK T : T = S \cup {e}
        OBVIOUS
      <4>6. Covers(w, T)'
        BY <1>1, <4>4, <4>5, CoversStill
      <4>. QED
        BY <4>2, <4>3, <4>4, <4>5, <4>6 DEF Covers
    <3>4. CASE ~(IsScaled(e) /\ ScaleOf(e) = c)
      <4>1. ranges'[c] = r
        BY <1>1, <2>1, <3>1, <3>4
      <4>2. On(c)' = S
        BY <2>1, <3>1, <3>4 DEF On
      <4>3. Covers(r, S)'
        BY <1>1, <3>2, CoversStill
      <4>. QED
        BY <3>2, <4>1, <4>2, <4>3 DEF Covers
    <3>. QED
      BY <3>3, <3>4
  <2>3. ranges' \in [Scale -> [low: Int, high: Int]]
    <3>1. ranges' = [c \in Scale |-> ranges'[c]]
      BY <1>1, <2>1
    <3>. QED
      BY <2>2, <3>1
  <2>. QED
    BY <1>1, <1>2, <2>1, <2>2, <2>3 DEF WeighingOK, DrawingTypeOK
<1>. QED
  BY <1>3, <1>4

(* Before the trace ends nothing is weighed. *)
LEMMA NothingWeighed ==
  ASSUME WeighingOK, weighed = {}, UNCHANGED drawingVars,
         outcome' \in {"running", "panicked", "finalized"}
  PROVE  WeighingOK'
<1>1. ranges' = ranges /\ weighed' = {}
  BY DEF drawingVars
<1>2. ASSUME NEW c \in Scale PROVE Covers(ranges[c], On(c))'
  <2>1. On(c)' = {} /\ On(c) = {} /\ ranges'[c] = Unset
    BY <1>1 DEF On, WeighingOK, Covers
  <2>. QED
    BY <2>1 DEF Covers, Unset
<1>. QED
  BY <1>1, <1>2 DEF WeighingOK, DrawingTypeOK

LEMMA RunningOrPanicked ==
  ASSUME outcome = "running", Event
  PROVE  outcome' \in {"running", "panicked"}
  BY DEF Event, CallbackRegister, CallbackStart, CallbackEnd, RmwPublish, RmwTake, SpinWake,
         SpinEnd, Continue, Panic

LEMMA NextKeepsWeighing ==
  ASSUME IInv, WeighingOK, [Next]_vars
  PROVE  WeighingOK'
<1>1. CASE outcome = "running" /\ Event /\ UNCHANGED drawingVars
  <2>1. weighed = {}
    BY <1>1 DEF WeighingOK
  <2>. QED
    BY <1>1, <2>1, RunningOrPanicked, NothingWeighed
<1>2. CASE Finalize
  <2>1. weighed = {} /\ UNCHANGED drawingVars /\ outcome' \in {"panicked", "finalized"}
    BY <1>2 DEF Finalize, Panic, WeighingOK
  <2>. QED
    BY <2>1, NothingWeighed
<1>3. ASSUME NEW e \in Edge, Weigh(e) PROVE WeighingOK'
  BY <1>3, WeighKeepsWeighing
<1>4. CASE Draw \/ UNCHANGED vars
  <2>1. /\ ranges' = ranges /\ weighed' = weighed /\ edges' = edges
        /\ outcome' = outcome \/ (outcome' = "drawn" /\ weighed = DrawnEdges)
    BY <1>4 DEF Draw, vars, graphVars, drawingVars
  <2>2. ASSUME NEW c \in Scale PROVE Covers(ranges[c], On(c))'
    <3>1. PICK r, S : r = ranges[c] /\ S = On(c)
      OBVIOUS
    <3>2. Covers(r, S) /\ On(c)' = S /\ ranges'[c] = r
      BY <2>1, <3>1 DEF WeighingOK, On
    <3>3. Covers(r, S)'
      BY <2>1, <3>2, CoversStill
    <3>. QED
      BY <3>2, <3>3 DEF Covers
  <2>3. DrawnEdges' = DrawnEdges
    BY <2>1, SameLatencies
  <2>. QED
    BY <2>1, <2>2, <2>3 DEF WeighingOK, DrawingTypeOK
<1>. QED
  BY <1>1, <1>2, <1>3, <1>4 DEF Next

LEMMA InitWeighing == ASSUME Init PROVE WeighingOK
<1>1. ranges = [c \in Scale |-> Unset] /\ weighed = {} /\ outcome = "running"
  BY DEF Init
<1>2. Unset \in [low: Int, high: Int]
  BY DependencyGraphAssumption DEF Unset
<1>3. ASSUME NEW c \in Scale PROVE Covers(ranges[c], On(c))
  <2>1. On(c) = {} /\ ranges[c] = Unset
    BY <1>1 DEF On
  <2>. QED
    BY <2>1 DEF Covers
<1>. QED
  BY <1>1, <1>2, <1>3 DEF WeighingOK, DrawingTypeOK

(* The ranges are those of what was weighed, after every edge. *)
LEMMA WeighingHolds == Spec => []WeighingOK
<1>1. Init => WeighingOK
  BY InitWeighing
<1>2. IInv /\ WeighingOK /\ [Next]_vars => WeighingOK'
  BY NextKeepsWeighing
<1>. QED
  BY <1>1, <1>2, InvHolds, PTL DEF Spec

(* Types are kept by every event and every edge weighed, whatever the threads do and
   whenever the trace ends. *)
THEOREM TypeCorrect == Spec => []TypeOK
<1>1. IInv /\ WeighingOK => TypeOK
  BY DEF IInv, WeighingOK, TypeOK
<1>. QED
  BY <1>1, InvHolds, WeighingHolds, PTL

LEMMA MultipliedIsInt ==
  ASSUME NEW latency \in Nat
  PROVE  Multiplied(latency) \in Int
<1>1. PICK a \in Nat, b \in Nat \ {0} : a = latency * MinMultiplier[1] /\ b = MinMultiplier[2]
  BY DependencyGraphAssumption
<1>2. a \div b \in Int
  BY <1>1
<1>. QED
  BY <1>1, <1>2, DependencyGraphAssumption DEF Multiplied

(* What is drawn alike was weighed on one scale. *)
LEMMA AlikeAreOnScale ==
  ASSUME NEW e \in DrawnEdges, IsScaled(e), weighed = DrawnEdges
  PROVE  Alike(e) = On(ScaleOf(e)) /\ e \in Alike(e)
<1>1. CASE TypeOf(e) = "communication"
  <2>1. ASSUME NEW f PROVE TypeOf(f) = TypeOf(e) <=> IsScaled(f) /\ ScaleOf(f) = ScaleOf(e)
    BY <1>1 DEF IsScaled, ScaleOf
  <2>. QED
    BY <1>1, <2>1 DEF Alike, On
<1>2. CASE TypeOf(e) # "communication"
  <2>1. TypeOf(e) # "service" /\ RosNodeOf(e[1]) = RosNodeOf(e[2])
    BY <1>2 DEF IsScaled
  <2>2. ASSUME NEW f
        PROVE  TypeOf(f) = TypeOf(e) /\ RosNodeOf(f[1]) = RosNodeOf(e[1])
                   /\ RosNodeOf(f[2]) = RosNodeOf(e[2])
                 <=> IsScaled(f) /\ ScaleOf(f) = ScaleOf(e)
    BY <1>2, <2>1 DEF IsScaled, ScaleOf
  <2>. QED
    BY <1>2, <2>2 DEF Alike, On
<1>. QED
  BY <1>1, <1>2

LEMMA RangesAreOfAlike ==
  ASSUME IInv, WeighingOK, outcome = "drawn", NEW e \in DrawnEdges, IsScaled(e),
         NEW M, M = {MedianLatency(f) : f \in Alike(e)},
         NEW least, least = SmallestOf(M), NEW most, most = LargestOf(M)
  PROVE  /\ HasRange(e)
         /\ RangeOf(e) = <<least, IF Multiplied(least) > most THEN Multiplied(least) ELSE most>>
         /\ MedianLatency(e) \in RangeOf(e)[1]..RangeOf(e)[2]
         /\ RangeOf(e)[1] = RangeOf(e)[2] => M = {least} /\ Multiplied(least) <= least
<1>1. PICK c, r : c = ScaleOf(e) /\ r = ranges[c]
  OBVIOUS
<1>2. c \in Scale
  BY <1>1, ScaleIs DEF DrawnEdges
<1>3. Alike(e) = On(c) /\ e \in Alike(e)
  BY <1>1, AlikeAreOnScale DEF WeighingOK
<1>4. Covers(r, Alike(e))
  BY <1>1, <1>2, <1>3 DEF WeighingOK
<1>5. M \in SUBSET Nat
  BY MedianLatencyIs DEF Alike
<1>6. /\ r.low \in M /\ \A m \in M : r.low <= m
      /\ r.high \in M /\ \A m \in M : m <= r.high
  BY <1>3, <1>4 DEF Covers
<1>7. least = r.low /\ most = r.high
  <2>1. M \in SUBSET Int
    BY <1>5
  <2>2. least = r.low
    BY <1>6, <2>1, SmallestIs
  <2>3. most = r.high
    BY <1>6, <2>1, LargestIs
  <2>. QED
    BY <2>2, <2>3
<1>8. PICK x : x = Multiplied(least) /\ x \in Int
  BY <1>5, <1>6, <1>7, MultipliedIsInt
<1>9. RangeOf(e) = <<least, IF x > most THEN x ELSE most>>
  BY <1>1, <1>7, <1>8 DEF RangeOf
<1>10. HasRange(e)
  <2>1. r.high >= 0 /\ LatencyInvalid \in Nat
    BY <1>5, <1>6, DependencyGraphAssumption
  <2>2. r.high # Unset.high
    BY <1>5, <1>6, <2>1 DEF Unset
  <2>. QED
    BY <1>1, <2>2 DEF HasRange, Validated
<1>11. PICK m \in M : m = MedianLatency(e)
  BY <1>3
<1>12. least \in Nat /\ most \in Nat /\ m \in Nat /\ least <= m /\ m <= most
  BY <1>5, <1>6, <1>7
<1>13. m \in least..(IF x > most THEN x ELSE most)
  BY <1>8, <1>12
<1>14. ASSUME least = IF x > most THEN x ELSE most
       PROVE  M = {least} /\ x <= least
  <2>1. least = most /\ x <= least
    BY <1>8, <1>12, <1>14
  <2>2. \A y \in M : y = least
    BY <1>5, <1>6, <1>7, <2>1
  <2>. QED
    BY <1>6, <1>7, <2>1, <2>2
<1>. QED
  BY <1>8, <1>9, <1>10, <1>11, <1>13, <1>14

LEMMA WeightsAreInRange == IInv /\ WeighingOK => WeightIsInRange
  BY RangesAreOfAlike DEF WeightIsInRange

(* The range every edge is coloured in is that of the medians of its type in its node,
   from the least to the largest or a multiple of the least, in whatever order the edges
   were weighed: an edge that has a scale has a range, of LATENCY_INVALID too
   (process_edges, EdgeWeightStats). *)
THEOREM WeightsAreAlwaysInRange == Spec => []WeightIsInRange
  BY InvHolds, WeighingHolds, WeightsAreInRange, PTL

-----------------------------------------------------------------------------
(* The utilization of threads. *)

(* A function that collects the durations on a thread of the first executions. *)
Collects(f, data, t) ==
  f = [n \in 0..Len(data) |->
         IF n = 0 THEN << >>
         ELSE IF data[n].thread = t THEN Append(f[n - 1], data[n].duration) ELSE f[n - 1]]

(* One that does so for the first m. *)
CollectsUpTo(f, data, t, m) ==
  /\ f \in [0..m -> Seq(Int)]
  /\ \A n \in 0..m :
       f[n] = IF n = 0 THEN << >>
              ELSE IF data[n].thread = t THEN Append(f[n - 1], data[n].duration) ELSE f[n - 1]

LEMMA ExecutionDataIs ==
  ASSUME NEW d \in ExecutionData
  PROVE  d.duration \in Int /\ d.duration \in Nat /\ d.thread \in Thread /\ d.start \in Nat
  BY TimeIsNat DEF ExecutionData

(* There is one for all executions, by induction on their number. *)
LEMMA CollectionExists ==
  ASSUME NEW data \in Seq(ExecutionData), NEW t
  PROVE  \E f : CollectsUpTo(f, data, t, Len(data))
<1> DEFINE P == {m \in Nat : m <= Len(data) => \E f : CollectsUpTo(f, data, t, m)}
<1>0. Len(data) \in Nat
  OBVIOUS
<1>1. 0 \in P
  <2>1. CollectsUpTo([n \in 0..0 |-> << >>], data, t, 0)
    BY DEF CollectsUpTo
  <2>. QED
    BY <2>1
<1>2. ASSUME NEW m \in Nat, m \in P PROVE m + 1 \in P
  <2>0. SUFFICES ASSUME m + 1 <= Len(data) PROVE \E f : CollectsUpTo(f, data, t, m + 1)
    OBVIOUS
  <2>1. PICK f : CollectsUpTo(f, data, t, m)
    BY <1>0, <1>2, <2>0
  <2>2. PICK v : v = IF data[m + 1].thread = t THEN Append(f[m], data[m + 1].duration) ELSE f[m]
    OBVIOUS
  <2>3. v \in Seq(Int)
    <3>1. data[m + 1] \in ExecutionData
      BY <1>0, <2>0
    <3>2. data[m + 1].duration \in Int
      BY <3>1, ExecutionDataIs
    <3>3. f[m] \in Seq(Int)
      BY <2>1 DEF CollectsUpTo
    <3>. QED
      BY <2>2, <3>2, <3>3
  <2>4. PICK g : g = [n \in 0..(m + 1) |-> IF n = m + 1 THEN v ELSE f[n]]
    OBVIOUS
  <2>5. \A n \in 0..m : n \in 0..(m + 1) /\ n # m + 1 /\ g[n] = f[n]
    BY <2>4
  <2>6. g[m + 1] = v
    BY <2>4
  <2>7. \A n \in 0..m : f[n] \in Seq(Int)
    BY <2>1 DEF CollectsUpTo
  <2>8. g \in [0..(m + 1) -> Seq(Int)]
    BY <2>3, <2>4, <2>7
  <2>9. ASSUME NEW n \in 0..(m + 1)
        PROVE  g[n] = IF n = 0 THEN << >>
                      ELSE IF data[n].thread = t THEN Append(g[n - 1], data[n].duration)
                                                 ELSE g[n - 1]
    <3>1. CASE n = m + 1
      <4>1. n # 0 /\ n - 1 = m /\ g[m] = f[m]
        BY <2>5, <3>1
      <4>. QED
        BY <2>2, <2>6, <3>1, <4>1
    <3>2. CASE n \in 0..m /\ n # 0
      <4>1. n - 1 \in 0..m
        BY <3>2
      <4>2. g[n] = f[n] /\ g[n - 1] = f[n - 1]
        BY <2>5, <3>2, <4>1
      <4>. QED
        BY <2>1, <3>2, <4>2 DEF CollectsUpTo
    <3>3. CASE n = 0
      BY <2>1, <2>5, <3>3 DEF CollectsUpTo
    <3>. QED
      BY <3>1, <3>2, <3>3
  <2>. QED
    BY <2>8, <2>9 DEF CollectsUpTo
<1>3. Len(data) \in P
  <2>. HIDE DEF P
  <2>. QED
    BY <1>0, <1>1, <1>2, Induction
<1>. QED
  BY <1>3

(* OnThread is the last value of such a function. *)
LEMMA CollectionIs ==
  ASSUME NEW data \in Seq(ExecutionData), NEW t
  PROVE  \E f : Collects(f, data, t) /\ OnThread(data, t) = f[Len(data)]
<1> DEFINE g == CHOOSE f : Collects(f, data, t)
<1>1. \E f : Collects(f, data, t)
  <2>1. PICK f : CollectsUpTo(f, data, t, Len(data))
    BY CollectionExists
  <2>2. Collects(f, data, t)
    BY <2>1 DEF Collects, CollectsUpTo
  <2>. QED
    BY <2>2
<1>2. Collects(g, data, t)
  BY <1>1
<1>3. OnThread(data, t) = g[Len(data)]
  BY Zenon DEF OnThread, Collects
<1>. QED
  BY <1>2, <1>3

LEMMA CollectionsAgree ==
  ASSUME NEW s \in Seq(ExecutionData), NEW r \in Seq(ExecutionData), NEW t, NEW f, NEW g,
         Collects(f, s, t), Collects(g, r, t),
         NEW m \in Nat, m <= Len(s), m <= Len(r), \A i \in 1..m : s[i] = r[i]
  PROVE  f[m] = g[m] /\ f[m] \in Seq(Int)
<1> DEFINE P == {n \in Nat : n <= m => f[n] = g[n] /\ f[n] \in Seq(Int)}
<1>0. Len(s) \in Nat /\ Len(r) \in Nat
  OBVIOUS
<1>1. 0 \in P
  BY <1>0 DEF Collects
<1>2. ASSUME NEW n \in Nat, n \in P PROVE n + 1 \in P
  <2>0. SUFFICES ASSUME n + 1 <= m PROVE f[n + 1] = g[n + 1] /\ f[n + 1] \in Seq(Int)
    OBVIOUS
  <2>1. f[n] = g[n] /\ f[n] \in Seq(Int)
    BY <1>2, <2>0
  <2>2. n + 1 \in 0..Len(s) /\ n + 1 \in 0..Len(r) /\ n + 1 # 0 /\ (n + 1) - 1 = n
    BY <1>0, <2>0
  <2>3. s[n + 1] = r[n + 1] /\ s[n + 1] \in ExecutionData
    BY <1>0, <2>0
  <2>4. s[n + 1].duration \in Int
    BY <2>3, ExecutionDataIs
  <2>5. /\ f[n + 1] = IF s[n + 1].thread = t THEN Append(f[n], s[n + 1].duration) ELSE f[n]
        /\ g[n + 1] = IF r[n + 1].thread = t THEN Append(g[n], r[n + 1].duration) ELSE g[n]
    BY <2>2 DEF Collects
  <2>. QED
    BY <2>1, <2>3, <2>4, <2>5
<1>3. m \in P
  <2>. HIDE DEF P
  <2>. QED
    BY <1>1, <1>2, Induction
<1>. QED
  BY <1>3

(* OnThread, and the durations of all executions, execution by execution. *)
LEMMA NoneOnThread == \A t : OnThread(<< >>, t) = << >>
<1> SUFFICES ASSUME NEW t PROVE OnThread(<< >>, t) = << >>
  OBVIOUS
<1>1. << >> \in Seq(ExecutionData) /\ Len(<< >>) = 0
  OBVIOUS
<1>2. PICK f : Collects(f, << >>, t) /\ OnThread(<< >>, t) = f[0]
  BY <1>1, CollectionIs
<1>. QED
  BY <1>1, <1>2 DEF Collects

LEMMA MoreOnThread ==
  ASSUME NEW s \in Seq(ExecutionData), NEW x \in ExecutionData, NEW t
  PROVE  /\ OnThread(s, t) \in Seq(Int)
         /\ OnThread(Append(s, x), t) = IF x.thread = t THEN Append(OnThread(s, t), x.duration)
                                                        ELSE OnThread(s, t)
<1>0. PICK r, m : r = Append(s, x) /\ m = Len(s)
  OBVIOUS
<1>1. m \in Nat /\ r \in Seq(ExecutionData) /\ Len(r) = m + 1 /\ r[m + 1] = x
      /\ \A i \in 1..m : r[i] = s[i]
  BY <1>0
<1>2. PICK f : Collects(f, s, t) /\ OnThread(s, t) = f[m]
  BY <1>0, CollectionIs
<1>3. PICK g : Collects(g, r, t) /\ OnThread(r, t) = g[m + 1]
  BY <1>1, CollectionIs
<1>4. f[m] = g[m] /\ f[m] \in Seq(Int)
  <2>1. m <= Len(s) /\ m <= Len(r)
    BY <1>0, <1>1
  <2>. QED
    BY <1>1, <1>2, <1>3, <2>1, CollectionsAgree
<1>5. g[m + 1] = IF x.thread = t THEN Append(g[m], x.duration) ELSE g[m]
  <2>1. m + 1 \in 0..Len(r) /\ m + 1 # 0 /\ (m + 1) - 1 = m
    BY <1>1
  <2>. QED
    BY <1>1, <1>3, <2>1 DEF Collects
<1>. QED
  BY <1>0, <1>2, <1>3, <1>4, <1>5

LEMMA NoDurations == DurationsOf(<< >>) = << >>
  BY DEF DurationsOf

LEMMA MoreDurations ==
  ASSUME NEW s \in Seq(ExecutionData), NEW x \in ExecutionData
  PROVE  /\ DurationsOf(s) \in Seq(Int)
         /\ DurationsOf(Append(s, x)) = Append(DurationsOf(s), x.duration)
<1>1. PICK n \in Nat : n = Len(s) /\ DOMAIN s = 1..n
  OBVIOUS
<1>2. PICK d : d = DurationsOf(s)
  OBVIOUS
<1>3. d = [i \in 1..n |-> s[i].duration]
  BY <1>1, <1>2 DEF DurationsOf
<1>4. \A i \in 1..n : s[i].duration \in Int
  <2>1. \A i \in 1..n : s[i] \in ExecutionData
    BY <1>1
  <2>. QED
    BY <2>1, ExecutionDataIs
<1>5. d \in [1..n -> Int]
  BY <1>3, <1>4
<1>6. d \in Seq(Int) /\ Len(d) = n
  BY <1>5
<1>7. PICK a, b : a = Append(s, x) /\ b = DurationsOf(a)
  OBVIOUS
<1>8. DOMAIN a = 1..(n + 1) /\ a[n + 1] = x /\ \A i \in 1..n : a[i] = s[i]
  BY <1>1, <1>7
<1>9. b = [i \in 1..(n + 1) |-> a[i].duration]
  BY <1>7, <1>8 DEF DurationsOf
<1>10. PICK v \in Int : v = x.duration
  BY ExecutionDataIs
<1>11. PICK c : c = Append(d, v)
  OBVIOUS
<1>12. c \in [1..(n + 1) -> Int] /\ c[n + 1] = v /\ \A i \in 1..n : c[i] = d[i]
  <2>1. /\ c \in Seq(Int) /\ Len(c) = n + 1
        /\ \A i \in 1..(n + 1) : c[i] = IF i = n + 1 THEN v ELSE d[i]
    BY <1>6, <1>11
  <2>2. c \in [1..(n + 1) -> Int]
    BY <2>1
  <2>. QED
    BY <2>1, <2>2
<1>13. \A i \in 1..(n + 1) : b[i] = c[i]
  <2>1. ASSUME NEW i \in 1..n PROVE b[i] = c[i]
    <3>1. b[i] = a[i].duration
      BY <1>9
    <3>2. a[i] = s[i] /\ c[i] = d[i] /\ d[i] = s[i].duration
      BY <1>3, <1>8, <1>12
    <3>. QED
      BY <3>1, <3>2
  <2>2. b[n + 1] = c[n + 1]
    BY <1>8, <1>9, <1>10, <1>12
  <2>. QED
    BY <2>1, <2>2
<1>14. b = c
  BY <1>9, <1>12, <1>13
<1>. QED
  BY <1>2, <1>6, <1>7, <1>10, <1>11, <1>14

(* Executions on some of the threads, and the time they took on each. *)
ExecutionsOn(S) == {d \in ExecutionData : d.thread \in S}

TimesOn(data, S) == [t \in S |-> Total(OnThread(data, t))]

TimesAddUp(data, S) ==
  \A F : SumsOver(F, TimesOn(data, S), S) => F[S] = Total(DurationsOf(data))

LEMMA TimesOnAreInt ==
  ASSUME NEW S, NEW data \in Seq(ExecutionData)
  PROVE  TimesOn(data, S) \in [S -> Int]
<1>1. ASSUME NEW t \in S PROVE Total(OnThread(data, t)) \in Int
  <2>1. OnThread(data, t) \in Seq(Int)
    <3>1. PICK f : Collects(f, data, t) /\ OnThread(data, t) = f[Len(data)]
      BY CollectionIs
    <3>2. Len(data) \in Nat /\ Len(data) <= Len(data)
      OBVIOUS
    <3>. QED
      BY <3>1, <3>2, CollectionsAgree
  <2>2. 0 \in Int
    OBVIOUS
  <2>. QED
    BY <2>1, <2>2, TotalOfMore
<1>. QED
  BY <1>1 DEF TimesOn

(* One more execution adds its time to that of its thread and to that of all. *)
LEMMA OneMoreAddsUp ==
  ASSUME NEW S, IsFiniteSet(S), NEW s \in Seq(ExecutionsOn(S)), NEW x \in ExecutionsOn(S),
         TimesAddUp(s, S)
  PROVE  TimesAddUp(Append(s, x), S)
<1>0. s \in Seq(ExecutionData) /\ x \in ExecutionData /\ x.thread \in S
  BY SubsetSequences DEF ExecutionsOn
<1>1. PICK a : a = Append(s, x)
  OBVIOUS
<1>2. a \in Seq(ExecutionData)
  BY <1>0, <1>1
<1>3. PICK f, g : f = TimesOn(s, S) /\ g = TimesOn(a, S)
  OBVIOUS
<1>4. f \in [S -> Int] /\ g \in [S -> Int]
  BY <1>0, <1>2, <1>3, TimesOnAreInt
<1>5. PICK d \in Int : d = x.duration
  BY <1>0, ExecutionDataIs
<1>6. g[x.thread] = f[x.thread] + d
  <2>1. PICK t \in S : t = x.thread
    BY <1>0
  <2>2. OnThread(s, t) \in Seq(Int) /\ OnThread(a, t) = Append(OnThread(s, t), d)
    BY <1>0, <1>1, <1>5, <2>1, MoreOnThread
  <2>3. Total(OnThread(a, t)) = Total(OnThread(s, t)) + d
    BY <2>2, TotalOfMore
  <2>. QED
    BY <1>3, <2>1, <2>3 DEF TimesOn
<1>7. \A t \in S \ {x.thread} : g[t] = f[t]
  <2>1. \A t \in S \ {x.thread} : OnThread(a, t) = OnThread(s, t)
    BY <1>0, <1>1, MoreOnThread
  <2>. QED
    BY <1>3, <2>1 DEF TimesOn
<1>8. Total(DurationsOf(a)) = Total(DurationsOf(s)) + d
  <2>1. DurationsOf(s) \in Seq(Int) /\ DurationsOf(a) = Append(DurationsOf(s), d)
    BY <1>0, <1>1, <1>5, MoreDurations
  <2>. QED
    BY <2>1, TotalOfMore
<1>9. PICK F : SumsOver(F, f, S)
  BY <1>4, SumsOverExist
<1>10. F[S] = Total(DurationsOf(s))
  BY <1>3, <1>9 DEF TimesAddUp
<1>11. ASSUME NEW G, SumsOver(G, g, S) PROVE G[S] = F[S] + d
  <2>1. PICK t \in S : t = x.thread
    BY <1>0
  <2>2. g[t] = f[t] + d /\ \A u \in S \ {t} : g[u] = f[u]
    BY <1>6, <1>7, <2>1
  <2>3. SumsOver(G, g, S) /\ SumsOver(F, f, S)
    BY <1>9, <1>11
  <2>. QED
    BY <1>4, <1>5, <2>1, <2>2, <2>3, SumsOfOneMore
<1>. QED
  BY <1>1, <1>3, <1>8, <1>10, <1>11 DEF TimesAddUp

(* However executions are spread over threads, the times on the threads add up to
   that of all. *)
LEMMA ThreadsShareTime ==
  ASSUME NEW S, IsFiniteSet(S), NEW data \in Seq(ExecutionsOn(S))
  PROVE  TimesAddUp(data, S)
<1> DEFINE P == {s \in Seq(ExecutionsOn(S)) : TimesAddUp(s, S)}
<1>1. << >> \in P
  <2>1. PICK f : f = TimesOn(<< >>, S)
    OBVIOUS
  <2>2. \A t \in S : f[t] = 0
    BY <2>1, NoneOnThread, TotalOfNone DEF TimesOn
  <2>3. ASSUME NEW F, SumsOver(F, f, S) PROVE F[S] = 0
    BY <2>2, <2>3, SumsOfZero
  <2>4. Total(DurationsOf(<< >>)) = 0
    BY NoDurations, TotalOfNone
  <2>5. TimesAddUp(<< >>, S)
    BY <2>1, <2>3, <2>4 DEF TimesAddUp
  <2>. QED
    BY <2>5
<1>2. ASSUME NEW s \in Seq(ExecutionsOn(S)), NEW x \in ExecutionsOn(S), s \in P
      PROVE  Append(s, x) \in P
  <2>1. TimesAddUp(Append(s, x), S)
    BY <1>2, OneMoreAddsUp
  <2>. QED
    BY <2>1
<1>3. data \in P
  <2>. HIDE DEF P
  <2>. QED
    BY <1>1, <1>2, SequenceInduction
<1>. QED
  BY <1>3

(* The recursive function behind the sum of utilization over threads. *)
SumsThreads(F, k, S) ==
  F = [R \in SUBSET S |->
         IF R = {} THEN 0
         ELSE RealUtilization(k, CHOOSE x \in R : TRUE)[1] + F[R \ {CHOOSE x \in R : TRUE}]]

LEMMA ThreadSumIs ==
  ASSUME NEW k, NEW S
  PROVE  MapThenSumSet(LAMBDA t : RealUtilization(k, t)[1], S)
           = (CHOOSE F : SumsThreads(F, k, S))[S]
  BY Zenon DEF MapThenSumSet, MapThenFoldSet, SumsThreads
LEMMA ThreadsAreFinite ==
  ASSUME NEW k, executions[k] \in Seq(ExecutionData)
  PROVE  IsFiniteSet(ThreadsOf(k)) /\ executions[k] \in Seq(ExecutionsOn(ThreadsOf(k)))
<1>1. PICK x, T : x = executions[k] /\ T = ThreadsOf(k)
  OBVIOUS
<1>2. T = {x[i].thread : i \in DOMAIN x}
  BY <1>1 DEF ThreadsOf
<1>3. PICK m \in Nat : m = Len(x) /\ DOMAIN x = 1..m
  BY <1>1
<1>4. PICK g : g = [i \in 1..m |-> x[i].thread]
  OBVIOUS
<1>5. g \in Surjection(1..m, T)
  BY <1>2, <1>3, <1>4 DEF Surjection
<1>6. IsFiniteSet(T)
  BY <1>5, Intervals, FS_Surjection
<1>7. \A i \in 1..m : x[i] \in ExecutionsOn(T)
  BY <1>1, <1>2, <1>3 DEF ExecutionsOn
<1>8. x \in [1..m -> ExecutionsOn(T)]
  BY <1>1, <1>3, <1>7
<1>. QED
  BY <1>1, <1>6, <1>8

LEMMA ThreadTimesAddUp ==
  ASSUME NEW k, executions[k] \in Seq(ExecutionData)
  PROVE  MapThenSumSet(LAMBDA t : RealUtilization(k, t)[1], ThreadsOf(k))
           = Total(DurationsOf(executions[k]))
<1>1. PICK x, S : x = executions[k] /\ S = ThreadsOf(k)
  OBVIOUS
<1>2. IsFiniteSet(S) /\ x \in Seq(ExecutionsOn(S)) /\ x \in Seq(ExecutionData)
  BY <1>1, ThreadsAreFinite
<1>3. PICK f : f = TimesOn(x, S)
  OBVIOUS
<1>4. \A t \in S : RealUtilization(k, t)[1] = f[t]
  BY <1>1, <1>3 DEF TimesOn, RealUtilization, DurationsOn
<1>5. \A R \in SUBSET S : R # {} => (CHOOSE t \in R : TRUE) \in S
  OBVIOUS
<1>6. \A F : SumsThreads(F, k, S) <=> SumsOver(F, f, S)
  BY <1>4, <1>5 DEF SumsThreads, SumsOver
<1>7. PICK F : SumsOver(F, f, S)
  BY <1>2, <1>3, TimesOnAreInt, SumsOverExist
<1>8. PICK G : G = (CHOOSE F_1 : SumsThreads(F_1, k, S))
  OBVIOUS
<1>9. SumsThreads(G, k, S)
  BY <1>6, <1>7, <1>8
<1>10. G[S] = Total(DurationsOf(x))
  BY <1>2, <1>3, <1>6, <1>9, ThreadsShareTime DEF TimesAddUp
<1>11. MapThenSumSet(LAMBDA t : RealUtilization(k, t)[1], S) = G[S]
  BY <1>8, ThreadSumIs
<1>. QED
  BY <1>1, <1>10, <1>11

(* A thread a callback was executed on has a duration of it. *)
LEMMA SomeOnThread ==
  ASSUME NEW t, NEW data \in Seq(ExecutionData), \E i \in DOMAIN data : data[i].thread = t
  PROVE  OnThread(data, t) \in Seq(Int) /\ OnThread(data, t) # << >>
<1> DEFINE Q(s) == /\ OnThread(s, t) \in Seq(Int)
                   /\ (\E i \in DOMAIN s : s[i].thread = t) => OnThread(s, t) # << >>
           P == {s \in Seq(ExecutionData) : Q(s)}
<1>1. << >> \in P
  <2>1. << >> \in Seq(ExecutionData) /\ << >> \in Seq(Int) /\ DOMAIN << >> = {}
    OBVIOUS
  <2>2. OnThread(<< >>, t) = << >>
    BY NoneOnThread
  <2>. QED
    BY <2>1, <2>2
<1>2. ASSUME NEW s \in Seq(ExecutionData), NEW x \in ExecutionData, s \in P
      PROVE  Append(s, x) \in P
  <2>1. PICK a : a = Append(s, x)
    OBVIOUS
  <2>2. a \in Seq(ExecutionData) /\ DOMAIN a = 1..(Len(s) + 1) /\ a[Len(s) + 1] = x
        /\ Len(s) \in Nat /\ DOMAIN s = 1..Len(s) /\ \A i \in 1..Len(s) : a[i] = s[i]
    BY <2>1
  <2>3. PICK d \in Int : d = x.duration
    BY ExecutionDataIs
  <2>4. PICK r : r = OnThread(s, t)
    OBVIOUS
  <2>5. r \in Seq(Int) /\ OnThread(a, t) = IF x.thread = t THEN Append(r, d) ELSE r
    BY <2>1, <2>3, <2>4, MoreOnThread
  <2>6. Append(r, d) \in Seq(Int) /\ Append(r, d) # << >>
    BY <2>5
  <2>7. ASSUME NEW i \in DOMAIN a, a[i].thread = t PROVE OnThread(a, t) # << >>
    <3>1. CASE i = Len(s) + 1
      BY <2>2, <2>5, <2>6, <2>7, <3>1
    <3>2. CASE i # Len(s) + 1
      <4>1. i \in DOMAIN s /\ s[i].thread = t
        BY <2>2, <2>7, <3>2
      <4>2. r # << >>
        BY <1>2, <2>4, <4>1
      <4>. QED
        BY <2>5, <2>6, <4>2
    <3>. QED
      BY <3>1, <3>2
  <2>8. OnThread(a, t) \in Seq(Int)
    BY <2>5, <2>6
  <2>9. Q(a)
    BY <2>7, <2>8
  <2>. QED
    BY <2>1, <2>2, <2>9
<1>3. data \in P
  <2>. HIDE DEF P
  <2>. QED
    BY <1>1, <1>2, SequenceInduction
<1>. QED
  BY <1>3

(* Starts ascend, so the mean time between them is positive; a period is what the
   trace says. *)
LEMMA InterArrivalIs ==
  ASSUME AnalysisTypeOK, NEW k \in Callback, OrderedOK(k), IsKnown(InterArrivalTime(k))
  PROVE  /\ InterArrivalTime(k) \in Int
         /\ InterArrivalTime(k) <= 0 =>
              /\ CallerOf[k] \in Timer /\ IsKnown(PeriodOf[CallerOf[k]])
              /\ PeriodOf[CallerOf[k]] = InterArrivalTime(k)
<1>1. PICK period : period = IF CallerOf[k] \in Timer THEN PeriodOf[CallerOf[k]] ELSE Unknown
  OBVIOUS
<1>2. PICK measured : measured = InterArrivalTimes(k)
  OBVIOUS
<1>3. InterArrivalTime(k) = IF IsKnown(period) THEN period
                            ELSE IF IsUnknown(measured) THEN Unknown ELSE MeanOf(measured)
  BY <1>1, <1>2 DEF InterArrivalTime
<1>4. CASE IsKnown(period)
  BY <1>1, <1>3, <1>4, CallbackAnalysesAssumption DEF IsKnown, Maybe
<1>5. CASE ~IsKnown(period)
  <2>1. InterArrivalTime(k) = MeanOf(measured) /\ ~IsUnknown(measured)
    BY <1>3, <1>5 DEF IsKnown, IsUnknown
  <2>2. PICK x : x = executions[k]
    OBVIOUS
  <2>3. PICK n \in Nat : n = Len(x) /\ x \in Seq(ExecutionData)
    BY <2>2 DEF AnalysisTypeOK, CallbackTypeOK
  <2>4. n >= 2 /\ measured = [i \in 1..(n - 1) |-> x[i + 1].start - x[i].start]
    BY <1>2, <2>1, <2>2, <2>3 DEF InterArrivalTimes, IsUnknown
  <2>5. ASSUME NEW i \in 1..(n - 1)
        PROVE  x[i + 1].start - x[i].start \in Int /\ 1 <= x[i + 1].start - x[i].start
    <3>1. x[i] \in ExecutionData /\ x[i + 1] \in ExecutionData
      BY <2>3
    <3>2. x[i].start \in Nat /\ x[i + 1].start \in Nat
      BY <3>1, ExecutionDataIs
    <3>3. x[i].start < x[i + 1].start
      BY <2>2, <2>3 DEF OrderedOK
    <3>. QED
      BY <3>2, <3>3
  <2>6. measured \in [1..(n - 1) -> Int] /\ \A i \in 1..(n - 1) : 1 <= measured[i]
    BY <2>4, <2>5
  <2>7. measured \in Seq(Int) /\ Len(measured) = n - 1 /\ n - 1 > 0
    BY <2>4, <2>6
  <2>8. measured # << >>
    BY <2>7
  <2>. QED
    BY <2>1, <2>6, <2>7, <2>8, MeanIsPositive
<1>. QED
  BY <1>4, <1>5

LEMMA UtilizationSums == IInv /\ RecordsOK => UtilizationAddsUp
<1> SUFFICES ASSUME IInv, RecordsOK, NEW k \in Callback,
                    IsKnown(InterArrivalTime(k)), executions[k] # << >>
             PROVE  /\ UtilizationUnits(k) <= 0 =>
                         /\ CallerOf[k] \in Timer
                         /\ IsKnown(PeriodOf[CallerOf[k]]) /\ PeriodOf[CallerOf[k]] <= 0
                    /\ MapThenSumSet(LAMBDA t : RealUtilization(k, t)[1], ThreadsOf(k))
                          = Total(DurationsOf(executions[k]))
                    /\ \A t \in ThreadsOf(k) :
                         /\ k \in CallbacksOn(t)
                         /\ QuantileUtilization(k, t, <<0, 1>>)[1] <= RealUtilization(k, t)[1]
                         /\ RealUtilization(k, t)[1] <= QuantileUtilization(k, t, <<1, 1>>)[1]
  BY DEF UtilizationAddsUp
<1>1. PICK x : x = executions[k]
  OBVIOUS
<1>2. x \in Seq(ExecutionData)
  BY <1>1 DEF IInv, AnalysisTypeOK, CallbackTypeOK
<1>3. ASSUME UtilizationUnits(k) <= 0
      PROVE  /\ CallerOf[k] \in Timer
             /\ IsKnown(PeriodOf[CallerOf[k]]) /\ PeriodOf[CallerOf[k]] <= 0
  <2>1. PICK n \in Nat : n = Len(x) /\ n > 0
    BY <1>1, <1>2
  <2>2. PICK u \in Int : u = InterArrivalTime(k)
    BY InterArrivalIs DEF IInv, RecordsOK
  <2>3. u * n <= 0
    BY <1>1, <1>3, <2>1, <2>2 DEF UtilizationUnits
  <2>4. u <= 0
    <3>1. u > 0 => u * n > 0
      BY <2>1, <2>2
    <3>. QED
      BY <2>1, <2>2, <2>3, <3>1
  <2>. QED
    BY <2>2, <2>4, InterArrivalIs DEF IInv, RecordsOK
<1>4. MapThenSumSet(LAMBDA t : RealUtilization(k, t)[1], ThreadsOf(k))
        = Total(DurationsOf(executions[k]))
  BY <1>1, <1>2, ThreadTimesAddUp
<1>5. ASSUME NEW t \in ThreadsOf(k)
      PROVE  /\ k \in CallbacksOn(t)
             /\ QuantileUtilization(k, t, <<0, 1>>)[1] <= RealUtilization(k, t)[1]
             /\ RealUtilization(k, t)[1] <= QuantileUtilization(k, t, <<1, 1>>)[1]
  <2>1. k \in CallbacksOn(t)
    BY DEF CallbacksOn
  <2>2. PICK d : d = OnThread(x, t)
    OBVIOUS
  <2>3. d \in Seq(Int) /\ d # << >>
    BY <1>1, <1>2, <2>2, SomeOnThread DEF ThreadsOf
  <2>4. AtQuantile(Sorted(d), <<0, 1>>) * Len(d) <= Total(d)
        /\ Total(d) <= AtQuantile(Sorted(d), <<1, 1>>) * Len(d)
    BY <2>3, ExtremesBound
  <2>5. DurationsOn(k, t) = d
    BY <1>1, <2>2 DEF DurationsOn
  <2>. QED
    BY <2>1, <2>4, <2>5 DEF QuantileUtilization, RealUtilization
<1>. QED
  BY <1>3, <1>4, <1>5

(* The time a callback takes of its threads adds up to that of all its executions,
   whatever threads they ran on, and lies between what the shortest and the longest
   execution on the thread would give; it is a fraction of a positive time, unless the
   trace gives a timer a period that is not (Utilization::calculate_utilization_per_callback). *)
THEOREM UtilizationAlwaysAddsUp == Spec => []UtilizationAddsUp
  BY InvHolds, RecordsHold, UtilizationSums, PTL
=============================================================================
