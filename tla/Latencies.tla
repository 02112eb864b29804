----------------------------- MODULE Latencies -----------------------------
(***************************************************************************)
(* The latency analyses MessageLatency and MessageTakeToCallbackLatency    *)
(* (src/analysis/message_latency.rs and                                    *)
(* message_take_to_callback_execution_latency.rs) over the received        *)
(* messages of Subscriptions and the application of SubscriptionApp.       *)
(*                                                                         *)
(* Of a latency the model keeps which message it is of and from which      *)
(* layer the receive time was taken.  A series of MessageLatency is that   *)
(* of a subscriber, whatever publisher its messages are from.              *)
(***************************************************************************)
EXTENDS SubscriptionApp, SequencesExt

(* The message object of an rmw_take without `taken': it has a subscriber and a
   receive time, but no one ever got it.  Bound: one in a trace. *)
Nothing == [nothingFor: Subscriber]

ASSUME LatenciesAssumption == Message \cap Nothing = {}

VARIABLES
  pending,       \* MessageLatency::messages
  latencies,     \* MessageLatency::latencies
  takeLatencies, \* MessageTakeToCallbackLatency::latencies
  analysis       \* "running", "finalized" or "panicked"

latencyVars == <<pending, latencies, takeLatencies, analysis>>

LatencyInit ==
  /\ AppInit
  /\ pending = {}
  /\ latencies = [p \in Subscriber |-> << >>]
  /\ takeLatencies = [k \in Callback |-> << >>]
  /\ analysis = "running"
-----------------------------------------------------------------------------
(* SubscriptionMessage::get_receive_time: that of the outermost layer; in the
   mutated form of the innermost. *)
InnermostLayer(layers) ==
  IF "rmw" \in layers THEN "rmw" ELSE IF "rcl" \in layers THEN "rcl" ELSE "rclcpp"
OutermostLayer(layers) ==
  IF "rclcpp" \in layers THEN "rclcpp" ELSE IF "rcl" \in layers THEN "rcl" ELSE "rmw"

(* A message as the event leaves it. *)
SubscriberOf(m) == IF m \in Nothing THEN m.nothingFor ELSE messages'[m].subscriber
LatencyOf(m) ==
  [message |-> m,
   layer |-> OutermostLayer(IF m \in Nothing THEN {"rmw"} ELSE messages'[m].layers)]

(* The series with the latencies of messages S, those without a subscriber left
   out. *)
Recorded(S) ==
  [p \in Subscriber |->
     latencies[p] \o SetToSeq({LatencyOf(m) : m \in {m \in S : SubscriberOf(m) = p}})]

(* rmw_take: whatever `taken' says. *)
RmwTaken(m) ==
  /\ pending' = pending \cup {m}
  /\ UNCHANGED <<latencies, takeLatencies, analysis>>

(* rcl_take and rclcpp_take find a message that is not new among the pending. *)
IsNewAt(a, layer) == received[a] = Nil \/ layer \in messages[received[a]].layers

OuterTakePanics(a, layer) == ~IsNewAt(a, layer) /\ received[a] \notin pending

LatencyPanic ==
  /\ analysis' = "panicked"
  /\ UNCHANGED <<pending, latencies, takeLatencies>>

RclTaken(a) ==
  IF OuterTakePanics(a, "rcl") THEN LatencyPanic
  ELSE /\ pending' = pending \cup {received'[a]}
       /\ UNCHANGED <<latencies, takeLatencies, analysis>>

(* The message is complete, and leaves the pending; in the mutated form it stays. *)
StillPending(m) == pending \cup {m}
NoLongerPending(m) == pending \ {m}

RclcppTaken(a) ==
  IF OuterTakePanics(a, "rclcpp") THEN LatencyPanic
  ELSE /\ pending' = NoLongerPending(received'[a])
       /\ latencies' = Recorded({received'[a]})
       /\ UNCHANGED <<takeLatencies, analysis>>

(* MessageTakeToCallbackLatency::process_callback_start of callback k. *)
CallbackStarted(k) ==
  /\ takeLatencies' =
       [takeLatencies EXCEPT ![k] = Append(@, LatencyOf(callbacks'[k].running))]
  /\ UNCHANGED <<pending, latencies, analysis>>

(* The remaining messages, which are missing their rclcpp_take, come last. *)
FinalizeLatencies ==
  /\ analysis' = "finalized"
  /\ UNCHANGED <<vars, appVars, takeLatencies>>
  /\ latencies' = Recorded(pending)
  /\ pending' = {}

(* A take of a thread that finds no message. *)
TakeNothing(t, x) ==
  /\ In(x, "ready")
  /\ taking[t] = Nil
  /\ pending \cap Nothing = {}
  /\ RmwTake(RmwOf(x), AddressOf[t], NoStamp, FALSE)
  /\ UNCHANGED appVars
  /\ RmwTaken([nothingFor |-> subscribersByRmw[RmwOf(x)]])

LatencyNext ==
  /\ outcome = "running"
  /\ analysis = "running"
  /\ \/ AppRegistration /\ UNCHANGED latencyVars
     \/ \E t \in Thread :
          \/ \E x \in Slot :
               \/ \E s \in Stamp : TakeRmw(t, x, s) /\ RmwTaken(NewMessage)
               \/ TakeNothing(t, x)
          \/ TakeRcl(t) /\ RclTaken(AddressOf[t])
          \/ TakeRclcpp(t) /\ RclcppTaken(AddressOf[t])
     \/ \E x \in Slot : StartCallback(x) /\ CallbackStarted(callbacksById[CallbackOf(x)])
     \/ FinalizeLatencies

LatencySpec == LatencyInit /\ [][LatencyNext]_<<vars, appVars, latencyVars>>
-----------------------------------------------------------------------------
Occurrences(m, series) == Cardinality({i \in DOMAIN series : series[i].message = m})

(* A message the application took is in exactly one place: pending until its last
   take, and from then on, or when the trace ends before, in the series of its own
   subscriber once.  The assertions that it is pending never fail. *)
EachMessageCountsOnce ==
  /\ analysis # "panicked"
  /\ \A m \in Message : messages[m] # Nil =>
       /\ m \in pending <=> analysis = "running" /\ "rclcpp" \notin messages[m].layers
       /\ \A p \in Subscriber :
            Occurrences(m, latencies[p]) =
              IF p = messages[m].subscriber /\ m \notin pending THEN 1 ELSE 0

(* The time a message waits for its callback counts from when it had passed all
   layers: no instance is attributed a message that is still being taken.  It is the
   time the application's own message waited. *)
WaitingStartsAtTake ==
  \A k \in Callback : \A i \in DOMAIN takeLatencies[k] :
    LET l == takeLatencies[k][i] IN
    /\ l.layer = "rclcpp"
    /\ messages[l.message].subscriber = callbacks[k].caller
    /\ Occurrences(l.message, takeLatencies[k]) = 1

(* "The remaining messages are missing the RclCppTake event"
   (src/analysis/message_latency.rs:242-243): what finalize() records a latency of is a
   message some subscriber took. *)
LatenciesAreOfMessages ==
  \A p \in Subscriber : \A i \in DOMAIN latencies[p] : latencies[p][i].message \in Message
=============================================================================
