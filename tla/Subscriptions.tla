--------------------------- MODULE Subscriptions ---------------------------
(***************************************************************************)
(* The reception half of the trace processor: the three registries of      *)
(* subscribers, the received messages, the queue of taken messages of each *)
(* subscriber, and the callbacks those messages trigger                    *)
(* (src/processor/ros2.rs with the Subscriber, SubscriptionMessage,        *)
(* Callback and CallbackInstance objects of src/model/mod.rs).             *)
(*                                                                         *)
(* As in Publishers the stream of events is arbitrary, handles carry their *)
(* process context and objects live in heaps.  Of Publishers only what     *)
(* this half reads is left: which nodes exist, and under which keys        *)
(* publications are filed.                                                 *)
(***************************************************************************)
EXTENDS Known, Naturals, Sequences

CONSTANTS
  NodeHandle,
  RmwHandle, RclHandle, RclcppHandle,   \* subscription handles of each layer
  Gid, Topic,
  CallbackHandle,   \* addresses of user callbacks
  Pointer,          \* addresses messages are taken into
  Stamp,            \* source timestamps
  NoStamp,          \* the source timestamp 0
  Subscriber,       \* references to Subscriber objects
  Message,          \* references to SubscriptionMessage objects
  Callback,         \* references to Callback objects
  TakenMax,         \* TAKEN_MESSAGES_MAX
  Nil

Layer == {"rclcpp", "rcl", "rmw"}

TopicKey == Maybe(Topic)

Key == Stamp \X TopicKey

(* `taken' is the queue of messages whose callback has not started yet. *)
SubscriberObject ==
  [rmw: Maybe(RmwHandle), rcl: Maybe(RclHandle), rclcpp: Maybe(RclcppHandle),
   gid: Maybe(Gid), topic: Maybe(Topic), node: Maybe(NodeHandle),
   callback: Maybe(Callback), taken: Seq(Message), removed: BOOLEAN]

(* `match' is the key of the publication the message was matched with, and
   `layers' are the layers whose receive time is known. *)
MessageObject ==
  [subscriber: Maybe(Subscriber), match: Maybe(Key), layers: SUBSET Layer]

(* `running' is the trigger of the running instance. *)
CallbackObject ==
  [caller: Subscriber, named: BOOLEAN, running: Message \cup {Nil}]

ASSUME SubscriptionsAssumption ==
  /\ TakenMax \in Nat \ {0}
  /\ NoStamp \in Stamp
  /\ Nil \notin Subscriber \cup Message \cup Callback
                   \cup SubscriberObject \cup MessageObject \cup CallbackObject
  /\ Unknown \notin NodeHandle \cup RmwHandle \cup RclHandle \cup RclcppHandle \cup Gid
                      \cup Topic \cup Subscriber \cup Callback \cup (Stamp \X (Topic \cup {Unknown}))

VARIABLES
  outcome,          \* "running", "failed" (Err), "panicked" or "hung" (self-deadlock)
  nodes,            \* the nodes nodes_by_rcl knows
  nodeSubscribers,  \* Node::subscribers
  subscribers,      \* heap of Subscriber objects
  subscribersByRmw, subscribersByRcl, subscribersByRclcpp,
  callbacks,        \* heap of Callback objects
  callbacksById,
  messages,         \* heap of SubscriptionMessage objects
  received,         \* received_messages, by address
  published         \* keys of published_messages

registry == <<nodes, nodeSubscribers, subscribersByRmw, subscribersByRcl,
              subscribersByRclcpp, callbacksById>>
heaps    == <<subscribers, callbacks, messages>>
vars     == <<outcome, registry, heaps, received, published>>

TypeOK ==
  /\ outcome \in {"running", "failed", "panicked", "hung"}
  /\ nodes \subseteq NodeHandle
  /\ nodeSubscribers \in [NodeHandle -> SUBSET Subscriber]
  /\ subscribers \in [Subscriber -> SubscriberObject \cup {Nil}]
  /\ subscribersByRmw \in [RmwHandle -> Subscriber \cup {Nil}]
  /\ subscribersByRcl \in [RclHandle -> Subscriber \cup {Nil}]
  /\ subscribersByRclcpp \in [RclcppHandle -> Subscriber \cup {Nil}]
  /\ callbacks \in [Callback -> CallbackObject \cup {Nil}]
  /\ callbacksById \in [CallbackHandle -> Callback \cup {Nil}]
  /\ messages \in [Message -> MessageObject \cup {Nil}]
  /\ received \in [Pointer -> Message \cup {Nil}]
  /\ published \subseteq Key

Init ==
  /\ outcome = "running"
  /\ nodes = {}
  /\ nodeSubscribers = [n \in NodeHandle |-> {}]
  /\ subscribers = [p \in Subscriber |-> Nil]
  /\ subscribersByRmw = [r \in RmwHandle |-> Nil]
  /\ subscribersByRcl = [h \in RclHandle |-> Nil]
  /\ subscribersByRclcpp = [c \in RclcppHandle |-> Nil]
  /\ callbacks = [k \in Callback |-> Nil]
  /\ callbacksById = [f \in CallbackHandle |-> Nil]
  /\ messages = [m \in Message |-> Nil]
  /\ received = [a \in Pointer |-> Nil]
  /\ published = {}
-----------------------------------------------------------------------------
(* Subscriber objects. *)

DefaultSubscriber ==
  [rmw |-> Unknown, rcl |-> Unknown, rclcpp |-> Unknown, gid |-> Unknown,
   topic |-> Unknown, node |-> Unknown, callback |-> Unknown, taken |-> << >>,
   removed |-> FALSE]

AcceptsRmwInit(o, r, g) == IsUnknownOrEq(o.rmw, r) /\ IsUnknownOrEq(o.gid, g)

AfterRmwInit(o, r, g) == [o EXCEPT !.rmw = r, !.gid = g]

AcceptsRclInit(o) == IsUnknown(o.rcl)

(* Mutated form: the two handles are swapped. *)
AfterRclInitSwapped(o, h, t, n) == [o EXCEPT !.rcl = n, !.topic = t, !.node = h]
AfterRclInit(o, h, t, n) == [o EXCEPT !.rcl = h, !.topic = t, !.node = n]

AcceptsRclcppInit(o) == IsUnknown(o.rclcpp)

AfterRclcppInit(o, c) == [o EXCEPT !.rclcpp = c]

(* Mutated form: a second callback replaces the first. *)
AcceptsAnyCallback(o) == TRUE
AcceptsCallback(o) == IsUnknown(o.callback)

AfterSetCallback(o, k) == [o EXCEPT !.callback = k]

(* Mutated form: mark_removed does nothing. *)
AfterNoRemoval(o) == o
AfterRemoval(o) == [o EXCEPT !.removed = TRUE]

(* Subscriber::replace_taken_message drops the oldest message of a full queue;
   Subscriber::take_message pops the front.  In the mutated forms the queue grows
   by one message more, or the back is popped. *)
AfterTakenOneMore(o, m) ==
  [o EXCEPT !.taken = Append(IF Len(@) > TakenMax THEN Tail(@) ELSE @, m)]
AfterTaken(o, m) ==
  [o EXCEPT !.taken = Append(IF Len(@) >= TakenMax THEN Tail(@) ELSE @, m)]

AfterPopBack(o) == [o EXCEPT !.taken = SubSeq(@, 1, Len(@) - 1)]
AfterPop(o) == [o EXCEPT !.taken = Tail(@)]

(* The objects assert that they are not removed before they change. *)
AssertsLive(o) == ~o.removed

FreeSubscriber == \E p \in Subscriber : subscribers[p] = Nil
NewSubscriber  == CHOOSE p \in Subscriber : subscribers[p] = Nil
FreeCallback   == \E k \in Callback : callbacks[k] = Nil
NewCallback    == CHOOSE k \in Callback : callbacks[k] = Nil
FreeMessage    == \E m \in Message : messages[m] = Nil
NewMessage     == CHOOSE m \in Message : messages[m] = Nil

DefaultMessage == [subscriber |-> Unknown, match |-> Unknown, layers |-> {}]

AfterReceive(o, layer) == [o EXCEPT !.layers = @ \cup {layer}]
-----------------------------------------------------------------------------
(* Nothing follows an Err, a panic or a mutex locked twice by one thread: the
   processor and what a handler had changed so far are lost. *)
Stop(how) ==
  /\ outcome' = how
  /\ UNCHANGED <<registry, heaps, received, published>>

Fail  == Stop("failed")
Panic == Stop("panicked")
Hang  == Stop("hung")

Continue == outcome' = outcome
-----------------------------------------------------------------------------
(* What the publication half does, as far as this half can tell. *)

NodeAppears(n) ==
  /\ n \notin nodes
  /\ nodes' = nodes \cup {n}
  /\ Continue
  /\ UNCHANGED <<nodeSubscribers, subscribersByRmw, subscribersByRcl, subscribersByRclcpp,
                 callbacksById, heaps, received, published>>

PublicationFiled(s, t) ==
  /\ <<s, t>> \notin published
  /\ published' = published \cup {<<s, t>>}
  /\ Continue
  /\ UNCHANGED <<registry, heaps, received>>
-----------------------------------------------------------------------------
(* Registration events. *)

(* rmw_subscription_init *)
RmwSubscriptionInit(r, g) ==
  LET p == subscribersByRmw[r] IN
  \/ /\ p # Nil
     /\ ~AssertsLive(subscribers[p])
     /\ Panic
  \/ /\ p # Nil
     /\ AssertsLive(subscribers[p])
     /\ AcceptsRmwInit(subscribers[p], r, g)
     /\ subscribers' = [subscribers EXCEPT ![p] = AfterRmwInit(@, r, g)]
     /\ Continue
     /\ UNCHANGED <<registry, callbacks, messages, received, published>>
  \/ /\ p # Nil => AssertsLive(subscribers[p]) /\ ~AcceptsRmwInit(subscribers[p], r, g)
     /\ FreeSubscriber
     /\ LET heap == IF p = Nil THEN subscribers
                    ELSE [subscribers EXCEPT ![p] = AfterRemoval(@)]
        IN  subscribers' = [heap EXCEPT ![NewSubscriber] = AfterRmwInit(DefaultSubscriber, r, g)]
     /\ subscribersByRmw' = [subscribersByRmw EXCEPT ![r] = NewSubscriber]
     /\ Continue
     /\ UNCHANGED <<nodes, nodeSubscribers, subscribersByRcl, subscribersByRclcpp,
                    callbacksById, callbacks, messages, received, published>>

(* The last part of rcl_subscription_init: p takes over handle h. *)
RegisterByRcl(heap, p, h, n) ==
  LET old == subscribersByRcl[h] IN
  /\ subscribers' = IF old = Nil THEN heap ELSE [heap EXCEPT ![old] = AfterRemoval(@)]
  /\ subscribersByRcl' = [subscribersByRcl EXCEPT ![h] = p]
  /\ nodeSubscribers' = [nodeSubscribers EXCEPT ![n] = @ \cup {p}]
  /\ Continue
  /\ UNCHANGED <<nodes, subscribersByRclcpp, callbacksById, callbacks, messages,
                 received, published>>

(* rcl_subscription_init.  Unlike a publisher, the subscriber that replaces an
   initialised one is given the rmw handle. *)
RclSubscriptionInit(r, h, t, n) ==
  LET p == subscribersByRmw[r]
      o == AfterRclInit([DefaultSubscriber EXCEPT !.rmw = r], h, t, n)
  IN
  \/ /\ n \notin nodes
     /\ Fail
  \/ /\ n \in nodes
     /\ p # Nil
     /\ ~AssertsLive(subscribers[p])
     /\ Panic
  \/ /\ n \in nodes
     /\ p # Nil
     /\ AssertsLive(subscribers[p])
     /\ AcceptsRclInit(subscribers[p])
     /\ RegisterByRcl([subscribers EXCEPT ![p] = AfterRclInit(@, h, t, n)], p, h, n)
     /\ UNCHANGED subscribersByRmw
  \/ /\ n \in nodes
     /\ p # Nil => AssertsLive(subscribers[p]) /\ ~AcceptsRclInit(subscribers[p])
     /\ FreeSubscriber
     /\ LET heap == IF p = Nil THEN subscribers
                    ELSE [subscribers EXCEPT ![p] = AfterRemoval(@)]
        IN  RegisterByRcl([heap EXCEPT ![NewSubscriber] = o], NewSubscriber, h, n)
     /\ subscribersByRmw' = [subscribersByRmw EXCEPT ![r] = NewSubscriber]

(* rclcpp_subscription_init.  The guard of the subscriber's mutex is a temporary
   of the statement whose error path converts the subscriber into an
   error::Object, which locks the mutex again. *)
RclcppSubscriptionInit(c, h) ==
  LET p == subscribersByRcl[h] IN
  \/ /\ p = Nil
     /\ Fail
  \/ /\ p # Nil
     /\ ~AssertsLive(subscribers[p])
     /\ Panic
  \/ /\ p # Nil
     /\ AssertsLive(subscribers[p])
     /\ ~AcceptsRclcppInit(subscribers[p])
     /\ Hang
  \/ /\ p # Nil
     /\ AssertsLive(subscribers[p])
     /\ AcceptsRclcppInit(subscribers[p])
     /\ LET old  == subscribersByRclcpp[c]
            heap == [subscribers EXCEPT ![p] = AfterRclcppInit(@, c)]
        IN  subscribers' = IF old = Nil THEN heap
                           ELSE [heap EXCEPT ![old] = AfterRemoval(@)]
     /\ subscribersByRclcpp' = [subscribersByRclcpp EXCEPT ![c] = p]
     /\ Continue
     /\ UNCHANGED <<nodes, nodeSubscribers, subscribersByRmw, subscribersByRcl,
                    callbacksById, callbacks, messages, received, published>>

(* filter_out_removed_callers: a callback address is free again when the
   subscriber of the callback was marked removed, in the mutated form never. *)
TakenAddressForever(f) == callbacksById[f] # Nil
TakenAddress(f) ==
  LET k == callbacksById[f] IN k # Nil /\ ~subscribers[callbacks[k].caller].removed

(* rclcpp_subscription_callback_added *)
CallbackAdded(f, c) ==
  LET p == subscribersByRclcpp[c] IN
  \/ /\ p = Nil \/ TakenAddress(f)
     /\ Fail
  \/ /\ p # Nil
     /\ ~TakenAddress(f)
     /\ ~AssertsLive(subscribers[p])
     /\ Panic
  \/ /\ p # Nil
     /\ ~TakenAddress(f)
     /\ AssertsLive(subscribers[p])
     /\ ~AcceptsCallback(subscribers[p])
     /\ Fail
  \/ /\ p # Nil
     /\ ~TakenAddress(f)
     /\ AssertsLive(subscribers[p])
     /\ AcceptsCallback(subscribers[p])
     /\ FreeCallback
     /\ callbacks' = [callbacks EXCEPT
                        ![NewCallback] = [caller |-> p, named |-> FALSE, running |-> Nil]]
     /\ callbacksById' = [callbacksById EXCEPT ![f] = NewCallback]
     /\ subscribers' = [subscribers EXCEPT ![p] = AfterSetCallback(@, NewCallback)]
     /\ Continue
     /\ UNCHANGED <<nodes, nodeSubscribers, subscribersByRmw, subscribersByRcl,
                    subscribersByRclcpp, messages, received, published>>

(* rclcpp_callback_register *)
CallbackRegister(f) ==
  LET k == callbacksById[f]
      accepted == k # Nil /\ ~callbacks[k].named
  IN
  \/ /\ ~accepted
     /\ Fail
  \/ /\ accepted
     /\ callbacks' = [callbacks EXCEPT ![k].named = TRUE]
     /\ Continue
     /\ UNCHANGED <<registry, subscribers, messages, received, published>>
-----------------------------------------------------------------------------
(* Reception events, from the innermost layer outwards. *)

(* The key under which rmw_take finds the publication: that of the subscriber's
   topic, else that of publications whose topic is not known.  The mutated form
   does not look at the topic. *)
MatchedByStamp(s, t) ==
  LET found == {k \in published : k[1] = s}
  IN  IF s = NoStamp \/ found = {} THEN Unknown ELSE CHOOSE k \in found : TRUE
Matched(s, t) ==
  IF s = NoStamp THEN Unknown
  ELSE IF <<s, t>> \in published THEN <<s, t>>
  ELSE IF <<s, Unknown>> \in published THEN <<s, Unknown>>
  ELSE Unknown

(* rmw_take.  Without `taken' nothing was there to take and the message object
   goes to the analyses only. *)
RmwTake(r, a, s, taken) ==
  LET p == subscribersByRmw[r] IN
  \/ /\ p = Nil
     /\ Fail
  \/ /\ p # Nil
     /\ taken
     /\ ~AssertsLive(subscribers[p])
     /\ Panic
  \/ /\ p # Nil
     /\ ~taken
     /\ UNCHANGED vars
  \/ /\ p # Nil
     /\ taken
     /\ AssertsLive(subscribers[p])
     /\ FreeMessage
     /\ messages' = [messages EXCEPT
                       ![NewMessage] = [subscriber |-> p,
                                        match |-> Matched(s, subscribers[p].topic),
                                        layers |-> {"rmw"}]]
     /\ subscribers' = [subscribers EXCEPT ![p] = AfterTaken(@, NewMessage)]
     /\ received' = [received EXCEPT ![a] = NewMessage]
     /\ Continue
     /\ UNCHANGED <<registry, callbacks, published>>

(* rcl_take and rclcpp_take differ in the layer only.  When the message at the
   address passed the layer already, the event is of a message whose earlier
   events are missing. *)
OuterTake(a, layer) ==
  LET m == received[a]
      found == m # Nil /\ layer \notin messages[m].layers
  IN
  /\ \/ /\ found
        /\ messages' = [messages EXCEPT ![m] = AfterReceive(@, layer)]
        /\ UNCHANGED received
     \/ /\ ~found
        /\ FreeMessage
        /\ messages' = [messages EXCEPT ![NewMessage] = AfterReceive(DefaultMessage, layer)]
        /\ received' = [received EXCEPT ![a] = NewMessage]
  /\ Continue
  /\ UNCHANGED <<registry, subscribers, callbacks, published>>

RclTake(a)    == OuterTake(a, "rcl")
RclcppTake(a) == OuterTake(a, "rclcpp")

(* callback_start: the new instance takes the oldest message of its subscriber. *)
CallbackStart(f) ==
  LET k == callbacksById[f]
      p == callbacks[k].caller
  IN
  \/ /\ k = Nil
     /\ Fail
  \/ /\ k # Nil
     /\ callbacks[k].running # Nil \/ subscribers[p].taken = << >>
     /\ Panic
  \/ /\ k # Nil
     /\ callbacks[k].running = Nil
     /\ subscribers[p].taken # << >>
     /\ callbacks' = [callbacks EXCEPT ![k].running = Head(subscribers[p].taken)]
     /\ subscribers' = [subscribers EXCEPT ![p] = AfterPop(@)]
     /\ Continue
     /\ UNCHANGED <<registry, messages, received, published>>

(* callback_end *)
CallbackEnd(f) ==
  LET k == callbacksById[f] IN
  \/ /\ k = Nil
     /\ Fail
  \/ /\ k # Nil
     /\ callbacks[k].running = Nil
     /\ Panic
  \/ /\ k # Nil
     /\ callbacks[k].running # Nil
     /\ callbacks' = [callbacks EXCEPT ![k].running = Nil]
     /\ Continue
     /\ UNCHANGED <<registry, subscribers, messages, received, published>>
-----------------------------------------------------------------------------
Registration ==
  \/ \E n \in NodeHandle : NodeAppears(n)
  \/ \E r \in RmwHandle, g \in Gid : RmwSubscriptionInit(r, g)
  \/ \E r \in RmwHandle, h \in RclHandle, t \in Topic, n \in NodeHandle :
       RclSubscriptionInit(r, h, t, n)
  \/ \E c \in RclcppHandle :
       \/ \E h \in RclHandle : RclcppSubscriptionInit(c, h)
       \/ \E f \in CallbackHandle : CallbackAdded(f, c)
  \/ \E f \in CallbackHandle : CallbackRegister(f)

Reception ==
  \/ \E s \in Stamp, t \in TopicKey : PublicationFiled(s, t)
  \/ \E a \in Pointer :
       \/ \E r \in RmwHandle, s \in Stamp, taken \in BOOLEAN : RmwTake(r, a, s, taken)
       \/ RclTake(a)
       \/ RclcppTake(a)

Execution == \E f \in CallbackHandle : CallbackStart(f) \/ CallbackEnd(f)

Next == outcome = "running" /\ (Registration \/ Reception \/ Execution)

Spec == Init /\ [][Next]_vars
-----------------------------------------------------------------------------
(* What holds of the processor whatever events it is fed. *)

Queued(p, m) ==
  /\ subscribers[p] # Nil
  /\ \E i \in 1..Len(subscribers[p].taken) : subscribers[p].taken[i] = m

(* The queue of a subscriber is bounded, has no message twice, and holds only
   messages rmw_take delivered to this very subscriber: with several queues, a
   full queue and reused message addresses no message strays. *)
QueueHoldsOwnMessages ==
  \A p \in Subscriber :
    subscribers[p] # Nil =>
      LET q == subscribers[p].taken IN
      /\ Len(q) <= TakenMax
      /\ \A i, j \in 1..Len(q) : q[i] = q[j] => i = j
      /\ \A i \in 1..Len(q) :
           /\ messages[q[i]] # Nil
           /\ messages[q[i]].subscriber = p
           /\ "rmw" \in messages[q[i]].layers

(* A matched message was matched under the topic of its subscriber or under the
   unknown topic, and only messages a subscriber took are matched. *)
MatchedOnTopic ==
  \A m \in Message :
    messages[m] # Nil /\ IsKnown(messages[m].match) =>
      /\ messages[m].match \in published
      /\ messages[m].match[1] # NoStamp
      /\ IsKnown(messages[m].subscriber)
      /\ messages[m].match[2] \in {Unknown, subscribers[messages[m].subscriber].topic}

(* A callback and its subscriber refer to each other; the subscriber is in the
   list of a node, which keeps it alive: CallbackInstance::new unwraps the weak
   reference of the callback to its caller. *)
CallerIsAlive ==
  \A k \in Callback :
    callbacks[k] # Nil =>
      LET p == callbacks[k].caller IN
      /\ subscribers[p] # Nil
      /\ subscribers[p].callback = k
      /\ IsKnown(subscribers[p].node)
      /\ p \in nodeSubscribers[subscribers[p].node]

(* A live subscriber is found under each of its handles, and the handle that
   finds it is its own; so events of one layer reach the same object as those
   of another. *)
LiveIsFound ==
  /\ \A p \in Subscriber :
       subscribers[p] # Nil /\ ~subscribers[p].removed =>
         /\ IsKnown(subscribers[p].rmw) => subscribersByRmw[subscribers[p].rmw] = p
         /\ IsKnown(subscribers[p].rcl) => subscribersByRcl[subscribers[p].rcl] = p
         /\ IsKnown(subscribers[p].rclcpp) => subscribersByRclcpp[subscribers[p].rclcpp] = p
  /\ \A r \in RmwHandle :
       subscribersByRmw[r] # Nil => subscribers[subscribersByRmw[r]].rmw = r
  /\ \A h \in RclHandle :
       subscribersByRcl[h] # Nil => subscribers[subscribersByRcl[h]].rcl = h
  /\ \A c \in RclcppHandle :
       subscribersByRclcpp[c] # Nil => subscribers[subscribersByRclcpp[c]].rclcpp = c

(* Every event handler promises an answer, be it the error "already initialized
   by event" (src/model/mod.rs:29): none blocks on a mutex its own thread holds. *)
NeverHangs == outcome # "hung"

-----------------------------------------------------------------------------
(* What a step may never do. *)

(* Messages start callbacks in the order they were taken: an instance gets the
   oldest message of its subscriber.  A queue loses a message in no other way,
   except that a full one drops its oldest for a new one. *)
TriggeredInOrder ==
  [][ \A p \in Subscriber :
        LET old == subscribers[p].taken
            new == subscribers'[p].taken
        IN  subscribers[p] # Nil /\ old # new =>
              \/ /\ old # << >> /\ new = Tail(old)
                 /\ callbacks'[subscribers[p].callback].running = Head(old)
              \/ /\ new # << >>
                 /\ messages[new[Len(new)]] = Nil
                 /\ SubSeq(new, 1, Len(new) - 1) =
                      IF Len(old) = TakenMax THEN Tail(old) ELSE old ]_vars
=============================================================================
