----------------------- MODULE SubscriptionAppProofs -----------------------
(***************************************************************************)
(* Proofs about Subscriptions, for every set of nodes, handles, addresses, *)
(* topics, timestamps and objects and for queues of every length, and      *)
(* about SubscriptionApp and Latencies, for every number of slots,         *)
(* threads, handles and messages, when addresses are reused together       *)
(* (~AnyReuse).                                                            *)
(*                                                                         *)
(* The properties of Subscriptions hold together only: a callback's caller *)
(* is alive because of what registration leaves behind in a subscriber     *)
(* (ListedByNode), and a match keeps its topic because the topic is given  *)
(* once.  IInv is their conjunction with what keeps references from        *)
(* dangling, and is inductive.                                             *)
(*                                                                         *)
(* TraceInv says what the processor has of a slot in each phase (SlotOK),  *)
(* that its queue is the channel of the application and the message being  *)
(* taken (WorkOK), and where the message a thread takes is (TakingOK).  It *)
(* rests on the ownership of addresses: what the processor has at an       *)
(* address is of the handles the address belongs to (Owned, HandlesOK,     *)
(* AddressOK).  A step of one slot leaves the others alone (Elsewhere).    *)
(*                                                                         *)
(* Over the trace, a message is pending or counted once (MessageOK), and   *)
(* one whose waiting ended left its queue for good (LeftQueue).            *)
(***************************************************************************)
EXTENDS Latencies, FiniteSetTheorems, TLAPS

(* No reference dangles. *)
RegistryRefs ==
  /\ \A r \in RmwHandle : subscribersByRmw[r] # Nil => subscribers[subscribersByRmw[r]] # Nil
  /\ \A h \in RclHandle : subscribersByRcl[h] # Nil => subscribers[subscribersByRcl[h]] # Nil
  /\ \A c \in RclcppHandle :
       subscribersByRclcpp[c] # Nil => subscribers[subscribersByRclcpp[c]] # Nil

TrafficRefs ==
  /\ \A f \in CallbackHandle : callbacksById[f] # Nil => callbacks[callbacksById[f]] # Nil
  /\ \A a \in Pointer : received[a] # Nil => messages[received[a]] # Nil
  /\ \A m \in Message :
       messages[m] # Nil /\ IsKnown(messages[m].subscriber) =>
         subscribers[messages[m].subscriber] # Nil

(* What registration leaves behind in the object o of subscriber p: the layers
   register from the inside out, rcl brings topic and node, and the node lists p. *)
Registered(lists, p, o) ==
  /\ IsKnown(o.rclcpp) => IsKnown(o.rcl)
  /\ IsKnown(o.topic) => IsKnown(o.rcl)
  /\ IsKnown(o.node) <=> IsKnown(o.rcl)
  /\ IsKnown(o.node) => p \in lists[o.node]

ListedByNode == \A p \in Subscriber : subscribers[p] # Nil => Registered(nodeSubscribers, p, subscribers[p])

IInv ==
  /\ TypeOK
  /\ RegistryRefs
  /\ TrafficRefs
  /\ ListedByNode
  /\ LiveIsFound
  /\ CallerIsAlive
  /\ QueueHoldsOwnMessages
  /\ MatchedOnTopic
-----------------------------------------------------------------------------
LEMMA NilIsNothing ==
  /\ Nil \notin Subscriber
  /\ Nil \notin Message
  /\ Nil \notin Callback
  /\ Nil \notin SubscriberObject
  /\ Nil \notin MessageObject
  /\ Nil \notin CallbackObject
  BY SubscriptionsAssumption

LEMMA UnknownIsNothing ==
  /\ Unknown \notin NodeHandle
  /\ Unknown \notin RmwHandle
  /\ Unknown \notin RclHandle
  /\ Unknown \notin RclcppHandle
  /\ Unknown \notin Topic
  /\ Unknown \notin Subscriber
  /\ Unknown \notin Callback
  BY SubscriptionsAssumption

LEMMA FreshSubscriber ==
  ASSUME FreeSubscriber
  PROVE  NewSubscriber \in Subscriber /\ subscribers[NewSubscriber] = Nil
  BY DEF FreeSubscriber, NewSubscriber

LEMMA FreshCallback ==
  ASSUME FreeCallback
  PROVE  NewCallback \in Callback /\ callbacks[NewCallback] = Nil
  BY DEF FreeCallback, NewCallback

LEMMA FreshMessage ==
  ASSUME FreeMessage
  PROVE  NewMessage \in Message /\ messages[NewMessage] = Nil
  BY DEF FreeMessage, NewMessage

(* What the methods of Subscriber make of an object. *)
LEMMA DefaultSubscriberFields ==
  /\ DefaultSubscriber \in SubscriberObject
  /\ DefaultSubscriber.rmw = Unknown
  /\ DefaultSubscriber.rcl = Unknown
  /\ DefaultSubscriber.rclcpp = Unknown
  /\ DefaultSubscriber.topic = Unknown
  /\ DefaultSubscriber.node = Unknown
  /\ DefaultSubscriber.callback = Unknown
  /\ DefaultSubscriber.taken = << >>
  /\ DefaultSubscriber.removed = FALSE
  BY DEF DefaultSubscriber, SubscriberObject, Maybe

LEMMA AfterRmwInitFields ==
  ASSUME NEW o \in SubscriberObject, NEW r \in RmwHandle, NEW g \in Gid
  PROVE  LET u == AfterRmwInit(o, r, g) IN
         /\ u \in SubscriberObject
         /\ u.rmw = r
         /\ u.rcl = o.rcl /\ u.rclcpp = o.rclcpp /\ u.topic = o.topic /\ u.node = o.node
         /\ u.callback = o.callback /\ u.taken = o.taken /\ u.removed = o.removed
  BY DEF AfterRmwInit, SubscriberObject, Maybe

LEMMA AfterRclInitFields ==
  ASSUME NEW o \in SubscriberObject,
         NEW h \in RclHandle, NEW t \in Topic, NEW n \in NodeHandle
  PROVE  LET u == AfterRclInit(o, h, t, n) IN
         /\ u \in SubscriberObject
         /\ u.rcl = h /\ u.topic = t /\ u.node = n
         /\ u.rmw = o.rmw /\ u.rclcpp = o.rclcpp
         /\ u.callback = o.callback /\ u.taken = o.taken /\ u.removed = o.removed
  BY DEF AfterRclInit, SubscriberObject, Maybe

LEMMA AfterRclcppInitFields ==
  ASSUME NEW o \in SubscriberObject, NEW c \in RclcppHandle
  PROVE  LET u == AfterRclcppInit(o, c) IN
         /\ u \in SubscriberObject
         /\ u.rclcpp = c
         /\ u.rmw = o.rmw /\ u.rcl = o.rcl /\ u.topic = o.topic /\ u.node = o.node
         /\ u.callback = o.callback /\ u.taken = o.taken /\ u.removed = o.removed
  BY DEF AfterRclcppInit, SubscriberObject, Maybe

LEMMA AfterSetCallbackFields ==
  ASSUME NEW o \in SubscriberObject, NEW k \in Callback
  PROVE  LET u == AfterSetCallback(o, k) IN
         /\ u \in SubscriberObject
         /\ u.callback = k
         /\ u.rmw = o.rmw /\ u.rcl = o.rcl /\ u.rclcpp = o.rclcpp /\ u.topic = o.topic
         /\ u.node = o.node /\ u.taken = o.taken /\ u.removed = o.removed
  BY DEF AfterSetCallback, SubscriberObject, Maybe

LEMMA AfterRemovalFields ==
  ASSUME NEW o \in SubscriberObject
  PROVE  LET u == AfterRemoval(o) IN
         /\ u \in SubscriberObject
         /\ u.removed = TRUE
         /\ u.rmw = o.rmw /\ u.rcl = o.rcl /\ u.rclcpp = o.rclcpp /\ u.topic = o.topic
         /\ u.node = o.node /\ u.callback = o.callback /\ u.taken = o.taken
  BY DEF AfterRemoval, SubscriberObject

LEMMA RemovedTwice ==
  ASSUME NEW o \in SubscriberObject
  PROVE  AfterRemoval(AfterRemoval(o)) = AfterRemoval(o)
  BY DEF AfterRemoval, SubscriberObject

(* The objects references denote. *)
LEMMA ObjectType ==
  ASSUME TypeOK, NEW p \in Subscriber, subscribers[p] # Nil
  PROVE  subscribers[p] \in SubscriberObject
  BY DEF TypeOK
-----------------------------------------------------------------------------
(* Registration: what subscriber b of the heap becomes is `o', and the subscribers
   in M are marked removed. *)
Writes(b, o, M) ==
  /\ subscribers' \in [Subscriber -> SubscriberObject \cup {Nil}]
  /\ subscribers'[b] = o
  /\ \A q \in Subscriber \ M : q # b => subscribers'[q] = subscribers[q]
  /\ \A q \in M : subscribers'[q] = AfterRemoval(subscribers[q])

(* Registry reg, which becomes `after', has b under its handle h, and had nothing
   there but b and members of M. *)
Enters(reg, after, H, h, b, M) ==
  /\ after = [x \in H |-> IF x = h THEN b ELSE reg[x]]
  /\ \A x \in H : x = h /\ reg[x] # Nil => reg[x] = b \/ reg[x] \in M

(* The object u may become o: what is known stays. *)
Continues(u, o) ==
  /\ IsKnown(u.rmw) => o.rmw = u.rmw
  /\ IsKnown(u.rcl) => o.rcl = u.rcl
  /\ IsKnown(u.rclcpp) => o.rclcpp = u.rclcpp
  /\ IsKnown(u.topic) => o.topic = u.topic
  /\ IsKnown(u.node) => o.node = u.node
  /\ o.callback = u.callback
  /\ o.taken = u.taken

(* Subscribers keep what messages and callbacks know of them. *)
Grows ==
  /\ \A p \in Subscriber :
       subscribers[p] # Nil =>
         /\ subscribers'[p] # Nil
         /\ subscribers'[p].taken = subscribers[p].taken
         /\ subscribers'[p].callback = subscribers[p].callback
         /\ IsKnown(subscribers[p].topic) => subscribers'[p].topic = subscribers[p].topic
         /\ IsKnown(subscribers[p].node) => subscribers'[p].node = subscribers[p].node
  /\ \A p \in Subscriber :
       subscribers[p] = Nil /\ subscribers'[p] # Nil => subscribers'[p].taken = << >>
  /\ \A n \in NodeHandle : nodeSubscribers[n] \subseteq nodeSubscribers'[n]

LEMMA GrowthKeepsMatches ==
  ASSUME IInv, Grows, UNCHANGED messages, published \subseteq published'
  PROVE  MatchedOnTopic'
<1>. SUFFICES ASSUME NEW m \in Message, messages[m] # Nil, IsKnown(messages[m].match)
              PROVE  /\ messages[m].match \in published'
                     /\ messages[m].match[1] # NoStamp
                     /\ IsKnown(messages[m].subscriber)
                     /\ messages[m].match[2] \in {Unknown, subscribers'[messages[m].subscriber].topic}
  BY DEF MatchedOnTopic
<1>. DEFINE p == messages[m].subscriber
<1>1. /\ messages[m].match \in published
      /\ messages[m].match[1] # NoStamp
      /\ IsKnown(p)
      /\ messages[m].match[2] \in {Unknown, subscribers[p].topic}
  BY DEF IInv, MatchedOnTopic
<1>2. p \in Subscriber /\ subscribers[p] # Nil
  BY <1>1 DEF IInv, TypeOK, TrafficRefs, MessageObject, Maybe, IsKnown
<1>3. IsKnown(subscribers[p].topic) => subscribers'[p].topic = subscribers[p].topic
  BY <1>2 DEF Grows
<1>4. messages[m].match[2] \in {Unknown, subscribers'[p].topic}
  BY <1>1, <1>3 DEF IsKnown
<1>. QED
  BY <1>1, <1>4

LEMMA GrowthKeepsCallers ==
  ASSUME IInv, Grows, UNCHANGED callbacks
  PROVE  CallerIsAlive'
<1>. SUFFICES ASSUME NEW k \in Callback, callbacks[k] # Nil
              PROVE  /\ subscribers'[callbacks[k].caller] # Nil
                     /\ subscribers'[callbacks[k].caller].callback = k
                     /\ IsKnown(subscribers'[callbacks[k].caller].node)
                     /\ callbacks[k].caller \in nodeSubscribers'[subscribers'[callbacks[k].caller].node]
  BY DEF CallerIsAlive
<1>. DEFINE p == callbacks[k].caller
<1>1. /\ p \in Subscriber
      /\ subscribers[p] # Nil
      /\ subscribers[p].callback = k
      /\ IsKnown(subscribers[p].node)
      /\ p \in nodeSubscribers[subscribers[p].node]
  BY DEF IInv, TypeOK, CallbackObject, CallerIsAlive
<1>2. subscribers[p].node \in NodeHandle
  BY <1>1, ObjectType DEF IInv, SubscriberObject, Maybe, IsKnown
<1>. HIDE DEF p
<1>. QED
  BY <1>1, <1>2 DEF Grows, p

LEMMA GrowthKeepsQueues ==
  ASSUME IInv, Grows, UNCHANGED messages
  PROVE  QueueHoldsOwnMessages'
<1>. SUFFICES ASSUME NEW p \in Subscriber, subscribers'[p] # Nil
              PROVE  LET q == subscribers'[p].taken IN
                     /\ Len(q) <= TakenMax
                     /\ \A i, j \in 1..Len(q) : q[i] = q[j] => i = j
                     /\ \A i \in 1..Len(q) :
                          /\ messages[q[i]] # Nil
                          /\ messages[q[i]].subscriber = p
                          /\ "rmw" \in messages[q[i]].layers
  BY DEF QueueHoldsOwnMessages
<1>1. CASE subscribers[p] = Nil
  <2>1. subscribers'[p].taken = << >>
    BY <1>1 DEF Grows
  <2>. QED
    BY <2>1, SubscriptionsAssumption
<1>2. CASE subscribers[p] # Nil
  <2>1. subscribers'[p].taken = subscribers[p].taken
    BY <1>2 DEF Grows
  <2>. QED
    BY <2>1, <1>2 DEF IInv, QueueHoldsOwnMessages
<1>. QED
  BY <1>1, <1>2

LEMMA GrowthKeepsTraffic ==
  ASSUME IInv, Grows, UNCHANGED <<callbacks, callbacksById, messages, received>>
  PROVE  TrafficRefs'
<1>1. \A m \in Message :
        messages[m] # Nil /\ IsKnown(messages[m].subscriber) =>
          subscribers'[messages[m].subscriber] # Nil
  BY DEF IInv, TypeOK, TrafficRefs, Grows, MessageObject, Maybe, IsKnown
<1>. QED
  BY <1>1 DEF IInv, TrafficRefs

(* Writing in the heap while the registries follow. *)
LEMMA WritesKeep ==
  ASSUME IInv,
         NEW b \in Subscriber, NEW o \in SubscriberObject, NEW M \in SUBSET Subscriber,
         b \notin M, \A q \in M : subscribers[q] # Nil,
         Writes(b, o, M),
         subscribers[b] # Nil => Continues(subscribers[b], o),
         subscribers[b] = Nil => o.taken = << >>,
         o.removed = FALSE,
         Registered(nodeSubscribers', b, o),
         Enters(subscribersByRmw, subscribersByRmw', RmwHandle, o.rmw, b, M),
         Enters(subscribersByRcl, subscribersByRcl', RclHandle, o.rcl, b, M),
         Enters(subscribersByRclcpp, subscribersByRclcpp', RclcppHandle, o.rclcpp, b, M),
         nodeSubscribers' \in [NodeHandle -> SUBSET Subscriber],
         \A n \in NodeHandle : nodeSubscribers[n] \subseteq nodeSubscribers'[n],
         UNCHANGED <<outcome, nodes, callbacks, callbacksById, messages, received, published>>
  PROVE  IInv'
<1>1. \A q \in M : /\ subscribers[q] \in SubscriberObject
                   /\ subscribers'[q] # Nil
                   /\ subscribers'[q].removed = TRUE
                   /\ subscribers'[q].rmw = subscribers[q].rmw
                   /\ subscribers'[q].rcl = subscribers[q].rcl
                   /\ subscribers'[q].rclcpp = subscribers[q].rclcpp
                   /\ subscribers'[q].topic = subscribers[q].topic
                   /\ subscribers'[q].node = subscribers[q].node
                   /\ subscribers'[q].callback = subscribers[q].callback
                   /\ subscribers'[q].taken = subscribers[q].taken
  <2>. TAKE q \in M
  <2>1. subscribers[q] \in SubscriberObject
    BY ObjectType DEF IInv
  <2>2. subscribers'[q] = AfterRemoval(subscribers[q])
    BY DEF Writes
  <2>. DEFINE u == AfterRemoval(subscribers[q])
  <2>3. /\ u \in SubscriberObject /\ u.removed = TRUE
        /\ u.rmw = subscribers[q].rmw /\ u.rcl = subscribers[q].rcl
        /\ u.rclcpp = subscribers[q].rclcpp /\ u.topic = subscribers[q].topic
        /\ u.node = subscribers[q].node /\ u.callback = subscribers[q].callback
        /\ u.taken = subscribers[q].taken
    BY <2>1, AfterRemovalFields
  <2>4. subscribers'[q] = u
    BY <2>2
  <2>. HIDE DEF u
  <2>. QED
    BY <2>1, <2>3, <2>4, NilIsNothing
<1>2. \A q \in Subscriber : q # b /\ q \notin M => subscribers'[q] = subscribers[q]
  BY DEF Writes
<1>3. subscribers'[b] = o /\ o # Nil
  BY NilIsNothing DEF Writes
<1>4. /\ subscribersByRmw' = [x \in RmwHandle |-> IF x = o.rmw THEN b ELSE subscribersByRmw[x]]
      /\ subscribersByRcl' = [x \in RclHandle |-> IF x = o.rcl THEN b ELSE subscribersByRcl[x]]
      /\ subscribersByRclcpp' =
           [x \in RclcppHandle |-> IF x = o.rclcpp THEN b ELSE subscribersByRclcpp[x]]
  BY DEF Enters
<1>5. TypeOK'
  <2>1. subscribers' \in [Subscriber -> SubscriberObject \cup {Nil}]
    BY DEF Writes
  <2>2. /\ subscribersByRmw' \in [RmwHandle -> Subscriber \cup {Nil}]
        /\ subscribersByRcl' \in [RclHandle -> Subscriber \cup {Nil}]
        /\ subscribersByRclcpp' \in [RclcppHandle -> Subscriber \cup {Nil}]
    BY <1>4 DEF IInv, TypeOK
  <2>. QED
    BY <2>1, <2>2 DEF IInv, TypeOK
<1>6. \A q \in Subscriber : subscribers[q] # Nil => subscribers'[q] # Nil
  BY <1>1, <1>2, <1>3
<1>7. Grows
  <2>1. \A q \in Subscriber :
          subscribers[q] # Nil =>
            /\ subscribers'[q].taken = subscribers[q].taken
            /\ subscribers'[q].callback = subscribers[q].callback
            /\ IsKnown(subscribers[q].topic) => subscribers'[q].topic = subscribers[q].topic
            /\ IsKnown(subscribers[q].node) => subscribers'[q].node = subscribers[q].node
    BY <1>1, <1>2, <1>3 DEF Continues
  <2>2. \A q \in Subscriber :
          subscribers[q] = Nil /\ subscribers'[q] # Nil => subscribers'[q].taken = << >>
    BY <1>2, <1>3
  <2>. QED
    BY <1>6, <2>1, <2>2 DEF Grows
<1>8. RegistryRefs'
  BY <1>3, <1>4, <1>6 DEF IInv, TypeOK, RegistryRefs
<1>9. TrafficRefs' /\ CallerIsAlive' /\ QueueHoldsOwnMessages' /\ MatchedOnTopic'
  BY <1>7, GrowthKeepsTraffic, GrowthKeepsCallers, GrowthKeepsQueues, GrowthKeepsMatches
<1>10. ListedByNode'
  <2>1. SUFFICES ASSUME NEW q \in Subscriber, subscribers'[q] # Nil
                 PROVE  Registered(nodeSubscribers', q, subscribers'[q])
    BY DEF ListedByNode
  <2>2. CASE q = b
    BY <2>2, <1>3
  <2>3. CASE q # b
    <3>1. /\ subscribers[q] # Nil
          /\ subscribers'[q].rcl = subscribers[q].rcl
          /\ subscribers'[q].rclcpp = subscribers[q].rclcpp
          /\ subscribers'[q].topic = subscribers[q].topic
          /\ subscribers'[q].node = subscribers[q].node
      BY <2>1, <2>3, <1>1, <1>2
    <3>2. Registered(nodeSubscribers, q, subscribers[q])
      BY <3>1 DEF IInv, ListedByNode
    <3>3. IsKnown(subscribers[q].node) => subscribers[q].node \in NodeHandle
      BY <3>1, ObjectType DEF IInv, SubscriberObject, Maybe, IsKnown
    <3>. QED
      BY <3>1, <3>2, <3>3 DEF Registered
  <2>. QED
    BY <2>2, <2>3
<1>11. LiveIsFound'
  <2>1. ASSUME NEW q \in Subscriber, subscribers'[q] # Nil, ~subscribers'[q].removed
        PROVE  /\ IsKnown(subscribers'[q].rmw) => subscribersByRmw'[subscribers'[q].rmw] = q
               /\ IsKnown(subscribers'[q].rcl) => subscribersByRcl'[subscribers'[q].rcl] = q
               /\ IsKnown(subscribers'[q].rclcpp) =>
                    subscribersByRclcpp'[subscribers'[q].rclcpp] = q
    <3>1. CASE q = b
      BY <3>1, <1>3, <1>4 DEF SubscriberObject, Maybe, IsKnown
    <3>2. CASE q # b
      <4>1. q \notin M
        BY <2>1, <1>1
      <4>2. subscribers'[q] = subscribers[q]
        BY <3>2, <4>1, <1>2
      <4>3. /\ subscribers[q] \in SubscriberObject
            /\ IsKnown(subscribers[q].rmw) => subscribersByRmw[subscribers[q].rmw] = q
            /\ IsKnown(subscribers[q].rcl) => subscribersByRcl[subscribers[q].rcl] = q
            /\ IsKnown(subscribers[q].rclcpp) => subscribersByRclcpp[subscribers[q].rclcpp] = q
        BY <2>1, <4>2, ObjectType DEF IInv, LiveIsFound
      <4>4. q # Nil
        BY NilIsNothing
      <4>5. IsKnown(subscribers[q].rmw) =>
              /\ subscribers[q].rmw \in RmwHandle
              /\ subscribers[q].rmw # o.rmw
        BY <3>2, <4>1, <4>3, <4>4 DEF Enters, SubscriberObject, Maybe, IsKnown
      <4>6. IsKnown(subscribers[q].rcl) =>
              /\ subscribers[q].rcl \in RclHandle
              /\ subscribers[q].rcl # o.rcl
        BY <3>2, <4>1, <4>3, <4>4 DEF Enters, SubscriberObject, Maybe, IsKnown
      <4>7. IsKnown(subscribers[q].rclcpp) =>
              /\ subscribers[q].rclcpp \in RclcppHandle
              /\ subscribers[q].rclcpp # o.rclcpp
        BY <3>2, <4>1, <4>3, <4>4 DEF Enters, SubscriberObject, Maybe, IsKnown
      <4>. QED
        BY <4>2, <4>3, <4>5, <4>6, <4>7, <1>4
    <3>. QED
      BY <3>1, <3>2
  <2>2. \A q \in Subscriber :
          subscribers[q] # Nil =>
            /\ IsKnown(subscribers[q].rmw) => subscribers'[q].rmw = subscribers[q].rmw
            /\ IsKnown(subscribers[q].rcl) => subscribers'[q].rcl = subscribers[q].rcl
            /\ IsKnown(subscribers[q].rclcpp) => subscribers'[q].rclcpp = subscribers[q].rclcpp
    BY <1>1, <1>2, <1>3 DEF Continues
  <2>3. \A r \in RmwHandle :
          subscribersByRmw'[r] # Nil => subscribers'[subscribersByRmw'[r]].rmw = r
    BY <1>3, <1>4, <2>2, UnknownIsNothing
       DEF IInv, TypeOK, LiveIsFound, RegistryRefs, IsKnown
  <2>4. \A h \in RclHandle :
          subscribersByRcl'[h] # Nil => subscribers'[subscribersByRcl'[h]].rcl = h
    BY <1>3, <1>4, <2>2, UnknownIsNothing
       DEF IInv, TypeOK, LiveIsFound, RegistryRefs, IsKnown
  <2>5. \A c \in RclcppHandle :
          subscribersByRclcpp'[c] # Nil => subscribers'[subscribersByRclcpp'[c]].rclcpp = c
    BY <1>3, <1>4, <2>2, UnknownIsNothing
       DEF IInv, TypeOK, LiveIsFound, RegistryRefs, IsKnown
  <2>. QED
    BY <2>1, <2>3, <2>4, <2>5 DEF LiveIsFound
<1>. QED
  BY <1>5, <1>8, <1>9, <1>10, <1>11 DEF IInv
-----------------------------------------------------------------------------
(* A live subscriber is entered under every handle it knows. *)
LEMMA LiveIsEntered ==
  ASSUME IInv, NEW b \in Subscriber, NEW M \in SUBSET Subscriber,
         subscribers[b] # Nil, ~subscribers[b].removed
  PROVE  /\ Enters(subscribersByRmw, subscribersByRmw, RmwHandle, subscribers[b].rmw, b, M)
         /\ Enters(subscribersByRcl, subscribersByRcl, RclHandle, subscribers[b].rcl, b, M)
         /\ Enters(subscribersByRclcpp, subscribersByRclcpp, RclcppHandle,
                   subscribers[b].rclcpp, b, M)
<1>1. /\ IsKnown(subscribers[b].rmw) => subscribersByRmw[subscribers[b].rmw] = b
      /\ IsKnown(subscribers[b].rcl) => subscribersByRcl[subscribers[b].rcl] = b
      /\ IsKnown(subscribers[b].rclcpp) => subscribersByRclcpp[subscribers[b].rclcpp] = b
  BY DEF IInv, LiveIsFound
<1>. QED
  BY <1>1, UnknownIsNothing DEF IInv, TypeOK, Enters, IsKnown

(* A handle that is not known enters nothing. *)
LEMMA UnknownEntersNothing ==
  ASSUME NEW H, Unknown \notin H, NEW S, NEW reg \in [H -> S], NEW b, NEW M
  PROVE  Enters(reg, reg, H, Unknown, b, M)
  BY DEF Enters

LEMMA HandleEnters ==
  ASSUME NEW H, NEW S, NEW reg \in [H -> S], NEW h \in H, NEW b, NEW M,
         reg[h] # Nil => reg[h] = b \/ reg[h] \in M
  PROVE  Enters(reg, [reg EXCEPT ![h] = b], H, h, b, M)
  BY DEF Enters

LEMMA FoundByRmw ==
  ASSUME IInv, NEW r \in RmwHandle, NEW p, p = subscribersByRmw[r], p # Nil
  PROVE  /\ p \in Subscriber
         /\ subscribers[p] # Nil
         /\ subscribers[p] \in SubscriberObject
         /\ subscribers[p].rmw = r
  BY ObjectType DEF IInv, TypeOK, RegistryRefs, LiveIsFound

LEMMA FoundByRcl ==
  ASSUME IInv, NEW h \in RclHandle, NEW p, p = subscribersByRcl[h], p # Nil
  PROVE  /\ p \in Subscriber
         /\ subscribers[p] # Nil
         /\ subscribers[p] \in SubscriberObject
         /\ subscribers[p].rcl = h
  BY ObjectType DEF IInv, TypeOK, RegistryRefs, LiveIsFound

LEMMA FoundByRclcpp ==
  ASSUME IInv, NEW c \in RclcppHandle, NEW p, p = subscribersByRclcpp[c], p # Nil
  PROVE  /\ p \in Subscriber
         /\ subscribers[p] # Nil
         /\ subscribers[p] \in SubscriberObject
         /\ subscribers[p].rclcpp = c
  BY ObjectType DEF IInv, TypeOK, RegistryRefs, LiveIsFound

(* The ways the handlers write the heap. *)
LEMMA OneWrite ==
  ASSUME TypeOK, NEW b \in Subscriber, NEW o \in SubscriberObject,
         subscribers' = [subscribers EXCEPT ![b] = o]
  PROVE  Writes(b, o, {})
  BY DEF TypeOK, Writes

LEMMA WriteAfterMark ==
  ASSUME TypeOK, NEW b \in Subscriber, NEW o \in SubscriberObject,
         NEW old \in Subscriber, old # b, subscribers[old] # Nil,
         subscribers' = [[subscribers EXCEPT ![old] = AfterRemoval(@)] EXCEPT ![b] = o]
  PROVE  Writes(b, o, {old})
<1>1. AfterRemoval(subscribers[old]) \in SubscriberObject
  BY ObjectType, AfterRemovalFields
<1>. QED
  BY <1>1 DEF TypeOK, Writes

LEMMA MarkAfterWrite ==
  ASSUME TypeOK, NEW b \in Subscriber, NEW o \in SubscriberObject,
         NEW old \in Subscriber, old # b, subscribers[old] # Nil,
         subscribers' = [[subscribers EXCEPT ![b] = o] EXCEPT ![old] = AfterRemoval(@)]
  PROVE  Writes(b, o, {old})
<1>1. AfterRemoval(subscribers[old]) \in SubscriberObject
  BY ObjectType, AfterRemovalFields
<1>. QED
  BY <1>1 DEF TypeOK, Writes

(* One lemma per handler. *)
LEMMA StopKeeps ==
  ASSUME IInv, outcome' \in {"running", "failed", "panicked", "hung"},
         UNCHANGED <<registry, heaps, received, published>>
  PROVE  IInv'
<1>1. UNCHANGED <<nodes, nodeSubscribers, subscribersByRmw, subscribersByRcl,
                  subscribersByRclcpp, callbacksById, subscribers, callbacks, messages,
                  received, published>>
  BY DEF registry, heaps
<1>. QED
  BY <1>1 DEF IInv, TypeOK, RegistryRefs, TrafficRefs, ListedByNode, Registered, LiveIsFound,
              CallerIsAlive, QueueHoldsOwnMessages, MatchedOnTopic

LEMMA NodeAppearsKeeps ==
  ASSUME IInv, NEW n \in NodeHandle, NodeAppears(n)
  PROVE  IInv'
<1>1. UNCHANGED <<outcome, nodeSubscribers, subscribersByRmw, subscribersByRcl,
                  subscribersByRclcpp, callbacksById, subscribers, callbacks, messages,
                  received, published>>
  BY DEF NodeAppears, Continue, heaps
<1>2. nodes' \subseteq NodeHandle
  BY DEF NodeAppears, IInv, TypeOK
<1>. QED
  BY <1>1, <1>2 DEF IInv, TypeOK, RegistryRefs, TrafficRefs, ListedByNode, Registered,
                    LiveIsFound, CallerIsAlive, QueueHoldsOwnMessages, MatchedOnTopic

LEMMA PublicationFiledKeeps ==
  ASSUME IInv, NEW s \in Stamp, NEW t \in TopicKey, PublicationFiled(s, t)
  PROVE  IInv'
<1>1. UNCHANGED <<outcome, nodes, nodeSubscribers, subscribersByRmw, subscribersByRcl,
                  subscribersByRclcpp, callbacksById, subscribers, callbacks, messages,
                  received>>
  BY DEF PublicationFiled, Continue, registry, heaps
<1>2. published' \subseteq Key /\ published \subseteq published'
  BY DEF PublicationFiled, IInv, TypeOK, Key
<1>3. MatchedOnTopic'
  BY <1>1, <1>2 DEF IInv, MatchedOnTopic
<1>. QED
  BY <1>1, <1>2, <1>3 DEF IInv, TypeOK, RegistryRefs, TrafficRefs, ListedByNode, Registered,
                          LiveIsFound, CallerIsAlive, QueueHoldsOwnMessages

LEMMA RmwInitOfKnownKeeps ==
  ASSUME IInv, NEW r \in RmwHandle, NEW g \in Gid,
         NEW p, p = subscribersByRmw[r], p # Nil,
         AssertsLive(subscribers[p]),
         subscribers' = [subscribers EXCEPT ![p] = AfterRmwInit(@, r, g)],
         UNCHANGED <<outcome, registry, callbacks, messages, received, published>>
  PROVE  IInv'
<1>. DEFINE o == AfterRmwInit(subscribers[p], r, g)
<1>1. /\ p \in Subscriber /\ subscribers[p] # Nil /\ subscribers[p] \in SubscriberObject
      /\ subscribers[p].rmw = r
  BY FoundByRmw
<1>2. /\ o \in SubscriberObject
      /\ o.rmw = subscribers[p].rmw
      /\ o.rcl = subscribers[p].rcl /\ o.rclcpp = subscribers[p].rclcpp
      /\ o.topic = subscribers[p].topic /\ o.node = subscribers[p].node
      /\ o.callback = subscribers[p].callback /\ o.taken = subscribers[p].taken
      /\ o.removed = subscribers[p].removed
  BY <1>1, AfterRmwInitFields
<1>3. subscribers' = [subscribers EXCEPT ![p] = o]
  OBVIOUS
<1>. HIDE DEF o
<1>4. UNCHANGED <<nodes, nodeSubscribers, subscribersByRmw, subscribersByRcl,
                  subscribersByRclcpp, callbacksById>>
  BY DEF registry
<1>5. Writes(p, o, {})
  BY <1>1, <1>2, <1>3, OneWrite DEF IInv
<1>6. Continues(subscribers[p], o)
  BY <1>2 DEF Continues
<1>7. Registered(nodeSubscribers', p, o)
  <2>1. Registered(nodeSubscribers, p, subscribers[p])
    BY <1>1 DEF IInv, ListedByNode
  <2>. QED
    BY <1>2, <1>4, <2>1 DEF Registered
<1>8. o.removed = FALSE
  BY <1>1, <1>2 DEF AssertsLive, SubscriberObject
<1>9. /\ Enters(subscribersByRmw, subscribersByRmw', RmwHandle, o.rmw, p, {})
      /\ Enters(subscribersByRcl, subscribersByRcl', RclHandle, o.rcl, p, {})
      /\ Enters(subscribersByRclcpp, subscribersByRclcpp', RclcppHandle, o.rclcpp, p, {})
  BY <1>1, <1>2, <1>4, LiveIsEntered DEF AssertsLive
<1>10. nodeSubscribers' \in [NodeHandle -> SUBSET Subscriber]
  BY <1>4 DEF IInv, TypeOK
<1>11. {} \in SUBSET Subscriber /\ p \notin {} /\ \A q \in {} : subscribers[q] # Nil
  OBVIOUS
<1>12. \A n \in NodeHandle : nodeSubscribers[n] \subseteq nodeSubscribers'[n]
  BY <1>4
<1>. QED
  BY <1>1, <1>2, <1>4, <1>5, <1>6, <1>7, <1>8, <1>9, <1>10, <1>11, <1>12, WritesKeep

LEMMA RmwInitOfNewKeeps ==
  ASSUME IInv, NEW r \in RmwHandle, NEW g \in Gid,
         NEW p, p = subscribersByRmw[r],
         NEW b \in Subscriber, subscribers[b] = Nil, NEW heap,
         heap = IF p = Nil THEN subscribers ELSE [subscribers EXCEPT ![p] = AfterRemoval(@)],
         subscribers' = [heap EXCEPT ![b] = AfterRmwInit(DefaultSubscriber, r, g)],
         subscribersByRmw' = [subscribersByRmw EXCEPT ![r] = b],
         UNCHANGED <<outcome, nodes, nodeSubscribers, subscribersByRcl, subscribersByRclcpp,
                     callbacksById, callbacks, messages, received, published>>
  PROVE  IInv'
<1>. DEFINE o == AfterRmwInit(DefaultSubscriber, r, g)
            M == IF p = Nil THEN {} ELSE {p}
<1>1. p # Nil => p \in Subscriber /\ subscribers[p] # Nil /\ p # b
  BY FoundByRmw
<1>2. /\ o \in SubscriberObject
      /\ o.rmw = r /\ o.rcl = Unknown /\ o.rclcpp = Unknown /\ o.topic = Unknown
      /\ o.node = Unknown /\ o.taken = << >> /\ o.removed = FALSE
  <2>1. /\ o \in SubscriberObject
        /\ o.rmw = r /\ o.rcl = DefaultSubscriber.rcl /\ o.rclcpp = DefaultSubscriber.rclcpp
        /\ o.topic = DefaultSubscriber.topic /\ o.node = DefaultSubscriber.node
        /\ o.taken = DefaultSubscriber.taken /\ o.removed = DefaultSubscriber.removed
    BY DefaultSubscriberFields, AfterRmwInitFields
  <2>. HIDE DEF o
  <2>. QED
    BY <2>1, DefaultSubscriberFields
<1>3. subscribers' = [heap EXCEPT ![b] = o]
  OBVIOUS
<1>. HIDE DEF o
<1>4. Writes(b, o, M)
  <2>1. CASE p = Nil
    BY <2>1, <1>2, <1>3, OneWrite DEF IInv
  <2>2. CASE p # Nil
    BY <2>2, <1>1, <1>2, <1>3, WriteAfterMark DEF IInv
  <2>. QED
    BY <2>1, <2>2
<1>5. M \in SUBSET Subscriber /\ b \notin M /\ \A q \in M : subscribers[q] # Nil
  BY <1>1
<1>6. Registered(nodeSubscribers', b, o)
  BY <1>2 DEF Registered, IsKnown
<1>7. Enters(subscribersByRmw, subscribersByRmw', RmwHandle, o.rmw, b, M)
  BY <1>2, HandleEnters DEF IInv, TypeOK
<1>8. /\ Enters(subscribersByRcl, subscribersByRcl', RclHandle, o.rcl, b, M)
      /\ Enters(subscribersByRclcpp, subscribersByRclcpp', RclcppHandle, o.rclcpp, b, M)
  <2>1. /\ subscribersByRcl \in [RclHandle -> Subscriber \cup {Nil}]
        /\ subscribersByRclcpp \in [RclcppHandle -> Subscriber \cup {Nil}]
    BY DEF IInv, TypeOK
  <2>. HIDE DEF M
  <2>2. /\ Enters(subscribersByRcl, subscribersByRcl, RclHandle, Unknown, b, M)
        /\ Enters(subscribersByRclcpp, subscribersByRclcpp, RclcppHandle, Unknown, b, M)
    BY <2>1, UnknownEntersNothing, UnknownIsNothing
  <2>. QED
    BY <1>2, <2>2
<1>9. nodeSubscribers' \in [NodeHandle -> SUBSET Subscriber]
  BY DEF IInv, TypeOK
<1>. HIDE DEF M
<1>. QED
  BY <1>2, <1>4, <1>5, <1>6, <1>7, <1>8, <1>9, WritesKeep

LEMMA RmwSubscriptionInitKeeps ==
  ASSUME IInv, NEW r \in RmwHandle, NEW g \in Gid, RmwSubscriptionInit(r, g)
  PROVE  IInv'
<1>. DEFINE p == subscribersByRmw[r]
            heap == IF p = Nil THEN subscribers ELSE [subscribers EXCEPT ![p] = AfterRemoval(@)]
<1>1. CASE Panic
  BY <1>1, StopKeeps DEF Panic, Stop
<1>2. CASE /\ p # Nil
           /\ AssertsLive(subscribers[p])
           /\ subscribers' = [subscribers EXCEPT ![p] = AfterRmwInit(@, r, g)]
           /\ Continue
           /\ UNCHANGED <<registry, callbacks, messages, received, published>>
  BY <1>2, RmwInitOfKnownKeeps DEF Continue
<1>3. CASE /\ FreeSubscriber
           /\ subscribers' = [heap EXCEPT ![NewSubscriber] = AfterRmwInit(DefaultSubscriber, r, g)]
           /\ subscribersByRmw' = [subscribersByRmw EXCEPT ![r] = NewSubscriber]
           /\ Continue
           /\ UNCHANGED <<nodes, nodeSubscribers, subscribersByRcl, subscribersByRclcpp,
                          callbacksById, callbacks, messages, received, published>>
  <2>1. NewSubscriber \in Subscriber /\ subscribers[NewSubscriber] = Nil
    BY <1>3, FreshSubscriber
  <2>2. UNCHANGED outcome
    BY <1>3 DEF Continue
  <2>. QED
    BY <1>3, <2>1, <2>2, RmwInitOfNewKeeps
<1>. QED
  BY <1>1, <1>2, <1>3 DEF RmwSubscriptionInit

(* RegisterByRcl: p, new or old, takes over handle h from the subscriber `old'. *)
LEMMA ListGrows ==
  ASSUME TypeOK, NEW n \in NodeHandle, NEW p \in Subscriber,
         nodeSubscribers' = [nodeSubscribers EXCEPT ![n] = @ \cup {p}]
  PROVE  /\ nodeSubscribers' \in [NodeHandle -> SUBSET Subscriber]
         /\ \A m \in NodeHandle : nodeSubscribers[m] \subseteq nodeSubscribers'[m]
         /\ p \in nodeSubscribers'[n]
  BY DEF TypeOK

LEMMA RclInitOfKnownKeeps ==
  ASSUME IInv, NEW r \in RmwHandle, NEW h \in RclHandle, NEW t \in Topic, NEW n \in NodeHandle,
         NEW p, p = subscribersByRmw[r], p # Nil,
         AssertsLive(subscribers[p]), AcceptsRclInit(subscribers[p]),
         RegisterByRcl([subscribers EXCEPT ![p] = AfterRclInit(@, h, t, n)], p, h, n),
         UNCHANGED subscribersByRmw
  PROVE  IInv'
<1>. DEFINE o == AfterRclInit(subscribers[p], h, t, n)
            old == subscribersByRcl[h]
            M == IF old = Nil THEN {} ELSE {old}
<1>1. /\ p \in Subscriber /\ subscribers[p] # Nil /\ subscribers[p] \in SubscriberObject
      /\ subscribers[p].rmw = r /\ subscribers[p].rcl = Unknown
  BY FoundByRmw DEF AcceptsRclInit, IsUnknown
<1>2. /\ o \in SubscriberObject
      /\ o.rcl = h /\ o.topic = t /\ o.node = n
      /\ o.rmw = r /\ o.rclcpp = subscribers[p].rclcpp
      /\ o.callback = subscribers[p].callback /\ o.taken = subscribers[p].taken
      /\ o.removed = subscribers[p].removed
  BY <1>1, AfterRclInitFields
<1>3. /\ subscribers' = IF old = Nil THEN [subscribers EXCEPT ![p] = o]
                        ELSE [[subscribers EXCEPT ![p] = o] EXCEPT ![old] = AfterRemoval(@)]
      /\ subscribersByRcl' = [subscribersByRcl EXCEPT ![h] = p]
      /\ nodeSubscribers' = [nodeSubscribers EXCEPT ![n] = @ \cup {p}]
      /\ UNCHANGED <<outcome, nodes, subscribersByRmw, subscribersByRclcpp, callbacksById,
                     callbacks, messages, received, published>>
  BY DEF RegisterByRcl, Continue
<1>. HIDE DEF o
<1>4. old # Nil => old \in Subscriber /\ subscribers[old] # Nil /\ old # p
  <2>1. old # Nil => old \in Subscriber /\ subscribers[old] # Nil /\ subscribers[old].rcl = h
    BY FoundByRcl
  <2>2. h # Unknown
    BY UnknownIsNothing
  <2>. QED
    BY <1>1, <2>1, <2>2
<1>5. Writes(p, o, M)
  <2>1. CASE old = Nil
    BY <2>1, <1>1, <1>2, <1>3, OneWrite DEF IInv
  <2>2. CASE old # Nil
    BY <2>2, <1>1, <1>2, <1>3, <1>4, MarkAfterWrite DEF IInv
  <2>. QED
    BY <2>1, <2>2
<1>6. Registered(nodeSubscribers, p, subscribers[p])
  BY <1>1 DEF IInv, ListedByNode
<1>7. Continues(subscribers[p], o)
  BY <1>1, <1>2, <1>6 DEF Continues, Registered, IsKnown
<1>8. /\ nodeSubscribers' \in [NodeHandle -> SUBSET Subscriber]
      /\ \A m \in NodeHandle : nodeSubscribers[m] \subseteq nodeSubscribers'[m]
      /\ p \in nodeSubscribers'[n]
  BY <1>1, <1>3, ListGrows DEF IInv
<1>9. Registered(nodeSubscribers', p, o)
  BY <1>2, <1>8, UnknownIsNothing DEF Registered, IsKnown
<1>10. o.removed = FALSE
  BY <1>1, <1>2 DEF AssertsLive, SubscriberObject
<1>11. M \in SUBSET Subscriber /\ p \notin M /\ \A q \in M : subscribers[q] # Nil
  BY <1>4
<1>12. /\ Enters(subscribersByRmw, subscribersByRmw', RmwHandle, o.rmw, p, M)
       /\ Enters(subscribersByRclcpp, subscribersByRclcpp', RclcppHandle, o.rclcpp, p, M)
  BY <1>1, <1>2, <1>3, <1>11, LiveIsEntered DEF AssertsLive
<1>13. Enters(subscribersByRcl, subscribersByRcl', RclHandle, o.rcl, p, M)
  BY <1>2, <1>3, HandleEnters DEF IInv, TypeOK
<1>. HIDE DEF M, old
<1>. QED
  BY <1>1, <1>2, <1>3, <1>5, <1>7, <1>8, <1>9, <1>10, <1>11, <1>12, <1>13, WritesKeep

LEMMA RclInitOfNewKeeps ==
  ASSUME IInv, NEW r \in RmwHandle, NEW h \in RclHandle, NEW t \in Topic, NEW n \in NodeHandle,
         NEW p, p = subscribersByRmw[r],
         NEW b \in Subscriber, subscribers[b] = Nil, NEW heap,
         heap = IF p = Nil THEN subscribers ELSE [subscribers EXCEPT ![p] = AfterRemoval(@)],
         RegisterByRcl([heap EXCEPT ![b] = AfterRclInit([DefaultSubscriber EXCEPT !.rmw = r], h, t, n)],
                       b, h, n),
         subscribersByRmw' = [subscribersByRmw EXCEPT ![r] = b]
  PROVE  IInv'
<1>. DEFINE d == [DefaultSubscriber EXCEPT !.rmw = r]
            o == AfterRclInit(d, h, t, n)
            old == subscribersByRcl[h]
            M == {p, old} \ {Nil}
<1>1. /\ d \in SubscriberObject
      /\ d.rmw = r /\ d.rclcpp = Unknown /\ d.taken = << >> /\ d.removed = FALSE
  <2>1. /\ d \in SubscriberObject
        /\ d.rmw = r /\ d.rclcpp = DefaultSubscriber.rclcpp
        /\ d.taken = DefaultSubscriber.taken /\ d.removed = DefaultSubscriber.removed
    BY DefaultSubscriberFields DEF SubscriberObject, Maybe
  <2>. HIDE DEF d
  <2>. QED
    BY <2>1, DefaultSubscriberFields
<1>. HIDE DEF d
<1>2. /\ o \in SubscriberObject
      /\ o.rmw = r /\ o.rcl = h /\ o.rclcpp = Unknown /\ o.topic = t /\ o.node = n
      /\ o.taken = << >> /\ o.removed = FALSE
  <2>1. /\ o \in SubscriberObject
        /\ o.rcl = h /\ o.topic = t /\ o.node = n
        /\ o.rmw = d.rmw /\ o.rclcpp = d.rclcpp /\ o.taken = d.taken /\ o.removed = d.removed
    BY <1>1, AfterRclInitFields
  <2>. HIDE DEF o
  <2>. QED
    BY <1>1, <2>1
<1>3. /\ subscribers' = IF old = Nil THEN [heap EXCEPT ![b] = o]
                        ELSE [[heap EXCEPT ![b] = o] EXCEPT ![old] = AfterRemoval(@)]
      /\ subscribersByRcl' = [subscribersByRcl EXCEPT ![h] = b]
      /\ nodeSubscribers' = [nodeSubscribers EXCEPT ![n] = @ \cup {b}]
      /\ UNCHANGED <<outcome, nodes, subscribersByRclcpp, callbacksById,
                     callbacks, messages, received, published>>
  BY DEF RegisterByRcl, Continue, d
<1>. HIDE DEF o
<1>4. /\ p # Nil => p \in Subscriber /\ subscribers[p] # Nil /\ p # b
      /\ old # Nil => old \in Subscriber /\ subscribers[old] # Nil /\ old # b
  BY FoundByRmw, FoundByRcl
<1>5. /\ subscribers \in [Subscriber -> SubscriberObject \cup {Nil}]
      /\ subscribersByRmw \in [RmwHandle -> Subscriber \cup {Nil}]
      /\ subscribersByRcl \in [RclHandle -> Subscriber \cup {Nil}]
      /\ subscribersByRclcpp \in [RclcppHandle -> Subscriber \cup {Nil}]
  BY DEF IInv, TypeOK
<1>. HIDE DEF old
<1>6. Writes(b, o, M)
  <2>1. /\ p # Nil => /\ AfterRemoval(subscribers[p]) \in SubscriberObject
                      /\ AfterRemoval(AfterRemoval(subscribers[p])) = AfterRemoval(subscribers[p])
        /\ old # Nil => AfterRemoval(subscribers[old]) \in SubscriberObject
    BY <1>4, ObjectType, AfterRemovalFields, RemovedTwice DEF IInv
  <2>2. /\ heap \in [Subscriber -> SubscriberObject \cup {Nil}]
        /\ p # Nil => heap[p] = AfterRemoval(subscribers[p])
        /\ \A q \in Subscriber : q # p => heap[q] = subscribers[q]
        /\ p = Nil => heap = subscribers
    BY <1>4, <1>5, <2>1
  <2>3. /\ [heap EXCEPT ![b] = o] \in [Subscriber -> SubscriberObject \cup {Nil}]
        /\ [heap EXCEPT ![b] = o][b] = o
        /\ \A q \in Subscriber : q # b => [heap EXCEPT ![b] = o][q] = heap[q]
    BY <1>2, <2>2
  <2>. DEFINE first == [heap EXCEPT ![b] = o]
  <2>4. CASE old = Nil
    <3>1. subscribers' = first
      BY <2>4, <1>3
    <3>2. \A q \in Subscriber : q # p => heap[q] = subscribers[q]
      BY <2>2
    <3>3. \A q \in M : q = p /\ p # Nil
      BY <2>4
    <3>4. p # Nil => p \in M
      OBVIOUS
    <3>5. \A q \in Subscriber : q # Nil
      BY NilIsNothing
    <3>. HIDE DEF first, M
    <3>. QED
      BY <3>1, <3>3, <3>4, <3>5, <2>2, <2>3, <1>4 DEF Writes, first
  <2>5. CASE old # Nil
    <3>1. subscribers' = [first EXCEPT ![old] = AfterRemoval(first[old])]
      BY <2>5, <1>3
    <3>2. first[old] = heap[old]
      BY <2>3, <2>5, <1>4
    <3>3. AfterRemoval(heap[old]) = AfterRemoval(subscribers[old])
      BY <2>1, <2>2, <2>5, <1>4
    <3>4. subscribers' = [first EXCEPT ![old] = AfterRemoval(subscribers[old])]
      BY <3>1, <3>2, <3>3
    <3>5. M = {p, old} \ {Nil}
      OBVIOUS
    <3>6. /\ first \in [Subscriber -> SubscriberObject \cup {Nil}]
          /\ first[b] = o
          /\ \A q \in Subscriber : q # b => first[q] = heap[q]
      BY <2>3
    <3>. HIDE DEF first, M
    <3>7. /\ subscribers' \in [Subscriber -> SubscriberObject \cup {Nil}]
          /\ subscribers'[b] = o
          /\ subscribers'[old] = AfterRemoval(subscribers[old])
          /\ \A q \in Subscriber : q # b /\ q # old => subscribers'[q] = heap[q]
      BY <3>4, <3>6, <2>1, <2>5, <1>4
    <3>8. \A q \in M : subscribers'[q] = AfterRemoval(subscribers[q])
      BY <3>5, <3>7, <2>2, <1>4
    <3>9. \A q \in Subscriber \ M : q # b => subscribers'[q] = subscribers[q]
      BY <3>5, <3>7, <2>2, NilIsNothing
    <3>. QED
      BY <3>7, <3>8, <3>9 DEF Writes
  <2>. QED
    BY <2>4, <2>5
<1>7. M \in SUBSET Subscriber /\ b \notin M /\ \A q \in M : subscribers[q] # Nil
  BY <1>4
<1>8. /\ nodeSubscribers' \in [NodeHandle -> SUBSET Subscriber]
      /\ \A m \in NodeHandle : nodeSubscribers[m] \subseteq nodeSubscribers'[m]
      /\ b \in nodeSubscribers'[n]
  BY <1>3, ListGrows DEF IInv
<1>9. Registered(nodeSubscribers', b, o)
  BY <1>2, <1>8, UnknownIsNothing DEF Registered, IsKnown
<1>10. subscribersByRmw[r] # Nil => subscribersByRmw[r] \in M
  OBVIOUS
<1>11. subscribersByRcl[h] # Nil => subscribersByRcl[h] \in M
  BY DEF old
<1>. HIDE DEF M
<1>12. Enters(subscribersByRmw, subscribersByRmw', RmwHandle, o.rmw, b, M)
  BY <1>2, <1>5, <1>10, HandleEnters
<1>13. Enters(subscribersByRcl, subscribersByRcl', RclHandle, o.rcl, b, M)
  BY <1>2, <1>3, <1>5, <1>11, HandleEnters
<1>14. Enters(subscribersByRclcpp, subscribersByRclcpp', RclcppHandle, o.rclcpp, b, M)
  <2>1. Enters(subscribersByRclcpp, subscribersByRclcpp, RclcppHandle, Unknown, b, M)
    BY <1>5, UnknownEntersNothing, UnknownIsNothing
  <2>. QED
    BY <1>2, <1>3, <2>1
<1>. QED
  BY <1>2, <1>3, <1>6, <1>7, <1>8, <1>9, <1>12, <1>13, <1>14, WritesKeep

LEMMA RclSubscriptionInitKeeps ==
  ASSUME IInv, NEW r \in RmwHandle, NEW h \in RclHandle, NEW t \in Topic, NEW n \in NodeHandle,
         RclSubscriptionInit(r, h, t, n)
  PROVE  IInv'
<1>. DEFINE p == subscribersByRmw[r]
            heap == IF p = Nil THEN subscribers ELSE [subscribers EXCEPT ![p] = AfterRemoval(@)]
            o == AfterRclInit([DefaultSubscriber EXCEPT !.rmw = r], h, t, n)
<1>1. CASE Fail \/ Panic
  BY <1>1, StopKeeps DEF Fail, Panic, Stop
<1>2. CASE /\ p # Nil
           /\ AssertsLive(subscribers[p])
           /\ AcceptsRclInit(subscribers[p])
           /\ RegisterByRcl([subscribers EXCEPT ![p] = AfterRclInit(@, h, t, n)], p, h, n)
           /\ UNCHANGED subscribersByRmw
  BY <1>2, RclInitOfKnownKeeps
<1>3. CASE /\ FreeSubscriber
           /\ RegisterByRcl([heap EXCEPT ![NewSubscriber] = o], NewSubscriber, h, n)
           /\ subscribersByRmw' = [subscribersByRmw EXCEPT ![r] = NewSubscriber]
  <2>1. NewSubscriber \in Subscriber /\ subscribers[NewSubscriber] = Nil
    BY <1>3, FreshSubscriber
  <2>. QED
    BY <1>3, <2>1, RclInitOfNewKeeps
<1>. QED
  BY <1>1, <1>2, <1>3 DEF RclSubscriptionInit

LEMMA RclcppInitKeeps ==
  ASSUME IInv, NEW c \in RclcppHandle, NEW h \in RclHandle,
         NEW p, p = subscribersByRcl[h], p # Nil,
         AssertsLive(subscribers[p]), AcceptsRclcppInit(subscribers[p]),
         NEW old, old = subscribersByRclcpp[c], NEW heap,
         heap = [subscribers EXCEPT ![p] = AfterRclcppInit(@, c)],
         subscribers' = IF old = Nil THEN heap ELSE [heap EXCEPT ![old] = AfterRemoval(@)],
         subscribersByRclcpp' = [subscribersByRclcpp EXCEPT ![c] = p],
         UNCHANGED <<outcome, nodes, nodeSubscribers, subscribersByRmw, subscribersByRcl,
                     callbacksById, callbacks, messages, received, published>>
  PROVE  IInv'
<1>. DEFINE o == AfterRclcppInit(subscribers[p], c)
            M == IF old = Nil THEN {} ELSE {old}
<1>1. /\ p \in Subscriber /\ subscribers[p] # Nil /\ subscribers[p] \in SubscriberObject
      /\ subscribers[p].rcl = h /\ subscribers[p].rclcpp = Unknown
  BY FoundByRcl DEF AcceptsRclcppInit, IsUnknown
<1>2. /\ o \in SubscriberObject
      /\ o.rclcpp = c
      /\ o.rmw = subscribers[p].rmw /\ o.rcl = subscribers[p].rcl
      /\ o.topic = subscribers[p].topic /\ o.node = subscribers[p].node
      /\ o.callback = subscribers[p].callback /\ o.taken = subscribers[p].taken
      /\ o.removed = subscribers[p].removed
  BY <1>1, AfterRclcppInitFields
<1>3. subscribers' = IF old = Nil THEN [subscribers EXCEPT ![p] = o]
                     ELSE [[subscribers EXCEPT ![p] = o] EXCEPT ![old] = AfterRemoval(@)]
  OBVIOUS
<1>. HIDE DEF o
<1>4. old # Nil => old \in Subscriber /\ subscribers[old] # Nil /\ old # p
  <2>1. old # Nil => old \in Subscriber /\ subscribers[old] # Nil /\ subscribers[old].rclcpp = c
    BY FoundByRclcpp
  <2>2. c # Unknown
    BY UnknownIsNothing
  <2>. QED
    BY <1>1, <2>1, <2>2
<1>5. Writes(p, o, M)
  <2>1. CASE old = Nil
    BY <2>1, <1>1, <1>2, <1>3, OneWrite DEF IInv
  <2>2. CASE old # Nil
    BY <2>2, <1>1, <1>2, <1>3, <1>4, MarkAfterWrite DEF IInv
  <2>. QED
    BY <2>1, <2>2
<1>6. Registered(nodeSubscribers, p, subscribers[p])
  BY <1>1 DEF IInv, ListedByNode
<1>7. Continues(subscribers[p], o)
  BY <1>1, <1>2 DEF Continues, IsKnown
<1>8. h # Unknown
  BY UnknownIsNothing
<1>9. Registered(nodeSubscribers', p, o)
  BY <1>1, <1>2, <1>6, <1>8 DEF Registered, IsKnown
<1>10. o.removed = FALSE
  BY <1>1, <1>2 DEF AssertsLive, SubscriberObject
<1>11. M \in SUBSET Subscriber /\ p \notin M /\ \A q \in M : subscribers[q] # Nil
  BY <1>4
<1>12. /\ Enters(subscribersByRmw, subscribersByRmw', RmwHandle, o.rmw, p, M)
       /\ Enters(subscribersByRcl, subscribersByRcl', RclHandle, o.rcl, p, M)
  BY <1>1, <1>2, <1>11, LiveIsEntered DEF AssertsLive
<1>13. Enters(subscribersByRclcpp, subscribersByRclcpp', RclcppHandle, o.rclcpp, p, M)
  BY <1>2, HandleEnters DEF IInv, TypeOK
<1>14. /\ nodeSubscribers' \in [NodeHandle -> SUBSET Subscriber]
       /\ \A n \in NodeHandle : nodeSubscribers[n] \subseteq nodeSubscribers'[n]
  BY DEF IInv, TypeOK
<1>. HIDE DEF M
<1>. QED
  BY <1>1, <1>2, <1>5, <1>7, <1>9, <1>10, <1>11, <1>12, <1>13, <1>14, WritesKeep

LEMMA RclcppSubscriptionInitKeeps ==
  ASSUME IInv, NEW c \in RclcppHandle, NEW h \in RclHandle, RclcppSubscriptionInit(c, h)
  PROVE  IInv'
<1>. DEFINE p == subscribersByRcl[h]
            old == subscribersByRclcpp[c]
            heap == [subscribers EXCEPT ![p] = AfterRclcppInit(@, c)]
<1>1. CASE Fail \/ Panic \/ Hang
  BY <1>1, StopKeeps DEF Fail, Panic, Hang, Stop
<1>2. CASE /\ p # Nil
           /\ AssertsLive(subscribers[p])
           /\ AcceptsRclcppInit(subscribers[p])
           /\ subscribers' = IF old = Nil THEN heap ELSE [heap EXCEPT ![old] = AfterRemoval(@)]
           /\ subscribersByRclcpp' = [subscribersByRclcpp EXCEPT ![c] = p]
           /\ Continue
           /\ UNCHANGED <<nodes, nodeSubscribers, subscribersByRmw, subscribersByRcl,
                          callbacksById, callbacks, messages, received, published>>
  <2>1. UNCHANGED outcome
    BY <1>2 DEF Continue
  <2>. QED
    BY <1>2, <2>1, RclcppInitKeeps
<1>. QED
  BY <1>1, <1>2 DEF RclcppSubscriptionInit
-----------------------------------------------------------------------------
(* The callback of a live subscriber found by its rclcpp handle is set. *)
LEMMA CallbackIsAdded ==
  ASSUME IInv, NEW f \in CallbackHandle, NEW c \in RclcppHandle,
         NEW p, p = subscribersByRclcpp[c], p # Nil,
         AcceptsCallback(subscribers[p]),
         NEW k \in Callback, callbacks[k] = Nil,
         callbacks' = [callbacks EXCEPT ![k] = [caller |-> p, named |-> FALSE, running |-> Nil]],
         callbacksById' = [callbacksById EXCEPT ![f] = k],
         subscribers' = [subscribers EXCEPT ![p] = AfterSetCallback(@, k)],
         UNCHANGED <<outcome, nodes, nodeSubscribers, subscribersByRmw, subscribersByRcl,
                     subscribersByRclcpp, messages, received, published>>
  PROVE  IInv'
<1>. DEFINE o == AfterSetCallback(subscribers[p], k)
            w == [caller |-> p, named |-> FALSE, running |-> Nil]
<1>1. /\ p \in Subscriber /\ subscribers[p] # Nil /\ subscribers[p] \in SubscriberObject
      /\ subscribers[p].rclcpp = c /\ subscribers[p].callback = Unknown
  BY FoundByRclcpp DEF AcceptsCallback, IsUnknown
<1>2. /\ o \in SubscriberObject
      /\ o.callback = k
      /\ o.rmw = subscribers[p].rmw /\ o.rcl = subscribers[p].rcl
      /\ o.rclcpp = subscribers[p].rclcpp /\ o.topic = subscribers[p].topic
      /\ o.node = subscribers[p].node /\ o.taken = subscribers[p].taken
      /\ o.removed = subscribers[p].removed
  BY <1>1, AfterSetCallbackFields
<1>3. w \in CallbackObject /\ w.caller = p
  BY <1>1 DEF CallbackObject
<1>4. /\ subscribers' = [subscribers EXCEPT ![p] = o]
      /\ callbacks' = [callbacks EXCEPT ![k] = w]
  OBVIOUS
<1>. HIDE DEF o, w
<1>5. /\ subscribers \in [Subscriber -> SubscriberObject \cup {Nil}]
      /\ callbacks \in [Callback -> CallbackObject \cup {Nil}]
      /\ callbacksById \in [CallbackHandle -> Callback \cup {Nil}]
  BY DEF IInv, TypeOK
<1>6. /\ subscribers'[p] = o /\ o # Nil
      /\ \A q \in Subscriber : q # p => subscribers'[q] = subscribers[q]
      /\ callbacks'[k] = w /\ w # Nil
      /\ \A j \in Callback : j # k => callbacks'[j] = callbacks[j]
      /\ \A g \in CallbackHandle : callbacksById'[g] \in {k, callbacksById[g]}
  BY <1>1, <1>2, <1>3, <1>4, <1>5, NilIsNothing
<1>7. TypeOK'
  <2>1. subscribers' \in [Subscriber -> SubscriberObject \cup {Nil}]
    BY <1>1, <1>2, <1>4, <1>5
  <2>2. callbacks' \in [Callback -> CallbackObject \cup {Nil}]
    BY <1>3, <1>4, <1>5
  <2>3. callbacksById' \in [CallbackHandle -> Callback \cup {Nil}]
    BY <1>5
  <2>. QED
    BY <2>1, <2>2, <2>3 DEF IInv, TypeOK
<1>8. \A q \in Subscriber :
        /\ subscribers[q] # Nil <=> subscribers'[q] # Nil
        /\ subscribers[q] # Nil =>
             /\ subscribers'[q].rmw = subscribers[q].rmw
             /\ subscribers'[q].rcl = subscribers[q].rcl
             /\ subscribers'[q].rclcpp = subscribers[q].rclcpp
             /\ subscribers'[q].topic = subscribers[q].topic
             /\ subscribers'[q].node = subscribers[q].node
             /\ subscribers'[q].taken = subscribers[q].taken
             /\ subscribers'[q].removed = subscribers[q].removed
  <2>. TAKE q \in Subscriber
  <2>1. CASE q = p
    BY <2>1, <1>1, <1>2, <1>6
  <2>2. CASE q # p
    BY <2>2, <1>6
  <2>. QED
    BY <2>1, <2>2
<1>9. RegistryRefs' /\ LiveIsFound'
  BY <1>8 DEF IInv, TypeOK, RegistryRefs, LiveIsFound
<1>10. TrafficRefs'
  <2>1. \A g \in CallbackHandle : callbacksById'[g] # Nil => callbacks'[callbacksById'[g]] # Nil
    <3>1. \A j \in Callback : callbacks[j] # Nil => callbacks'[j] # Nil
      BY <1>6
    <3>. QED
      BY <3>1, <1>5, <1>6 DEF IInv, TrafficRefs
  <2>2. \A m \in Message :
          messages[m] # Nil /\ IsKnown(messages[m].subscriber) =>
            subscribers'[messages[m].subscriber] # Nil
    BY <1>8 DEF IInv, TypeOK, TrafficRefs, MessageObject, Maybe, IsKnown
  <2>. QED
    BY <2>1, <2>2 DEF IInv, TrafficRefs
<1>11. ListedByNode'
  BY <1>8 DEF IInv, ListedByNode, Registered
<1>12. QueueHoldsOwnMessages'
  BY <1>8 DEF IInv, QueueHoldsOwnMessages
<1>13. MatchedOnTopic'
  <2>1. \A m \in Message :
          messages[m] # Nil /\ IsKnown(messages[m].match) =>
            /\ messages[m].subscriber \in Subscriber
            /\ subscribers[messages[m].subscriber] # Nil
    BY DEF IInv, TypeOK, MatchedOnTopic, TrafficRefs, MessageObject, Maybe, IsKnown
  <2>. QED
    BY <2>1, <1>8 DEF IInv, MatchedOnTopic
<1>14. CallerIsAlive'
  <2>1. SUFFICES ASSUME NEW j \in Callback, callbacks'[j] # Nil
                 PROVE  /\ subscribers'[callbacks'[j].caller] # Nil
                        /\ subscribers'[callbacks'[j].caller].callback = j
                        /\ IsKnown(subscribers'[callbacks'[j].caller].node)
                        /\ callbacks'[j].caller
                             \in nodeSubscribers[subscribers'[callbacks'[j].caller].node]
    BY DEF CallerIsAlive
  <2>2. CASE j = k
    <3>1. Registered(nodeSubscribers, p, subscribers[p])
      BY <1>1 DEF IInv, ListedByNode
    <3>2. c # Unknown
      BY UnknownIsNothing
    <3>3. IsKnown(subscribers[p].node) /\ p \in nodeSubscribers[subscribers[p].node]
      BY <1>1, <3>1, <3>2 DEF Registered, IsKnown
    <3>. QED
      BY <2>2, <3>3, <1>2, <1>3, <1>6
  <2>3. CASE j # k
    <3>1. callbacks'[j] = callbacks[j] /\ callbacks[j] # Nil
      BY <2>1, <2>3, <1>6
    <3>2. /\ callbacks[j].caller \in Subscriber
          /\ subscribers[callbacks[j].caller] # Nil
          /\ subscribers[callbacks[j].caller].callback = j
          /\ IsKnown(subscribers[callbacks[j].caller].node)
          /\ callbacks[j].caller \in nodeSubscribers[subscribers[callbacks[j].caller].node]
      BY <3>1, <1>5 DEF IInv, CallerIsAlive, CallbackObject
    <3>3. callbacks[j].caller # p
      BY <3>2, <1>1, UnknownIsNothing
    <3>. QED
      BY <3>1, <3>2, <3>3, <1>6
  <2>. QED
    BY <2>2, <2>3
<1>. QED
  BY <1>7, <1>9, <1>10, <1>11, <1>12, <1>13, <1>14 DEF IInv

LEMMA CallbackAddedKeeps ==
  ASSUME IInv, NEW f \in CallbackHandle, NEW c \in RclcppHandle, CallbackAdded(f, c)
  PROVE  IInv'
<1>. DEFINE p == subscribersByRclcpp[c]
            k == NewCallback
<1>1. CASE Fail \/ Panic
  BY <1>1, StopKeeps DEF Fail, Panic, Stop
<1>2. CASE /\ p # Nil
           /\ AcceptsCallback(subscribers[p])
           /\ FreeCallback
           /\ callbacks' = [callbacks EXCEPT
                              ![k] = [caller |-> p, named |-> FALSE, running |-> Nil]]
           /\ callbacksById' = [callbacksById EXCEPT ![f] = k]
           /\ subscribers' = [subscribers EXCEPT ![p] = AfterSetCallback(@, k)]
           /\ Continue
           /\ UNCHANGED <<nodes, nodeSubscribers, subscribersByRmw, subscribersByRcl,
                          subscribersByRclcpp, messages, received, published>>
  <2>1. k \in Callback /\ callbacks[k] = Nil
    BY <1>2, FreshCallback
  <2>2. UNCHANGED outcome
    BY <1>2 DEF Continue
  <2>. HIDE DEF k
  <2>. QED
    BY <1>2, <2>1, <2>2, CallbackIsAdded
<1>. QED
  BY <1>1, <1>2 DEF CallbackAdded
-----------------------------------------------------------------------------
(* Queues. *)

(* What is left of the queue q when a message is to be added. *)
Room(q) == IF Len(q) >= TakenMax THEN Tail(q) ELSE q

LEMMA RoomIsPart ==
  ASSUME NEW q \in Seq(Message), Len(q) <= TakenMax
  PROVE  /\ Room(q) \in Seq(Message)
         /\ Len(Room(q)) \in Nat
         /\ Len(Room(q)) + 1 <= TakenMax
         /\ \E d \in {0, 1} : \A i \in 1..Len(Room(q)) : i + d \in 1..Len(q) /\ Room(q)[i] = q[i + d]
<1>1. TakenMax \in Nat \ {0} /\ Len(q) \in Nat
  BY SubscriptionsAssumption
<1>2. CASE Len(q) >= TakenMax
  <2>1. q # << >> /\ Room(q) = Tail(q)
    BY <1>1, <1>2 DEF Room
  <2>2. /\ Tail(q) \in Seq(Message) /\ Len(Tail(q)) = Len(q) - 1
        /\ \A i \in 1..Len(Tail(q)) : Tail(q)[i] = q[i + 1]
    BY <2>1
  <2>3. \A i \in 1..Len(Room(q)) : i + 1 \in 1..Len(q) /\ Room(q)[i] = q[i + 1]
    BY <1>1, <2>1, <2>2
  <2>. QED
    BY <1>1, <2>1, <2>2, <2>3
<1>3. CASE ~(Len(q) >= TakenMax)
  <2>1. Room(q) = q
    BY <1>3 DEF Room
  <2>2. \A i \in 1..Len(Room(q)) : i + 0 \in 1..Len(q) /\ Room(q)[i] = q[i + 0]
    BY <1>1, <2>1
  <2>. QED
    BY <1>1, <1>3, <2>1, <2>2
<1>. QED
  BY <1>2, <1>3

LEMMA AfterTakenFields ==
  ASSUME NEW o \in SubscriberObject, NEW m \in Message, Len(o.taken) <= TakenMax
  PROVE  LET u == AfterTaken(o, m) IN
         /\ u \in SubscriberObject
         /\ u.taken = Append(Room(o.taken), m)
         /\ u.rmw = o.rmw /\ u.rcl = o.rcl /\ u.rclcpp = o.rclcpp /\ u.topic = o.topic
         /\ u.node = o.node /\ u.callback = o.callback /\ u.removed = o.removed
<1>1. o.taken \in Seq(Message)
  BY DEF SubscriberObject
<1>2. Append(Room(o.taken), m) \in Seq(Message)
  BY <1>1, RoomIsPart
<1>3. AfterTaken(o, m) = [o EXCEPT !.taken = Append(Room(o.taken), m)]
  BY DEF AfterTaken, Room
<1>. QED
  BY <1>2, <1>3 DEF SubscriberObject

LEMMA AfterPopFields ==
  ASSUME NEW o \in SubscriberObject, o.taken # << >>
  PROVE  LET u == AfterPop(o) IN
         /\ u \in SubscriberObject
         /\ u.taken = Tail(o.taken)
         /\ u.rmw = o.rmw /\ u.rcl = o.rcl /\ u.rclcpp = o.rclcpp /\ u.topic = o.topic
         /\ u.node = o.node /\ u.callback = o.callback /\ u.removed = o.removed
<1>1. o.taken \in Seq(Message)
  BY DEF SubscriberObject
<1>2. Tail(o.taken) \in Seq(Message)
  BY <1>1
<1>. QED
  BY <1>2 DEF AfterPop, SubscriberObject

(* Only the queue of p changes, and what callbacks run. *)
Requeued(p, u) ==
  /\ subscribers' = [subscribers EXCEPT ![p] = u]
  /\ u.rmw = subscribers[p].rmw /\ u.rcl = subscribers[p].rcl
  /\ u.rclcpp = subscribers[p].rclcpp /\ u.topic = subscribers[p].topic
  /\ u.node = subscribers[p].node /\ u.callback = subscribers[p].callback
  /\ u.removed = subscribers[p].removed

SameCallers ==
  \A k \in Callback :
    /\ callbacks[k] # Nil <=> callbacks'[k] # Nil
    /\ callbacks[k] # Nil => callbacks'[k].caller = callbacks[k].caller

LEMMA RequeuedKeepsOthers ==
  ASSUME IInv, NEW p \in Subscriber, subscribers[p] # Nil, NEW u \in SubscriberObject,
         Requeued(p, u)
  PROVE  /\ subscribers' \in [Subscriber -> SubscriberObject \cup {Nil}]
         /\ subscribers'[p] = u
         /\ \A q \in Subscriber : q # p => subscribers'[q] = subscribers[q]
         /\ \A q \in Subscriber :
              /\ subscribers[q] # Nil <=> subscribers'[q] # Nil
              /\ subscribers[q] # Nil =>
                   /\ subscribers'[q].rmw = subscribers[q].rmw
                   /\ subscribers'[q].rcl = subscribers[q].rcl
                   /\ subscribers'[q].rclcpp = subscribers[q].rclcpp
                   /\ subscribers'[q].topic = subscribers[q].topic
                   /\ subscribers'[q].node = subscribers[q].node
                   /\ subscribers'[q].callback = subscribers[q].callback
                   /\ subscribers'[q].removed = subscribers[q].removed
<1>1. subscribers \in [Subscriber -> SubscriberObject \cup {Nil}]
  BY DEF IInv, TypeOK
<1>2. subscribers' \in [Subscriber -> SubscriberObject \cup {Nil}]
  BY <1>1 DEF Requeued
<1>3. subscribers'[p] = u /\ \A q \in Subscriber : q # p => subscribers'[q] = subscribers[q]
  BY <1>1 DEF Requeued
<1>4. u # Nil
  BY NilIsNothing
<1>5. ASSUME NEW q \in Subscriber
      PROVE  /\ subscribers[q] # Nil <=> subscribers'[q] # Nil
             /\ subscribers[q] # Nil =>
                  /\ subscribers'[q].rmw = subscribers[q].rmw
                  /\ subscribers'[q].rcl = subscribers[q].rcl
                  /\ subscribers'[q].rclcpp = subscribers[q].rclcpp
                  /\ subscribers'[q].topic = subscribers[q].topic
                  /\ subscribers'[q].node = subscribers[q].node
                  /\ subscribers'[q].callback = subscribers[q].callback
                  /\ subscribers'[q].removed = subscribers[q].removed
  <2>1. CASE q = p
    BY <2>1, <1>3, <1>4 DEF Requeued
  <2>2. CASE q # p
    BY <2>2, <1>3
  <2>. QED
    BY <2>1, <2>2
<1>. QED
  BY <1>2, <1>3, <1>5

LEMMA RequeuedKeeps ==
  ASSUME IInv, NEW p \in Subscriber, subscribers[p] # Nil, NEW u \in SubscriberObject,
         Requeued(p, u), SameCallers, UNCHANGED registry
  PROVE  RegistryRefs' /\ ListedByNode' /\ LiveIsFound' /\ CallerIsAlive'
<1>1. UNCHANGED <<nodeSubscribers, subscribersByRmw, subscribersByRcl, subscribersByRclcpp>>
  BY DEF registry
<1>2. \A q \in Subscriber :
        /\ subscribers[q] # Nil <=> subscribers'[q] # Nil
        /\ subscribers[q] # Nil =>
             /\ subscribers'[q].rmw = subscribers[q].rmw
             /\ subscribers'[q].rcl = subscribers[q].rcl
             /\ subscribers'[q].rclcpp = subscribers[q].rclcpp
             /\ subscribers'[q].topic = subscribers[q].topic
             /\ subscribers'[q].node = subscribers[q].node
             /\ subscribers'[q].callback = subscribers[q].callback
             /\ subscribers'[q].removed = subscribers[q].removed
  BY RequeuedKeepsOthers
<1>3. RegistryRefs' /\ LiveIsFound'
  BY <1>1, <1>2 DEF IInv, TypeOK, RegistryRefs, LiveIsFound
<1>4. ListedByNode'
  BY <1>1, <1>2 DEF IInv, ListedByNode, Registered
<1>5. \A k \in Callback : callbacks[k] # Nil => callbacks[k].caller \in Subscriber
  BY DEF IInv, TypeOK, CallbackObject
<1>6. CallerIsAlive'
  BY <1>1, <1>2, <1>5 DEF IInv, CallerIsAlive, SameCallers
<1>. QED
  BY <1>3, <1>4, <1>6

(* A callback is named or ends. *)
LEMMA CallbackWriteKeeps ==
  ASSUME IInv, NEW k \in Callback, callbacks[k] # Nil, NEW w \in CallbackObject,
         w.caller = callbacks[k].caller,
         callbacks' = [callbacks EXCEPT ![k] = w],
         UNCHANGED <<outcome, registry, subscribers, messages, received, published>>
  PROVE  IInv'
<1>1. /\ callbacks' \in [Callback -> CallbackObject \cup {Nil}]
      /\ SameCallers
  BY NilIsNothing DEF IInv, TypeOK, SameCallers
<1>2. UNCHANGED <<nodes, nodeSubscribers, subscribersByRmw, subscribersByRcl,
                  subscribersByRclcpp, callbacksById>>
  BY DEF registry
<1>3. TypeOK'
  BY <1>1, <1>2 DEF IInv, TypeOK
<1>4. CallerIsAlive'
  BY <1>1, <1>2 DEF IInv, TypeOK, CallbackObject, CallerIsAlive, SameCallers
<1>5. TrafficRefs'
  BY <1>1, <1>2 DEF IInv, TypeOK, TrafficRefs, SameCallers
<1>. QED
  BY <1>2, <1>3, <1>4, <1>5 DEF IInv, RegistryRefs, ListedByNode, Registered, LiveIsFound,
                                QueueHoldsOwnMessages, MatchedOnTopic

LEMMA CallbackAtAddress ==
  ASSUME IInv, NEW f \in CallbackHandle, NEW k, k = callbacksById[f], k # Nil
  PROVE  k \in Callback /\ callbacks[k] # Nil /\ callbacks[k] \in CallbackObject
  BY DEF IInv, TypeOK, TrafficRefs

LEMMA CallbackRegisterKeeps ==
  ASSUME IInv, NEW f \in CallbackHandle, CallbackRegister(f)
  PROVE  IInv'
<1>. DEFINE k == callbacksById[f]
            w == [callbacks[k] EXCEPT !.named = TRUE]
<1>1. CASE Fail
  BY <1>1, StopKeeps DEF Fail, Stop
<1>2. CASE /\ k # Nil
           /\ callbacks' = [callbacks EXCEPT ![k].named = TRUE]
           /\ Continue
           /\ UNCHANGED <<registry, subscribers, messages, received, published>>
  <2>1. k \in Callback /\ callbacks[k] # Nil /\ callbacks[k] \in CallbackObject
    BY <1>2, CallbackAtAddress
  <2>2. w \in CallbackObject /\ w.caller = callbacks[k].caller
    BY <2>1 DEF CallbackObject
  <2>3. callbacks' = [callbacks EXCEPT ![k] = w]
    BY <1>2
  <2>4. UNCHANGED <<outcome, registry, subscribers, messages, received, published>>
    BY <1>2 DEF Continue
  <2>. HIDE DEF k, w
  <2>. QED
    BY <2>1, <2>2, <2>3, <2>4, CallbackWriteKeeps
<1>. QED
  BY <1>1, <1>2 DEF CallbackRegister

LEMMA CallbackEndKeeps ==
  ASSUME IInv, NEW f \in CallbackHandle, CallbackEnd(f)
  PROVE  IInv'
<1>. DEFINE k == callbacksById[f]
            w == [callbacks[k] EXCEPT !.running = Nil]
<1>1. CASE Fail \/ Panic
  BY <1>1, StopKeeps DEF Fail, Panic, Stop
<1>2. CASE /\ k # Nil
           /\ callbacks' = [callbacks EXCEPT ![k].running = Nil]
           /\ Continue
           /\ UNCHANGED <<registry, subscribers, messages, received, published>>
  <2>1. k \in Callback /\ callbacks[k] # Nil /\ callbacks[k] \in CallbackObject
    BY <1>2, CallbackAtAddress
  <2>2. w \in CallbackObject /\ w.caller = callbacks[k].caller
    BY <2>1 DEF CallbackObject
  <2>3. callbacks' = [callbacks EXCEPT ![k] = w]
    BY <1>2
  <2>4. UNCHANGED <<outcome, registry, subscribers, messages, received, published>>
    BY <1>2 DEF Continue
  <2>. HIDE DEF k, w
  <2>. QED
    BY <2>1, <2>2, <2>3, <2>4, CallbackWriteKeeps
<1>. QED
  BY <1>1, <1>2 DEF CallbackEnd

(* The queue of a subscriber that pops its front, or makes room at it. *)
QueueOK(p, q) ==
  /\ Len(q) <= TakenMax
  /\ \A i, j \in 1..Len(q) : q[i] = q[j] => i = j
  /\ \A i \in 1..Len(q) :
       /\ messages[q[i]] # Nil
       /\ messages[q[i]].subscriber = p
       /\ "rmw" \in messages[q[i]].layers

LEMMA QueueIsOK ==
  ASSUME IInv, NEW p \in Subscriber, subscribers[p] # Nil
  PROVE  subscribers[p].taken \in Seq(Message) /\ QueueOK(p, subscribers[p].taken)
<1>1. subscribers[p].taken \in Seq(Message)
  BY ObjectType DEF IInv, SubscriberObject
<1>. QED
  BY <1>1 DEF IInv, QueueHoldsOwnMessages, QueueOK

LEMMA PartIsOK ==
  ASSUME NEW p, NEW q \in Seq(Message), QueueOK(p, q),
         NEW b \in Seq(Message), NEW d \in {0, 1}, Len(b) <= TakenMax,
         \A i \in 1..Len(b) : i + d \in 1..Len(q) /\ b[i] = q[i + d]
  PROVE  QueueOK(p, b)
<1>1. Len(b) \in Nat /\ Len(q) \in Nat
  OBVIOUS
<1>2. ASSUME NEW i \in 1..Len(b), NEW j \in 1..Len(b), b[i] = b[j]
      PROVE  i = j
  <2>1. q[i + d] = q[j + d]
    BY <1>2
  <2>2. i + d = j + d
    BY <2>1 DEF QueueOK
  <2>. QED
    BY <1>1, <2>2
<1>. QED
  BY <1>2 DEF QueueOK

LEMMA CallbackStarts ==
  ASSUME IInv, NEW k \in Callback, callbacks[k] # Nil,
         NEW p, p = callbacks[k].caller,
         subscribers[p].taken # << >>,
         callbacks' = [callbacks EXCEPT ![k].running = Head(subscribers[p].taken)],
         subscribers' = [subscribers EXCEPT ![p] = AfterPop(@)],
         UNCHANGED <<outcome, registry, messages, received, published>>
  PROVE  IInv'
<1>. DEFINE q == subscribers[p].taken
            u == AfterPop(subscribers[p])
            w == [callbacks[k] EXCEPT !.running = Head(q)]
<1>1. /\ callbacks[k] \in CallbackObject
      /\ p \in Subscriber
      /\ subscribers[p] # Nil /\ subscribers[p] \in SubscriberObject
  <2>1. callbacks[k] \in CallbackObject
    BY DEF IInv, TypeOK
  <2>2. p \in Subscriber /\ subscribers[p] # Nil
    BY <2>1 DEF CallbackObject, IInv, CallerIsAlive
  <2>. QED
    BY <2>1, <2>2, ObjectType DEF IInv
<1>2. q \in Seq(Message) /\ QueueOK(p, q)
  BY <1>1, QueueIsOK
<1>3. /\ Head(q) \in Message
      /\ Tail(q) \in Seq(Message)
      /\ Len(Tail(q)) = Len(q) - 1
      /\ \A i \in 1..Len(Tail(q)) : i + 1 \in 1..Len(q) /\ Tail(q)[i] = q[i + 1]
  BY <1>2
<1>4. QueueOK(p, Tail(q))
  <2>1. Len(Tail(q)) <= TakenMax
    BY <1>2, <1>3, SubscriptionsAssumption DEF QueueOK
  <2>. HIDE DEF q
  <2>. QED
    BY <1>2, <1>3, <2>1, PartIsOK
<1>5. /\ u \in SubscriberObject /\ u.taken = Tail(q)
      /\ Requeued(p, u)
  <2>1. /\ u \in SubscriberObject /\ u.taken = Tail(q)
        /\ u.rmw = subscribers[p].rmw /\ u.rcl = subscribers[p].rcl
        /\ u.rclcpp = subscribers[p].rclcpp /\ u.topic = subscribers[p].topic
        /\ u.node = subscribers[p].node /\ u.callback = subscribers[p].callback
        /\ u.removed = subscribers[p].removed
    BY <1>1, AfterPopFields
  <2>2. subscribers' = [subscribers EXCEPT ![p] = u]
    OBVIOUS
  <2>. HIDE DEF u, q
  <2>. QED
    BY <2>1, <2>2 DEF Requeued
<1>6. w \in CallbackObject /\ w.caller = callbacks[k].caller
  BY <1>1, <1>3 DEF CallbackObject
<1>7. callbacks' = [callbacks EXCEPT ![k] = w]
  OBVIOUS
<1>. HIDE DEF q, u, w
<1>8. /\ callbacks' \in [Callback -> CallbackObject \cup {Nil}]
      /\ SameCallers
  BY <1>6, <1>7, NilIsNothing DEF IInv, TypeOK, SameCallers
<1>9. RegistryRefs' /\ ListedByNode' /\ LiveIsFound' /\ CallerIsAlive'
  BY <1>1, <1>5, <1>8, RequeuedKeeps
<1>10. /\ subscribers' \in [Subscriber -> SubscriberObject \cup {Nil}]
       /\ subscribers'[p] = u
       /\ \A x \in Subscriber : x # p => subscribers'[x] = subscribers[x]
       /\ \A x \in Subscriber :
            /\ subscribers[x] # Nil <=> subscribers'[x] # Nil
            /\ subscribers[x] # Nil => subscribers'[x].topic = subscribers[x].topic
  BY <1>1, <1>5, RequeuedKeepsOthers
<1>11. UNCHANGED <<nodes, nodeSubscribers, subscribersByRmw, subscribersByRcl,
                   subscribersByRclcpp, callbacksById>>
  BY DEF registry
<1>12. TypeOK'
  BY <1>8, <1>10, <1>11 DEF IInv, TypeOK
<1>13. TrafficRefs'
  <2>1. \A m \in Message :
          messages[m] # Nil /\ IsKnown(messages[m].subscriber) =>
            subscribers'[messages[m].subscriber] # Nil
    BY <1>10 DEF IInv, TypeOK, TrafficRefs, MessageObject, Maybe, IsKnown
  <2>2. \A f \in CallbackHandle : callbacksById[f] # Nil => callbacks'[callbacksById[f]] # Nil
    BY <1>8 DEF IInv, TypeOK, TrafficRefs, SameCallers
  <2>. QED
    BY <2>1, <2>2, <1>11 DEF IInv, TrafficRefs
<1>14. QueueHoldsOwnMessages'
  <2>1. SUFFICES ASSUME NEW x \in Subscriber, subscribers'[x] # Nil
                 PROVE  QueueOK(x, subscribers'[x].taken)
    BY DEF QueueHoldsOwnMessages, QueueOK
  <2>2. CASE x = p
    BY <2>2, <1>4, <1>5, <1>10
  <2>3. CASE x # p
    BY <2>1, <2>3, <1>10, QueueIsOK
  <2>. QED
    BY <2>2, <2>3
<1>15. MatchedOnTopic'
  <2>1. \A m \in Message :
          messages[m] # Nil /\ IsKnown(messages[m].match) =>
            /\ messages[m].subscriber \in Subscriber
            /\ subscribers[messages[m].subscriber] # Nil
    BY DEF IInv, TypeOK, MatchedOnTopic, TrafficRefs, MessageObject, Maybe, IsKnown
  <2>. QED
    BY <2>1, <1>10 DEF IInv, MatchedOnTopic
<1>. QED
  BY <1>9, <1>12, <1>13, <1>14, <1>15 DEF IInv

LEMMA CallbackStartKeeps ==
  ASSUME IInv, NEW f \in CallbackHandle, CallbackStart(f)
  PROVE  IInv'
<1>. DEFINE k == callbacksById[f]
            p == callbacks[k].caller
<1>1. CASE Fail \/ Panic
  BY <1>1, StopKeeps DEF Fail, Panic, Stop
<1>2. CASE /\ k # Nil
           /\ subscribers[p].taken # << >>
           /\ callbacks' = [callbacks EXCEPT ![k].running = Head(subscribers[p].taken)]
           /\ subscribers' = [subscribers EXCEPT ![p] = AfterPop(@)]
           /\ Continue
           /\ UNCHANGED <<registry, messages, received, published>>
  <2>1. k \in Callback /\ callbacks[k] # Nil
    BY <1>2, CallbackAtAddress
  <2>2. UNCHANGED <<outcome, registry, messages, received, published>>
    BY <1>2 DEF Continue
  <2>. HIDE DEF k
  <2>. QED
    BY <1>2, <2>1, <2>2, CallbackStarts
<1>. QED
  BY <1>1, <1>2 DEF CallbackStart
-----------------------------------------------------------------------------
(* Reception. *)

LEMMA MatchedFields ==
  ASSUME IInv, NEW s \in Stamp, NEW t \in TopicKey
  PROVE  /\ Matched(s, t) \in Maybe(Key)
         /\ IsKnown(Matched(s, t)) => /\ Matched(s, t) \in published
                                      /\ Matched(s, t)[1] # NoStamp
                                      /\ Matched(s, t)[2] \in {Unknown, t}
<1>1. published \subseteq Key
  BY DEF IInv, TypeOK
<1>2. Matched(s, t) = Unknown
      \/ (/\ s # NoStamp
          /\ Matched(s, t) \in published
          /\ Matched(s, t) = <<s, t>> \/ Matched(s, t) = <<s, Unknown>>)
  BY DEF Matched
<1>. QED
  BY <1>1, <1>2 DEF Maybe, IsKnown

(* Matching and ownership survive when messages gain layers and appear. *)
LEMMA MessageArrives ==
  ASSUME IInv, NEW r \in RmwHandle, NEW a \in Pointer, NEW s \in Stamp,
         NEW p, p = subscribersByRmw[r], p # Nil,
         NEW m \in Message, messages[m] = Nil,
         messages' = [messages EXCEPT ![m] = [subscriber |-> p,
                                              match |-> Matched(s, subscribers[p].topic),
                                              layers |-> {"rmw"}]],
         subscribers' = [subscribers EXCEPT ![p] = AfterTaken(@, m)],
         received' = [received EXCEPT ![a] = m],
         UNCHANGED <<outcome, registry, callbacks, published>>
  PROVE  IInv'
<1>. DEFINE q == subscribers[p].taken
            u == AfterTaken(subscribers[p], m)
            t == subscribers[p].topic
            v == [subscriber |-> p, match |-> Matched(s, t), layers |-> {"rmw"}]
<1>1. p \in Subscriber /\ subscribers[p] # Nil /\ subscribers[p] \in SubscriberObject
  BY FoundByRmw
<1>2. t \in TopicKey
  BY <1>1 DEF SubscriberObject, TopicKey
<1>3. /\ Matched(s, t) \in Maybe(Key)
      /\ IsKnown(Matched(s, t)) => /\ Matched(s, t) \in published
                                   /\ Matched(s, t)[1] # NoStamp
                                   /\ Matched(s, t)[2] \in {Unknown, t}
  BY <1>2, MatchedFields
<1>4. /\ v \in MessageObject
      /\ v.subscriber = p /\ v.match = Matched(s, t) /\ v.layers = {"rmw"}
  BY <1>1, <1>3 DEF MessageObject, Maybe, Layer
<1>5. q \in Seq(Message) /\ QueueOK(p, q)
  BY <1>1, QueueIsOK
<1>6. /\ u \in SubscriberObject /\ u.taken = Append(Room(q), m)
      /\ Requeued(p, u)
  <2>1. Len(q) <= TakenMax
    BY <1>5 DEF QueueOK
  <2>2. /\ u \in SubscriberObject /\ u.taken = Append(Room(q), m)
        /\ u.rmw = subscribers[p].rmw /\ u.rcl = subscribers[p].rcl
        /\ u.rclcpp = subscribers[p].rclcpp /\ u.topic = subscribers[p].topic
        /\ u.node = subscribers[p].node /\ u.callback = subscribers[p].callback
        /\ u.removed = subscribers[p].removed
    BY <1>1, <2>1, AfterTakenFields
  <2>3. subscribers' = [subscribers EXCEPT ![p] = u]
    OBVIOUS
  <2>. HIDE DEF u, q
  <2>. QED
    BY <2>2, <2>3 DEF Requeued
<1>7. messages' = [messages EXCEPT ![m] = v]
  OBVIOUS
<1>. HIDE DEF q, u, v
<1>8. /\ messages' \in [Message -> MessageObject \cup {Nil}]
      /\ messages'[m] = v /\ v # Nil
      /\ \A x \in Message : x # m => messages'[x] = messages[x]
  <2>1. messages \in [Message -> MessageObject \cup {Nil}]
    BY DEF IInv, TypeOK
  <2>2. v # Nil
    BY <1>4, NilIsNothing
  <2>. QED
    BY <1>4, <1>7, <2>1, <2>2
<1>9. SameCallers
  BY DEF SameCallers
<1>10. RegistryRefs' /\ ListedByNode' /\ LiveIsFound' /\ CallerIsAlive'
  BY <1>1, <1>6, <1>9, RequeuedKeeps
<1>11. /\ subscribers' \in [Subscriber -> SubscriberObject \cup {Nil}]
       /\ subscribers'[p] = u
       /\ \A x \in Subscriber : x # p => subscribers'[x] = subscribers[x]
       /\ \A x \in Subscriber :
            /\ subscribers[x] # Nil <=> subscribers'[x] # Nil
            /\ subscribers[x] # Nil => subscribers'[x].topic = subscribers[x].topic
  BY <1>1, <1>6, RequeuedKeepsOthers
<1>12. UNCHANGED <<nodes, nodeSubscribers, subscribersByRmw, subscribersByRcl,
                   subscribersByRclcpp, callbacksById>>
  BY DEF registry
<1>13. /\ received' \in [Pointer -> Message \cup {Nil}]
       /\ \A x \in Pointer : received'[x] \in {m, received[x]}
  BY DEF IInv, TypeOK
<1>14. TypeOK'
  BY <1>8, <1>11, <1>12, <1>13 DEF IInv, TypeOK
<1>15. TrafficRefs'
  <2>1. \A x \in Message :
          messages'[x] # Nil /\ IsKnown(messages'[x].subscriber) =>
            subscribers'[messages'[x].subscriber] # Nil
    <3>. SUFFICES ASSUME NEW x \in Message, messages'[x] # Nil, IsKnown(messages'[x].subscriber)
                  PROVE  subscribers'[messages'[x].subscriber] # Nil
      OBVIOUS
    <3>1. CASE x = m
      BY <3>1, <1>1, <1>4, <1>8, <1>11
    <3>2. CASE x # m
      <4>1. messages'[x] = messages[x]
        BY <3>2, <1>8
      <4>2. messages[x].subscriber \in Subscriber /\ subscribers[messages[x].subscriber] # Nil
        BY <4>1 DEF IInv, TypeOK, TrafficRefs, MessageObject, Maybe, IsKnown
      <4>. QED
        BY <4>1, <4>2, <1>11
    <3>. QED
      BY <3>1, <3>2
  <2>2. \A x \in Pointer : received'[x] # Nil => messages'[received'[x]] # Nil
    BY <1>8, <1>13 DEF IInv, TypeOK, TrafficRefs
  <2>. QED
    BY <2>1, <2>2, <1>12 DEF IInv, TrafficRefs
<1>16. QueueHoldsOwnMessages'
  <2>1. SUFFICES ASSUME NEW x \in Subscriber, subscribers'[x] # Nil
                 PROVE  /\ Len(subscribers'[x].taken) <= TakenMax
                        /\ \A i, j \in 1..Len(subscribers'[x].taken) :
                             subscribers'[x].taken[i] = subscribers'[x].taken[j] => i = j
                        /\ \A i \in 1..Len(subscribers'[x].taken) :
                             /\ messages'[subscribers'[x].taken[i]] # Nil
                             /\ messages'[subscribers'[x].taken[i]].subscriber = x
                             /\ "rmw" \in messages'[subscribers'[x].taken[i]].layers
    BY DEF QueueHoldsOwnMessages
  <2>2. \A y, z : z \in Seq(Message) /\ QueueOK(y, z) =>
          \A i \in 1..Len(z) : z[i] \in Message /\ z[i] # m /\ messages'[z[i]] = messages[z[i]]
    BY <1>8 DEF QueueOK
  <2>3. CASE x = p
    <3>. DEFINE b == Room(q)
                z == Append(b, m)
    <3>1. /\ b \in Seq(Message) /\ Len(b) \in Nat /\ Len(b) + 1 <= TakenMax
          /\ \E d \in {0, 1} : \A i \in 1..Len(b) : i + d \in 1..Len(q) /\ b[i] = q[i + d]
      BY <1>5, RoomIsPart DEF QueueOK
    <3>2. QueueOK(p, b)
      <4>1. PICK d \in {0, 1} : \A i \in 1..Len(b) : i + d \in 1..Len(q) /\ b[i] = q[i + d]
        BY <3>1
      <4>2. Len(b) <= TakenMax
        BY <3>1, SubscriptionsAssumption
      <4>. HIDE DEF b
      <4>. QED
        BY <1>5, <3>1, <4>1, <4>2, PartIsOK
    <3>. HIDE DEF b
    <3>3. /\ Len(z) = Len(b) + 1
          /\ z[Len(b) + 1] = m
          /\ \A i \in 1..Len(b) : z[i] = b[i]
      BY <3>1
    <3>4. subscribers'[x].taken = z
      BY <2>3, <1>6, <1>11 DEF b
    <3>. HIDE DEF z
    <3>5. \A i \in 1..Len(b) : b[i] # m /\ messages'[b[i]] = messages[b[i]]
      BY <2>2, <3>1, <3>2
    <3>6. ASSUME NEW i \in 1..Len(z)
          PROVE  /\ messages'[z[i]] # Nil
                 /\ messages'[z[i]].subscriber = p
                 /\ "rmw" \in messages'[z[i]].layers
      <4>1. CASE i = Len(b) + 1
        BY <4>1, <3>3, <1>4, <1>8
      <4>2. CASE i \in 1..Len(b)
        BY <4>2, <3>2, <3>3, <3>5 DEF QueueOK
      <4>. QED
        BY <4>1, <4>2, <3>1, <3>3
    <3>7. ASSUME NEW i \in 1..Len(z), NEW j \in 1..Len(z), z[i] = z[j]
          PROVE  i = j
      <4>1. CASE i \in 1..Len(b) /\ j \in 1..Len(b)
        BY <4>1, <3>2, <3>3, <3>7 DEF QueueOK
      <4>2. CASE i = Len(b) + 1 /\ j \in 1..Len(b)
        BY <4>2, <3>3, <3>5, <3>7
      <4>3. CASE i \in 1..Len(b) /\ j = Len(b) + 1
        BY <4>3, <3>3, <3>5, <3>7
      <4>4. CASE i = Len(b) + 1 /\ j = Len(b) + 1
        BY <4>4
      <4>. QED
        BY <4>1, <4>2, <4>3, <4>4, <3>1, <3>3
    <3>. QED
      BY <2>3, <3>1, <3>3, <3>4, <3>6, <3>7
  <2>4. CASE x # p
    <3>1. subscribers'[x] = subscribers[x] /\ subscribers[x] # Nil
      BY <2>1, <2>4, <1>11
    <3>2. subscribers[x].taken \in Seq(Message) /\ QueueOK(x, subscribers[x].taken)
      BY <3>1, QueueIsOK
    <3>3. \A i \in 1..Len(subscribers[x].taken) :
            messages'[subscribers[x].taken[i]] = messages[subscribers[x].taken[i]]
      BY <2>2, <3>2
    <3>. QED
      BY <3>1, <3>2, <3>3 DEF QueueOK
  <2>. QED
    BY <2>3, <2>4
<1>17. MatchedOnTopic'
  <2>1. SUFFICES ASSUME NEW x \in Message, messages'[x] # Nil, IsKnown(messages'[x].match)
                 PROVE  /\ messages'[x].match \in published
                        /\ messages'[x].match[1] # NoStamp
                        /\ IsKnown(messages'[x].subscriber)
                        /\ messages'[x].match[2]
                             \in {Unknown, subscribers'[messages'[x].subscriber].topic}
    BY DEF MatchedOnTopic
  <2>2. CASE x = m
    <3>1. subscribers'[p].topic = t
      BY <1>1, <1>11
    <3>2. p # Unknown
      BY <1>1, UnknownIsNothing
    <3>. QED
      BY <2>1, <2>2, <3>1, <3>2, <1>3, <1>4, <1>8 DEF IsKnown
  <2>3. CASE x # m
    <3>1. messages'[x] = messages[x]
      BY <2>3, <1>8
    <3>2. /\ messages[x].subscriber \in Subscriber
          /\ subscribers[messages[x].subscriber] # Nil
      BY <2>1, <3>1 DEF IInv, TypeOK, MatchedOnTopic, TrafficRefs, MessageObject, Maybe, IsKnown
    <3>. QED
      BY <2>1, <3>1, <3>2, <1>11 DEF IInv, MatchedOnTopic
  <2>. QED
    BY <2>2, <2>3
<1>. QED
  BY <1>10, <1>14, <1>15, <1>16, <1>17 DEF IInv

LEMMA RmwTakeKeeps ==
  ASSUME IInv, NEW r \in RmwHandle, NEW a \in Pointer, NEW s \in Stamp, NEW taken \in BOOLEAN,
         RmwTake(r, a, s, taken)
  PROVE  IInv'
<1>. DEFINE p == subscribersByRmw[r]
            m == NewMessage
<1>1. CASE Fail \/ Panic
  BY <1>1, StopKeeps DEF Fail, Panic, Stop
<1>2. CASE UNCHANGED vars
  BY <1>2, StopKeeps DEF vars, IInv, TypeOK
<1>3. CASE /\ p # Nil
           /\ FreeMessage
           /\ messages' = [messages EXCEPT
                             ![m] = [subscriber |-> p,
                                     match |-> Matched(s, subscribers[p].topic),
                                     layers |-> {"rmw"}]]
           /\ subscribers' = [subscribers EXCEPT ![p] = AfterTaken(@, m)]
           /\ received' = [received EXCEPT ![a] = m]
           /\ Continue
           /\ UNCHANGED <<registry, callbacks, published>>
  <2>1. m \in Message /\ messages[m] = Nil
    BY <1>3, FreshMessage
  <2>2. UNCHANGED <<outcome, registry, callbacks, published>>
    BY <1>3 DEF Continue
  <2>. HIDE DEF m
  <2>. QED
    BY <1>3, <2>1, <2>2, MessageArrives
<1>. QED
  BY <1>1, <1>2, <1>3 DEF RmwTake

(* A message gains a layer, or one without a subscriber appears. *)
LEMMA OuterTakeKeeps ==
  ASSUME IInv, NEW a \in Pointer, NEW layer \in Layer, OuterTake(a, layer)
  PROVE  IInv'
<1>1. PICK m \in Message, v \in MessageObject :
        /\ messages' = [messages EXCEPT ![m] = v]
        /\ messages[m] = Nil =>
             /\ v.subscriber = Unknown
             /\ v.match = Unknown
        /\ messages[m] # Nil =>
             /\ v.subscriber = messages[m].subscriber
             /\ v.match = messages[m].match
             /\ messages[m].layers \subseteq v.layers
        /\ received' \in [Pointer -> Message \cup {Nil}]
        /\ \A x \in Pointer : received'[x] \in {m, received[x]}
  <2>1. CASE /\ received[a] # Nil
             /\ messages' = [messages EXCEPT ![received[a]] = AfterReceive(@, layer)]
             /\ UNCHANGED received
    <3>1. received[a] \in Message /\ messages[received[a]] \in MessageObject
      BY <2>1 DEF IInv, TypeOK, TrafficRefs
    <3>. DEFINE v == AfterReceive(messages[received[a]], layer)
    <3>2. /\ v \in MessageObject
          /\ v.subscriber = messages[received[a]].subscriber
          /\ v.match = messages[received[a]].match
          /\ messages[received[a]].layers \subseteq v.layers
      BY <3>1 DEF AfterReceive, MessageObject
    <3>3. messages' = [messages EXCEPT ![received[a]] = v]
      BY <2>1
    <3>4. received' \in [Pointer -> Message \cup {Nil}]
      BY <2>1 DEF IInv, TypeOK
    <3>5. messages[received[a]] # Nil
      BY <2>1 DEF IInv, TrafficRefs
    <3>. HIDE DEF v
    <3>. QED
      BY <2>1, <3>1, <3>2, <3>3, <3>4, <3>5
  <2>2. CASE /\ FreeMessage
             /\ messages' = [messages EXCEPT ![NewMessage] = AfterReceive(DefaultMessage, layer)]
             /\ received' = [received EXCEPT ![a] = NewMessage]
    <3>1. NewMessage \in Message /\ messages[NewMessage] = Nil
      BY <2>2, FreshMessage
    <3>. DEFINE v == AfterReceive(DefaultMessage, layer)
                m == NewMessage
    <3>2. v \in MessageObject /\ v.subscriber = Unknown /\ v.match = Unknown
      BY DEF AfterReceive, DefaultMessage, MessageObject, Maybe
    <3>3. /\ messages' = [messages EXCEPT ![m] = v]
          /\ received' = [received EXCEPT ![a] = m]
      BY <2>2
    <3>. HIDE DEF v, m
    <3>4. m \in Message /\ messages[m] = Nil
      BY <3>1 DEF m
    <3>5. /\ received' \in [Pointer -> Message \cup {Nil}]
          /\ \A x \in Pointer : received'[x] \in {m, received[x]}
      BY <3>3, <3>4 DEF IInv, TypeOK
    <3>. QED
      BY <3>2, <3>3, <3>4, <3>5
  <2>. QED
    BY <2>1, <2>2 DEF OuterTake
<1>2. UNCHANGED <<outcome, nodes, nodeSubscribers, subscribersByRmw, subscribersByRcl,
                  subscribersByRclcpp, callbacksById, subscribers, callbacks, published>>
  BY DEF OuterTake, Continue, registry
<1>3. /\ messages' \in [Message -> MessageObject \cup {Nil}]
      /\ messages'[m] = v /\ v # Nil
      /\ \A x \in Message : x # m => messages'[x] = messages[x]
  BY <1>1, NilIsNothing DEF IInv, TypeOK
<1>4. TypeOK'
  BY <1>1, <1>2, <1>3 DEF IInv, TypeOK
<1>5. TrafficRefs'
  <2>1. \A x \in Message :
          messages'[x] # Nil /\ IsKnown(messages'[x].subscriber) =>
            subscribers[messages'[x].subscriber] # Nil
    BY <1>1, <1>3 DEF IInv, TrafficRefs, IsKnown
  <2>2. \A x \in Pointer : received'[x] # Nil => messages'[received'[x]] # Nil
    BY <1>1, <1>3 DEF IInv, TypeOK, TrafficRefs
  <2>. QED
    BY <2>1, <2>2, <1>2 DEF IInv, TrafficRefs
<1>6. QueueHoldsOwnMessages'
  <2>1. \A x \in Message :
          messages[x] # Nil =>
            /\ messages'[x] # Nil
            /\ messages'[x].subscriber = messages[x].subscriber
            /\ messages[x].layers \subseteq messages'[x].layers
    BY <1>1, <1>3
  <2>2. \A p \in Subscriber : subscribers[p] # Nil =>
          \A i \in 1..Len(subscribers[p].taken) : subscribers[p].taken[i] \in Message
    BY QueueIsOK
  <2>. QED
    BY <2>1, <2>2, <1>2 DEF IInv, QueueHoldsOwnMessages
<1>7. MatchedOnTopic'
  BY <1>1, <1>2, <1>3 DEF IInv, MatchedOnTopic, IsKnown
<1>. QED
  BY <1>2, <1>4, <1>5, <1>6, <1>7 DEF IInv, RegistryRefs, ListedByNode, Registered, LiveIsFound,
                                      CallerIsAlive
-----------------------------------------------------------------------------
LEMMA InitHolds == Init => IInv
<1>. SUFFICES ASSUME Init PROVE IInv
  OBVIOUS
<1>1. TypeOK
  BY DEF Init, TypeOK
<1>2. RegistryRefs /\ TrafficRefs /\ ListedByNode /\ LiveIsFound
  BY DEF Init, RegistryRefs, TrafficRefs, ListedByNode, LiveIsFound
<1>3. CallerIsAlive /\ QueueHoldsOwnMessages /\ MatchedOnTopic
  BY DEF Init, CallerIsAlive, QueueHoldsOwnMessages, MatchedOnTopic
<1>. QED
  BY <1>1, <1>2, <1>3 DEF IInv

LEMMA StepKeeps == IInv /\ [Next]_vars => IInv'
<1>. SUFFICES ASSUME IInv, [Next]_vars PROVE IInv'
  OBVIOUS
<1>1. CASE Registration
  BY <1>1, NodeAppearsKeeps, RmwSubscriptionInitKeeps, RclSubscriptionInitKeeps,
     RclcppSubscriptionInitKeeps, CallbackAddedKeeps, CallbackRegisterKeeps DEF Registration
<1>2. CASE Reception
  <2>1. "rcl" \in Layer /\ "rclcpp" \in Layer
    BY DEF Layer
  <2>. QED
    BY <1>2, <2>1, PublicationFiledKeeps, RmwTakeKeeps, OuterTakeKeeps
       DEF Reception, RclTake, RclcppTake
<1>3. CASE Execution
  BY <1>3, CallbackStartKeeps, CallbackEndKeeps DEF Execution
<1>4. CASE UNCHANGED vars
  BY <1>4, StopKeeps DEF vars, IInv, TypeOK
<1>. QED
  BY <1>1, <1>2, <1>3, <1>4 DEF Next

LEMMA Inductive == Spec => []IInv
  BY InitHolds, StepKeeps, PTL DEF Spec
-----------------------------------------------------------------------------
(* No step but RmwTake and CallbackStart changes a queue: KeepsTaken relates the
   heap before and after a write. *)
Heap == [Subscriber -> SubscriberObject \cup {Nil}]

KeepsTaken(f, g) ==
  \A x \in Subscriber : f[x] # Nil => g[x] # Nil /\ g[x].taken = f[x].taken

LEMMA ReplaceKeepsTaken ==
  ASSUME NEW f \in Heap, NEW b \in Subscriber, NEW o \in SubscriberObject,
         f[b] # Nil => o.taken = f[b].taken
  PROVE  /\ [f EXCEPT ![b] = o] \in Heap
         /\ KeepsTaken(f, [f EXCEPT ![b] = o])
  BY NilIsNothing DEF Heap, KeepsTaken

LEMMA MarkKeepsTaken ==
  ASSUME NEW f \in Heap, NEW b \in Subscriber, f[b] # Nil
  PROVE  /\ [f EXCEPT ![b] = AfterRemoval(@)] \in Heap
         /\ KeepsTaken(f, [f EXCEPT ![b] = AfterRemoval(@)])
<1>1. f[b] \in SubscriberObject
  BY DEF Heap
<1>2. AfterRemoval(f[b]) \in SubscriberObject /\ AfterRemoval(f[b]).taken = f[b].taken
  BY <1>1, AfterRemovalFields
<1>. QED
  BY <1>2, ReplaceKeepsTaken

LEMMA HeapType == IInv => subscribers \in Heap
  BY DEF IInv, TypeOK, Heap

LEMMA RmwInitKeepsTaken ==
  ASSUME IInv, NEW r \in RmwHandle, NEW g \in Gid, RmwSubscriptionInit(r, g)
  PROVE  KeepsTaken(subscribers, subscribers')
<1>. DEFINE p == subscribersByRmw[r]
            b == NewSubscriber
            heap == IF p = Nil THEN subscribers ELSE [subscribers EXCEPT ![p] = AfterRemoval(@)]
            n == AfterRmwInit(DefaultSubscriber, r, g)
<1>1. CASE UNCHANGED subscribers
  BY <1>1, NilIsNothing DEF KeepsTaken
<1>2. CASE /\ p # Nil
           /\ subscribers' = [subscribers EXCEPT ![p] = AfterRmwInit(@, r, g)]
  <2>1. p \in Subscriber /\ subscribers[p] \in SubscriberObject
    BY <1>2, FoundByRmw
  <2>2. /\ AfterRmwInit(subscribers[p], r, g) \in SubscriberObject
        /\ AfterRmwInit(subscribers[p], r, g).taken = subscribers[p].taken
    BY <2>1, AfterRmwInitFields
  <2>. QED
    BY <1>2, <2>1, <2>2, HeapType, ReplaceKeepsTaken
<1>3. CASE FreeSubscriber /\ subscribers' = [heap EXCEPT ![b] = n]
  <2>1. b \in Subscriber /\ subscribers[b] = Nil
    BY <1>3, FreshSubscriber
  <2>2. p # Nil => p \in Subscriber /\ subscribers[p] # Nil
    BY FoundByRmw
  <2>3. heap \in Heap /\ KeepsTaken(subscribers, heap) /\ heap[b] = Nil
    <3>1. CASE p = Nil
      BY <3>1, <2>1, HeapType DEF KeepsTaken
    <3>2. CASE p # Nil
      <4>1. heap = [subscribers EXCEPT ![p] = AfterRemoval(@)]
        BY <3>2
      <4>2. heap[b] = Nil
        BY <4>1, <3>2, <2>1, <2>2, HeapType DEF Heap
      <4>. QED
        BY <4>1, <4>2, <3>2, <2>2, HeapType, MarkKeepsTaken
    <3>. QED
      BY <3>1, <3>2
  <2>4. n \in SubscriberObject
    BY DefaultSubscriberFields, AfterRmwInitFields
  <2>. HIDE DEF heap, n, b
  <2>5. KeepsTaken(heap, subscribers')
    BY <1>3, <2>1, <2>3, <2>4, ReplaceKeepsTaken
  <2>. QED
    BY <2>3, <2>5 DEF KeepsTaken
<1>4. Panic => UNCHANGED subscribers
  BY DEF Panic, Stop, heaps
<1>. QED
  BY <1>1, <1>2, <1>3, <1>4 DEF RmwSubscriptionInit

(* Registering p under an rcl handle marks the subscriber that had it. *)
LEMMA RegisterKeepsTaken ==
  ASSUME IInv, NEW f \in Heap, KeepsTaken(subscribers, f),
         NEW p, NEW h \in RclHandle, NEW n, RegisterByRcl(f, p, h, n)
  PROVE  KeepsTaken(subscribers, subscribers')
<1>. DEFINE old == subscribersByRcl[h]
<1>1. CASE old = Nil
  BY <1>1 DEF RegisterByRcl
<1>2. CASE old # Nil
  <2>1. old \in Subscriber /\ subscribers[old] # Nil
    BY <1>2, FoundByRcl
  <2>2. f[old] # Nil
    BY <2>1 DEF KeepsTaken
  <2>3. subscribers' = [f EXCEPT ![old] = AfterRemoval(@)]
    BY <1>2 DEF RegisterByRcl
  <2>. HIDE DEF old
  <2>4. KeepsTaken(f, subscribers')
    BY <2>1, <2>2, <2>3, MarkKeepsTaken
  <2>. QED
    BY <2>4 DEF KeepsTaken
<1>. QED
  BY <1>1, <1>2

LEMMA RclInitKeepsTaken ==
  ASSUME IInv, NEW r \in RmwHandle, NEW h \in RclHandle, NEW t \in Topic, NEW n \in NodeHandle,
         RclSubscriptionInit(r, h, t, n)
  PROVE  KeepsTaken(subscribers, subscribers')
<1>. DEFINE p == subscribersByRmw[r]
            b == NewSubscriber
            heap == IF p = Nil THEN subscribers ELSE [subscribers EXCEPT ![p] = AfterRemoval(@)]
            d == [DefaultSubscriber EXCEPT !.rmw = r]
            o == AfterRclInit(d, h, t, n)
            u == AfterRclInit(subscribers[p], h, t, n)
<1>1. CASE UNCHANGED subscribers
  BY <1>1, NilIsNothing DEF KeepsTaken
<1>2. CASE /\ p # Nil
           /\ RegisterByRcl([subscribers EXCEPT ![p] = AfterRclInit(@, h, t, n)], p, h, n)
  <2>1. p \in Subscriber /\ subscribers[p] \in SubscriberObject
    BY <1>2, FoundByRmw
  <2>2. u \in SubscriberObject /\ u.taken = subscribers[p].taken
    BY <2>1, AfterRclInitFields
  <2>3. RegisterByRcl([subscribers EXCEPT ![p] = u], p, h, n)
    BY <1>2
  <2>. HIDE DEF u, p
  <2>4. /\ [subscribers EXCEPT ![p] = u] \in Heap
        /\ KeepsTaken(subscribers, [subscribers EXCEPT ![p] = u])
    BY <2>1, <2>2, HeapType, ReplaceKeepsTaken
  <2>. QED
    BY <2>3, <2>4, RegisterKeepsTaken
<1>3. CASE FreeSubscriber /\ RegisterByRcl([heap EXCEPT ![b] = o], b, h, n)
  <2>1. b \in Subscriber /\ subscribers[b] = Nil
    BY <1>3, FreshSubscriber
  <2>2. p # Nil => p \in Subscriber /\ subscribers[p] # Nil
    BY FoundByRmw
  <2>3. heap \in Heap /\ KeepsTaken(subscribers, heap) /\ heap[b] = Nil
    <3>1. CASE p = Nil
      BY <3>1, <2>1, HeapType DEF KeepsTaken
    <3>2. CASE p # Nil
      <4>1. heap = [subscribers EXCEPT ![p] = AfterRemoval(@)]
        BY <3>2
      <4>2. heap[b] = Nil
        BY <4>1, <3>2, <2>1, <2>2, HeapType DEF Heap
      <4>. QED
        BY <4>1, <4>2, <3>2, <2>2, HeapType, MarkKeepsTaken
    <3>. QED
      BY <3>1, <3>2
  <2>4. o \in SubscriberObject
    <3>1. d \in SubscriberObject
      BY DefaultSubscriberFields DEF SubscriberObject, Maybe
    <3>. HIDE DEF d
    <3>. QED
      BY <3>1, AfterRclInitFields
  <2>. HIDE DEF heap, o, b
  <2>5. [heap EXCEPT ![b] = o] \in Heap /\ KeepsTaken(heap, [heap EXCEPT ![b] = o])
    BY <2>1, <2>3, <2>4, ReplaceKeepsTaken
  <2>6. KeepsTaken(subscribers, [heap EXCEPT ![b] = o])
    BY <2>3, <2>5 DEF KeepsTaken
  <2>. QED
    BY <1>3, <2>5, <2>6, RegisterKeepsTaken
<1>4. Fail \/ Panic => UNCHANGED subscribers
  BY DEF Fail, Panic, Stop, heaps
<1>. QED
  BY <1>1, <1>2, <1>3, <1>4 DEF RclSubscriptionInit

LEMMA RclcppInitKeepsTaken ==
  ASSUME IInv, NEW c \in RclcppHandle, NEW h \in RclHandle, RclcppSubscriptionInit(c, h)
  PROVE  KeepsTaken(subscribers, subscribers')
<1>. DEFINE p == subscribersByRcl[h]
            old == subscribersByRclcpp[c]
            u == AfterRclcppInit(subscribers[p], c)
            heap == [subscribers EXCEPT ![p] = u]
<1>1. CASE UNCHANGED subscribers
  BY <1>1, NilIsNothing DEF KeepsTaken
<1>2. CASE /\ p # Nil
           /\ subscribers' = IF old = Nil THEN heap ELSE [heap EXCEPT ![old] = AfterRemoval(@)]
  <2>1. p \in Subscriber /\ subscribers[p] \in SubscriberObject
    BY <1>2, FoundByRcl
  <2>2. u \in SubscriberObject /\ u.taken = subscribers[p].taken
    BY <2>1, AfterRclcppInitFields
  <2>3. heap \in Heap /\ KeepsTaken(subscribers, heap)
    <3>. HIDE DEF u, p
    <3>. QED
      BY <2>1, <2>2, HeapType, ReplaceKeepsTaken
  <2>4. old # Nil => old \in Subscriber /\ subscribers[old] # Nil
    BY FoundByRclcpp
  <2>5. old # Nil => heap[old] # Nil
    BY <2>3, <2>4 DEF KeepsTaken
  <2>. HIDE DEF heap
  <2>6. old # Nil => KeepsTaken(heap, [heap EXCEPT ![old] = AfterRemoval(@)])
    BY <2>3, <2>4, <2>5, MarkKeepsTaken
  <2>. QED
    BY <1>2, <2>3, <2>6 DEF KeepsTaken
<1>3. Fail \/ Panic \/ Hang => UNCHANGED subscribers
  BY DEF Fail, Panic, Hang, Stop, heaps
<1>. QED
  BY <1>1, <1>2, <1>3 DEF RclcppSubscriptionInit

LEMMA CallbackAddedKeepsTaken ==
  ASSUME IInv, NEW f \in CallbackHandle, NEW c \in RclcppHandle, CallbackAdded(f, c)
  PROVE  KeepsTaken(subscribers, subscribers')
<1>. DEFINE p == subscribersByRclcpp[c]
            k == NewCallback
            u == AfterSetCallback(subscribers[p], k)
<1>1. CASE UNCHANGED subscribers
  BY <1>1, NilIsNothing DEF KeepsTaken
<1>2. CASE /\ p # Nil
           /\ FreeCallback
           /\ subscribers' = [subscribers EXCEPT ![p] = AfterSetCallback(@, k)]
  <2>1. p \in Subscriber /\ subscribers[p] \in SubscriberObject
    BY <1>2, FoundByRclcpp
  <2>2. u \in SubscriberObject /\ u.taken = subscribers[p].taken
    BY <1>2, <2>1, FreshCallback, AfterSetCallbackFields
  <2>3. subscribers' = [subscribers EXCEPT ![p] = u]
    BY <1>2
  <2>. HIDE DEF u, p
  <2>. QED
    BY <2>1, <2>2, <2>3, HeapType, ReplaceKeepsTaken
<1>3. Fail \/ Panic => UNCHANGED subscribers
  BY DEF Fail, Panic, Stop, heaps
<1>. QED
  BY <1>1, <1>2, <1>3 DEF CallbackAdded

(* The two ways a queue changes. *)
Popped(old, new, p) ==
  /\ old # << >>
  /\ new = Tail(old)
  /\ callbacks'[subscribers[p].callback].running = Head(old)

Pushed(old, new) ==
  /\ new # << >>
  /\ messages[new[Len(new)]] = Nil
  /\ SubSeq(new, 1, Len(new) - 1) = IF Len(old) = TakenMax THEN Tail(old) ELSE old

InOrder ==
  \A p \in Subscriber :
    LET old == subscribers[p].taken
        new == subscribers'[p].taken
    IN  subscribers[p] # Nil /\ old # new => Popped(old, new, p) \/ Pushed(old, new)

LEMMA KeptIsInOrder ==
  ASSUME KeepsTaken(subscribers, subscribers') \/ UNCHANGED subscribers
  PROVE  InOrder
  BY DEF KeepsTaken, InOrder

LEMMA PushedAtEnd ==
  ASSUME NEW q \in Seq(Message), Len(q) <= TakenMax, NEW m \in Message, messages[m] = Nil
  PROVE  Pushed(q, Append(Room(q), m))
<1>. DEFINE b == Room(q)
            new == Append(b, m)
<1>1. b \in Seq(Message) /\ Len(b) \in Nat
  BY RoomIsPart
<1>2. b = IF Len(q) = TakenMax THEN Tail(q) ELSE q
  BY SubscriptionsAssumption DEF Room
<1>. HIDE DEF b
<1>3. /\ new \in Seq(Message) /\ new # << >>
      /\ Len(new) = Len(b) + 1 /\ new[Len(new)] = m
      /\ \A i \in 1..Len(b) : new[i] = b[i]
  BY <1>1
<1>4. SubSeq(new, 1, Len(new) - 1) = b
  <2>. HIDE DEF new
  <2>1. Len(new) - 1 = Len(b)
    BY <1>1, <1>3
  <2>2. /\ SubSeq(new, 1, Len(b)) \in Seq(Message)
        /\ Len(SubSeq(new, 1, Len(b))) = Len(b)
        /\ \A i \in 1..Len(b) : SubSeq(new, 1, Len(b))[i] = new[i]
    BY <1>1, <1>3
  <2>3. SubSeq(new, 1, Len(b)) = b
    BY <1>1, <1>3, <2>2
  <2>. QED
    BY <2>1, <2>3
<1>. QED
  BY <1>2, <1>3, <1>4 DEF Pushed, b

LEMMA TakeIsInOrder ==
  ASSUME IInv, NEW r \in RmwHandle, NEW a, NEW s, NEW taken, RmwTake(r, a, s, taken)
  PROVE  InOrder
<1>. DEFINE p == subscribersByRmw[r]
            m == NewMessage
            u == AfterTaken(subscribers[p], m)
<1>1. CASE UNCHANGED subscribers
  BY <1>1, KeptIsInOrder
<1>2. CASE /\ p # Nil
           /\ FreeMessage
           /\ subscribers' = [subscribers EXCEPT ![p] = AfterTaken(@, m)]
  <2>1. p \in Subscriber /\ subscribers[p] # Nil /\ subscribers[p] \in SubscriberObject
    BY <1>2, FoundByRmw
  <2>2. m \in Message /\ messages[m] = Nil
    BY <1>2, FreshMessage
  <2>3. subscribers[p].taken \in Seq(Message) /\ Len(subscribers[p].taken) <= TakenMax
    BY <2>1, QueueIsOK DEF QueueOK
  <2>4. subscribers' = [subscribers EXCEPT ![p] = u]
    BY <1>2
  <2>. HIDE DEF m, p
  <2>5. u.taken = Append(Room(subscribers[p].taken), m)
    BY <2>1, <2>2, <2>3, AfterTakenFields
  <2>. HIDE DEF u
  <2>6. /\ subscribers'[p].taken = Append(Room(subscribers[p].taken), m)
        /\ \A x \in Subscriber : x # p => subscribers'[x] = subscribers[x]
    BY <2>1, <2>4, <2>5, HeapType DEF Heap
  <2>7. Pushed(subscribers[p].taken, subscribers'[p].taken)
    BY <2>2, <2>3, <2>6, PushedAtEnd
  <2>. QED
    BY <2>6, <2>7 DEF InOrder
<1>3. Fail \/ Panic \/ UNCHANGED vars => UNCHANGED subscribers
  BY DEF Fail, Panic, Stop, heaps, vars
<1>. QED
  BY <1>1, <1>2, <1>3 DEF RmwTake

LEMMA StartIsInOrder ==
  ASSUME IInv, NEW f \in CallbackHandle, CallbackStart(f)
  PROVE  InOrder
<1>. DEFINE k == callbacksById[f]
            p == callbacks[k].caller
            q == subscribers[p].taken
            u == AfterPop(subscribers[p])
<1>1. CASE UNCHANGED subscribers
  BY <1>1, KeptIsInOrder
<1>2. CASE /\ k # Nil
           /\ q # << >>
           /\ callbacks' = [callbacks EXCEPT ![k].running = Head(q)]
           /\ subscribers' = [subscribers EXCEPT ![p] = AfterPop(@)]
  <2>1. k \in Callback /\ callbacks[k] # Nil /\ callbacks[k] \in CallbackObject
    BY <1>2, CallbackAtAddress
  <2>2. p \in Subscriber /\ subscribers[p] # Nil /\ subscribers[p].callback = k
    BY <2>1 DEF CallbackObject, IInv, CallerIsAlive
  <2>3. u.taken = Tail(q)
    BY <1>2, <2>2, ObjectType, AfterPopFields DEF IInv
  <2>4. callbacks'[k].running = Head(q)
    BY <1>2, <2>1 DEF IInv, TypeOK, CallbackObject
  <2>5. subscribers' = [subscribers EXCEPT ![p] = u]
    BY <1>2
  <2>. HIDE DEF u, p, k
  <2>6. /\ subscribers'[p].taken = Tail(q)
        /\ \A x \in Subscriber : x # p => subscribers'[x] = subscribers[x]
    BY <2>2, <2>3, <2>5, HeapType DEF Heap
  <2>7. Popped(subscribers[p].taken, subscribers'[p].taken, p)
    BY <1>2, <2>2, <2>4, <2>6 DEF Popped
  <2>. QED
    BY <2>6, <2>7 DEF InOrder
<1>3. Fail \/ Panic => UNCHANGED subscribers
  BY DEF Fail, Panic, Stop, heaps
<1>. QED
  BY <1>1, <1>2, <1>3 DEF CallbackStart

LEMMA StepIsInOrder == IInv /\ [Next]_vars => InOrder
<1>. SUFFICES ASSUME IInv, [Next]_vars PROVE InOrder
  OBVIOUS
<1>1. CASE Registration
  <2>1. ASSUME NEW n \in NodeHandle, NodeAppears(n) PROVE UNCHANGED subscribers
    BY <2>1 DEF NodeAppears, heaps
  <2>2. ASSUME NEW f \in CallbackHandle, CallbackRegister(f) PROVE UNCHANGED subscribers
    BY <2>2 DEF CallbackRegister, Fail, Stop, heaps
  <2>3. KeepsTaken(subscribers, subscribers') \/ UNCHANGED subscribers
    BY <1>1, <2>1, <2>2, RmwInitKeepsTaken, RclInitKeepsTaken, RclcppInitKeepsTaken,
       CallbackAddedKeepsTaken DEF Registration
  <2>. QED
    BY <2>3, KeptIsInOrder
<1>2. CASE Reception
  <2>1. ASSUME NEW s \in Stamp, NEW t \in TopicKey, PublicationFiled(s, t)
        PROVE  UNCHANGED subscribers
    BY <2>1 DEF PublicationFiled, heaps
  <2>2. ASSUME NEW a \in Pointer, RclTake(a) \/ RclcppTake(a) PROVE UNCHANGED subscribers
    BY <2>2 DEF RclTake, RclcppTake, OuterTake
  <2>. QED
    BY <1>2, <2>1, <2>2, KeptIsInOrder, TakeIsInOrder DEF Reception
<1>3. CASE Execution
  <2>1. ASSUME NEW f \in CallbackHandle, CallbackEnd(f) PROVE UNCHANGED subscribers
    BY <2>1 DEF CallbackEnd, Fail, Panic, Stop, heaps
  <2>. QED
    BY <1>3, <2>1, KeptIsInOrder, StartIsInOrder DEF Execution
<1>4. CASE UNCHANGED vars
  BY <1>4, KeptIsInOrder DEF vars, heaps
<1>. QED
  BY <1>1, <1>2, <1>3, <1>4 DEF Next
-----------------------------------------------------------------------------
(* Type correctness: whatever events arrive, every registry, every object and every
   queue keeps its shape, and the handlers of subscriptions and callbacks never read
   an object that is not there. *)
THEOREM TypeCorrect == Spec => []TypeOK
<1>1. IInv => TypeOK
  BY DEF IInv
<1>. QED
  BY <1>1, Inductive, PTL

(* Subscriber::taken_messages is bounded, repeats no message and holds only messages
   rmw_take delivered to this subscriber, for queues and heaps of every size. *)
THEOREM QueuesHoldOwnMessages == Spec => []QueueHoldsOwnMessages
<1>1. IInv => QueueHoldsOwnMessages
  BY DEF IInv
<1>. QED
  BY <1>1, Inductive, PTL

(* rmw_take matches a message with a publication filed under the topic of its own
   subscriber or under the unknown topic, and a later registration does not move the
   subscriber to another topic. *)
THEOREM MatchesKeepTheirTopic == Spec => []MatchedOnTopic
<1>1. IInv => MatchedOnTopic
  BY DEF IInv
<1>. QED
  BY <1>1, Inductive, PTL

(* The weak reference a callback holds to its subscriber can be upgraded: a node lists
   the subscriber, and the subscriber refers back to the callback. *)
THEOREM CallersStayAlive == Spec => []CallerIsAlive
<1>1. IInv => CallerIsAlive
  BY DEF IInv
<1>. QED
  BY <1>1, Inductive, PTL

(* The registries and the subscribers that are not removed name each other in all three
   layers, however handles are reused. *)
THEOREM LiveStaysFound == Spec => []LiveIsFound
<1>1. IInv => LiveIsFound
  BY DEF IInv
<1>. QED
  BY <1>1, Inductive, PTL

(* A queue only loses its oldest message, to the callback that starts or to a message
   for which there is no room, and only gains the message that was just taken. *)
THEOREM CallbacksTakeInOrder == Spec => TriggeredInOrder
<1>1. IInv /\ [Next]_vars =>
        [ \A p \in Subscriber :
            LET old == subscribers[p].taken
                new == subscribers'[p].taken
            IN  subscribers[p] # Nil /\ old # new =>
                  \/ /\ old # << >> /\ new = Tail(old)
                     /\ callbacks'[subscribers[p].callback].running = Head(old)
                  \/ /\ new # << >>
                     /\ messages[new[Len(new)]] = Nil
                     /\ SubSeq(new, 1, Len(new) - 1) =
                          IF Len(old) = TakenMax THEN Tail(old) ELSE old ]_vars
  BY StepIsInOrder DEF InOrder, Popped, Pushed
<1>. QED
  BY <1>1, Inductive, PTL DEF Spec, TriggeredInOrder
-----------------------------------------------------------------------------
(* The variables of the application keep their types. *)
AppTypeOK ==
  /\ slots \in [Slot -> SlotObject \cup {Nil}]
  /\ used \subseteq Handles
  /\ usedGids \subseteq Gid
  /\ taking \in [Thread -> TakingObject \cup {Nil}]
  /\ channel \in [Slot -> Seq(Message)]
  /\ busy \in [Slot -> Message \cup {Nil}]

(* Callbacks run for slots that are there. *)
BusyIsReady == \A x \in Slot : busy[x] # Nil => In(x, "ready")

AppOK == AppTypeOK /\ BusyIsReady

(* Handles belong together for good, and to one slot at a time. *)
Owned == \A u, v \in used : u = v \/ ~SomeShared(u, v)

Apart ==
  \A x, y \in Slot : Live(x) /\ Live(y) /\ x # y => ~SomeShared(slots[x].handles, slots[y].handles)

(* A subscriber has handles that belong together. *)
HandlesOK(p) ==
  subscribers[p] # Nil =>
    /\ subscribers[p].gid \in usedGids
    /\ \E u \in used : /\ subscribers[p].rmw = u[1]
                       /\ subscribers[p].rcl \in {u[2], Unknown}
                       /\ subscribers[p].rclcpp \in {u[3], Unknown}

(* The rmw registry has the latest subscriber of each handle, which is not marked
   removed, though its slot may be destroyed. *)
ByRmwOK(r) == subscribersByRmw[r] # Nil => ~subscribers[subscribersByRmw[r]].removed

(* A callback at an address is of a subscriber whose handles belong to it. *)
AddressOK(f) ==
  callbacksById[f] # Nil =>
    \E u \in used : /\ u[4] = f
                    /\ subscribers[callbacks[callbacksById[f]].caller].rmw = u[1]

(* What the processor has of a slot in each phase. *)
Current(x) == subscribersByRmw[RmwOf(x)]
CallbackAt(x) == callbacksById[CallbackOf(x)]

SlotOK(x) ==
  Live(x) =>
    /\ slots[x].handles \in used
    /\ Current(x) # Nil
    /\ subscribers[Current(x)].rcl = IF slots[x].phase = "rmw" THEN Unknown ELSE RclOf(x)
    /\ subscribers[Current(x)].rclcpp =
         IF slots[x].phase \in {"rmw", "rcl"} THEN Unknown ELSE RclcppOf(x)
    /\ slots[x].phase \in {"rmw", "rcl", "rclcpp"} => subscribers[Current(x)].callback = Unknown
    /\ slots[x].phase \in {"callback", "ready"} =>
         /\ CallbackAt(x) # Nil
         /\ subscribers[Current(x)].callback = CallbackAt(x)
         /\ callbacks[CallbackAt(x)].caller = Current(x)
         /\ callbacks[CallbackAt(x)].named = (slots[x].phase = "ready")
         /\ callbacks[CallbackAt(x)].running = busy[x]
    /\ slots[x].phase # "ready" => subscribers[Current(x)].taken = << >>

(* The queue of the processor is that of the application and what is being taken. *)
Takes(t, x) == taking[t] # Nil /\ taking[t].slot = x

Complete(m) == messages[m] # Nil /\ messages[m].layers = Layer

WorkOK(x) ==
  /\ ~In(x, "ready") => channel[x] = << >> /\ \A t \in Thread : ~Takes(t, x)
  /\ In(x, "ready") =>
       /\ \A t \in Thread :
            Takes(t, x) => subscribers[Current(x)].taken = Append(channel[x], taking[t].message)
       /\ (\A t \in Thread : ~Takes(t, x)) => subscribers[Current(x)].taken = channel[x]
  /\ \A i \in 1..Len(channel[x]) : Complete(channel[x][i])
  /\ busy[x] # Nil => Complete(busy[x])

TakingOK(t) ==
  taking[t] # Nil =>
    /\ received[AddressOf[t]] = taking[t].message
    /\ messages[taking[t].message] # Nil
    /\ messages[taking[t].message].layers =
         IF taking[t].layer = "rmw" THEN {"rmw"} ELSE {"rmw", "rcl"}
    /\ \A u \in Thread :
         /\ Takes(u, taking[t].slot) => u = t
         /\ taking[u] # Nil /\ taking[u].message = taking[t].message => u = t

TraceInv ==
  /\ outcome = "running"
  /\ Owned /\ Apart
  /\ \A p \in Subscriber : HandlesOK(p)
  /\ \A r \in RmwHandle : ByRmwOK(r)
  /\ \A f \in CallbackHandle : AddressOK(f)
  /\ \A x \in Slot : SlotOK(x) /\ WorkOK(x)
  /\ \A t \in Thread : TakingOK(t)

-----------------------------------------------------------------------------
LEMMA NilIsNoSlot == Nil \notin SlotObject /\ Nil \notin TakingObject
  BY SubscriptionAppAssumption

LEMMA LiveSlot ==
  ASSUME AppTypeOK, NEW x \in Slot, Live(x)
  PROVE  /\ slots[x] \in SlotObject
         /\ slots[x].handles \in Handles
         /\ RmwOf(x) \in RmwHandle /\ RclOf(x) \in RclHandle
         /\ RclcppOf(x) \in RclcppHandle /\ CallbackOf(x) \in CallbackHandle
<1>1. slots[x] \in SlotObject /\ slots[x].handles \in Handles
  BY DEF AppTypeOK, Live, SlotObject
<1>. QED
  BY <1>1 DEF Handles, RmwOf, RclOf, RclcppOf, CallbackOf

LEMMA TakingThread ==
  ASSUME AppTypeOK, NEW t \in Thread, taking[t] # Nil
  PROVE  /\ taking[t] \in TakingObject
         /\ taking[t].slot \in Slot /\ taking[t].message \in Message
         /\ taking[t].layer \in {"rmw", "rcl"}
         /\ AddressOf[t] \in Pointer
  BY SubscriptionAppAssumption DEF AppTypeOK, TakingObject

(* The slot after a step that moves it to the next phase. *)
LEMMA Advanced ==
  ASSUME AppTypeOK, NEW x \in Slot, Live(x),
         NEW phase \in {"rmw", "rcl", "rclcpp", "callback", "ready"}, Advance(x, phase)
  PROVE  /\ AppTypeOK'
         /\ slots'[x] # Nil /\ slots'[x].phase = phase /\ slots'[x].handles = slots[x].handles
         /\ \A y \in Slot : y # x => slots'[y] = slots[y]
<1>. DEFINE o == [slots[x] EXCEPT !.phase = phase]
<1>1. o \in SlotObject /\ o.phase = phase /\ o.handles = slots[x].handles
  BY LiveSlot DEF SlotObject
<1>2. slots' = [slots EXCEPT ![x] = o]
  BY DEF Advance
<1>. HIDE DEF o
<1>3. /\ slots' \in [Slot -> SlotObject \cup {Nil}] /\ slots'[x] = o
      /\ \A y \in Slot : y # x => slots'[y] = slots[y]
  BY <1>1, <1>2 DEF AppTypeOK
<1>4. AppTypeOK'
  BY <1>3 DEF AppTypeOK, Advance
<1>. QED
  BY <1>1, <1>3, <1>4, NilIsNoSlot

LEMMA CreateRmwKeepsType ==
  ASSUME AppTypeOK, NEW x \in Slot, NEW u \in Handles, NEW g \in Gid, CreateRmw(x, u, g)
  PROVE  AppTypeOK'
<1>. DEFINE o == [handles |-> u, phase |-> "rmw"]
<1>1. o \in SlotObject /\ slots' = [slots EXCEPT ![x] = o]
  BY DEF CreateRmw, SlotObject
<1>. HIDE DEF o
<1>2. slots' \in [Slot -> SlotObject \cup {Nil}]
  BY <1>1 DEF AppTypeOK
<1>. QED
  BY <1>2 DEF AppTypeOK, CreateRmw

LEMMA DestroyKeepsType ==
  ASSUME AppTypeOK, NEW x \in Slot, Destroy(x)
  PROVE  AppTypeOK'
  BY DEF AppTypeOK, Destroy

LEMMA TakeRmwKeepsType ==
  ASSUME AppTypeOK, NEW t \in Thread, NEW x \in Slot, NEW s \in Stamp, TakeRmw(t, x, s),
         NewMessage \in Message
  PROVE  AppTypeOK'
<1>. DEFINE o == [slot |-> x, message |-> NewMessage, layer |-> "rmw"]
<1>1. o \in TakingObject /\ taking' = [taking EXCEPT ![t] = o]
  BY DEF TakeRmw, TakingObject
<1>. HIDE DEF o
<1>. QED
  BY <1>1 DEF AppTypeOK, TakeRmw

LEMMA TakeRclKeepsType ==
  ASSUME AppTypeOK, NEW t \in Thread, TakeRcl(t)
  PROVE  AppTypeOK'
<1>. DEFINE o == [taking[t] EXCEPT !.layer = "rcl"]
<1>1. o \in TakingObject /\ taking' = [taking EXCEPT ![t] = o]
  BY TakingThread DEF TakeRcl, TakingObject
<1>. HIDE DEF o
<1>. QED
  BY <1>1 DEF AppTypeOK, TakeRcl

LEMMA TakeRclcppKeepsType ==
  ASSUME AppTypeOK, NEW t \in Thread, TakeRclcpp(t)
  PROVE  AppTypeOK'
<1>1. taking[t].slot \in Slot /\ taking[t].message \in Message
  BY TakingThread DEF TakeRclcpp
<1>. DEFINE x == taking[t].slot
            q == Append(channel[x], taking[t].message)
<1>2. q \in Seq(Message) /\ channel' = [channel EXCEPT ![x] = q]
  BY <1>1 DEF AppTypeOK, TakeRclcpp
<1>. HIDE DEF x, q
<1>3. channel' \in [Slot -> Seq(Message)]
  BY <1>2 DEF AppTypeOK
<1>. QED
  BY <1>3 DEF AppTypeOK, TakeRclcpp

LEMMA StartCallbackKeepsType ==
  ASSUME AppTypeOK, NEW x \in Slot, StartCallback(x)
  PROVE  AppTypeOK'
<1>. DEFINE q == Tail(channel[x])
            m == Head(channel[x])
<1>1. channel[x] \in Seq(Message) /\ channel[x] # << >>
  BY DEF AppTypeOK, StartCallback
<1>2. /\ m \in Message /\ q \in Seq(Message)
      /\ channel' = [channel EXCEPT ![x] = q] /\ busy' = [busy EXCEPT ![x] = m]
  BY <1>1 DEF StartCallback
<1>. HIDE DEF q, m
<1>3. channel' \in [Slot -> Seq(Message)] /\ busy' \in [Slot -> Message \cup {Nil}]
  BY <1>2 DEF AppTypeOK
<1>. QED
  BY <1>3 DEF AppTypeOK, StartCallback

LEMMA EndCallbackKeepsType ==
  ASSUME AppTypeOK, NEW x \in Slot, EndCallback(x)
  PROVE  AppTypeOK'
  BY DEF AppTypeOK, EndCallback

(* A take that panics stores no message; nothing follows it. *)
LEMMA AppStepKeepsType ==
  ASSUME outcome = "running" => AppTypeOK, [AppNext]_allVars, outcome' = "running"
  PROVE  AppTypeOK'
<1>1. CASE UNCHANGED allVars
  BY <1>1 DEF allVars, vars, appVars, AppTypeOK
<1>2. CASE AppNext
  <2>0. AppTypeOK /\ outcome = "running"
    BY <1>2 DEF AppNext
  <2>1. ASSUME NEW n \in NodeHandle, AppNodeAppears(n) PROVE AppTypeOK'
    BY <2>0, <2>1 DEF AppNodeAppears, appVars, AppTypeOK
  <2>2. ASSUME NEW x \in Slot, NEW u \in Handles, NEW g \in Gid, CreateRmw(x, u, g)
        PROVE  AppTypeOK'
    BY <2>0, <2>2, CreateRmwKeepsType
  <2>3. ASSUME NEW x \in Slot,
               \/ \E t \in Topic, n \in NodeHandle : CreateRcl(x, t, n)
               \/ CreateRclcpp(x) \/ AddCallback(x) \/ RegisterCallback(x)
        PROVE  AppTypeOK'
    <3>1. Live(x) /\ \E phase \in {"rcl", "rclcpp", "callback", "ready"} : Advance(x, phase)
      BY <2>3 DEF CreateRcl, CreateRclcpp, AddCallback, RegisterCallback, In
    <3>. QED
      BY <2>0, <3>1, Advanced
  <2>4. ASSUME NEW x \in Slot, Destroy(x) PROVE AppTypeOK'
    BY <2>0, <2>4, DestroyKeepsType
  <2>5. ASSUME NEW x \in Slot, NEW t \in Thread, NEW s \in Stamp, TakeRmw(t, x, s)
        PROVE  AppTypeOK'
    <3>1. RmwTake(RmwOf(x), AddressOf[t], s, TRUE)
      BY <2>5 DEF TakeRmw
    <3>2. FreeMessage
      BY <1>2, <3>1 DEF RmwTake, Fail, Panic, Stop
    <3>. QED
      BY <2>0, <2>5, <3>2, FreshMessage, TakeRmwKeepsType
  <2>. QED
    BY <1>2, <2>0, <2>1, <2>2, <2>3, <2>4, <2>5, TakeRclKeepsType, TakeRclcppKeepsType,
       StartCallbackKeepsType, EndCallbackKeepsType DEF AppNext, AppRegistration
<1>. QED
  BY <1>1, <1>2

LEMMA AppStepKeepsBusy ==
  ASSUME AppTypeOK, BusyIsReady, [AppNext]_allVars
  PROVE  BusyIsReady'
<1>1. ASSUME UNCHANGED <<slots, busy>> PROVE BusyIsReady'
  BY <1>1 DEF BusyIsReady, In, Live
<1>2. ASSUME NEW x \in Slot, Live(x), slots[x].phase # "ready",
             NEW phase \in {"rmw", "rcl", "rclcpp", "callback", "ready"}, Advance(x, phase)
      PROVE  BusyIsReady'
  BY <1>2, Advanced DEF BusyIsReady, In, Live, Advance
<1>3. ASSUME NEW x \in Slot, NEW u \in Handles, NEW g \in Gid, CreateRmw(x, u, g)
      PROVE  BusyIsReady'
  BY <1>3 DEF CreateRmw, BusyIsReady, In, Live, AppTypeOK
<1>4. ASSUME NEW x \in Slot,
             \/ \E t \in Topic, n \in NodeHandle : CreateRcl(x, t, n)
             \/ CreateRclcpp(x) \/ AddCallback(x) \/ RegisterCallback(x)
      PROVE  BusyIsReady'
  <2>1. /\ Live(x) /\ slots[x].phase # "ready"
        /\ \E phase \in {"rcl", "rclcpp", "callback", "ready"} : Advance(x, phase)
    BY <1>4 DEF CreateRcl, CreateRclcpp, AddCallback, RegisterCallback, In
  <2>. QED
    BY <1>2, <2>1
<1>5. ASSUME NEW x \in Slot, Destroy(x) PROVE BusyIsReady'
  BY <1>5 DEF Destroy, BusyIsReady, In, Live, AppTypeOK
<1>6. ASSUME NEW x \in Slot, StartCallback(x) \/ EndCallback(x) PROVE BusyIsReady'
  BY <1>6 DEF StartCallback, EndCallback, BusyIsReady, In, Live, AppTypeOK
<1>7. ASSUME NEW n \in NodeHandle, AppNodeAppears(n) PROVE BusyIsReady'
  BY <1>1, <1>7 DEF AppNodeAppears, appVars
<1>8. ASSUME NEW t \in Thread,
             \/ \E x \in Slot, s \in Stamp : TakeRmw(t, x, s)
             \/ TakeRcl(t) \/ TakeRclcpp(t)
      PROVE  BusyIsReady'
  BY <1>1, <1>8 DEF TakeRmw, TakeRcl, TakeRclcpp
<1>9. CASE UNCHANGED allVars
  BY <1>1, <1>9 DEF allVars, appVars
<1>. QED
  BY <1>3, <1>4, <1>5, <1>6, <1>7, <1>8, <1>9 DEF AppNext, AppRegistration

(* A step of the application is one of the processor, or none. *)
LEMMA AppStepIsStep ==
  ASSUME outcome = "running" => AppOK, [AppNext]_allVars
  PROVE  [Next]_vars
<1>1. CASE UNCHANGED allVars
  BY <1>1 DEF allVars
<1>2. CASE AppNext
  <2>0. AppTypeOK /\ BusyIsReady /\ outcome = "running"
    BY <1>2 DEF AppNext, AppOK
  <2>1. ASSUME NEW n \in NodeHandle, AppNodeAppears(n) PROVE Registration
    BY <2>1 DEF AppNodeAppears, Registration
  <2>2. ASSUME NEW x \in Slot, NEW u \in Handles, NEW g \in Gid, CreateRmw(x, u, g)
        PROVE  Registration
    <3>1. u[1] \in RmwHandle
      BY DEF Handles
    <3>. QED
      BY <2>2, <3>1 DEF CreateRmw, Registration
  <2>3. ASSUME NEW x \in Slot, NEW t \in Topic, NEW n \in NodeHandle, CreateRcl(x, t, n)
        PROVE  Registration
    BY <2>0, <2>3, LiveSlot DEF CreateRcl, Registration, In
  <2>4. ASSUME NEW x \in Slot, CreateRclcpp(x) PROVE Registration
    BY <2>0, <2>4, LiveSlot DEF CreateRclcpp, Registration, In
  <2>5. ASSUME NEW x \in Slot, AddCallback(x) PROVE Registration
    BY <2>0, <2>5, LiveSlot DEF AddCallback, Registration, In
  <2>6. ASSUME NEW x \in Slot, RegisterCallback(x) PROVE Registration
    BY <2>0, <2>6, LiveSlot DEF RegisterCallback, Registration, In
  <2>7. ASSUME NEW x \in Slot, Destroy(x) PROVE UNCHANGED vars
    BY <2>7 DEF Destroy
  <2>8. ASSUME NEW x \in Slot, NEW t \in Thread, NEW s \in Stamp, TakeRmw(t, x, s)
        PROVE  Reception
    BY <2>0, <2>8, LiveSlot, SubscriptionAppAssumption DEF TakeRmw, Reception, In
  <2>9. ASSUME NEW t \in Thread, TakeRcl(t) \/ TakeRclcpp(t) PROVE Reception
    BY <2>9, SubscriptionAppAssumption DEF TakeRcl, TakeRclcpp, Reception
  <2>10. ASSUME NEW x \in Slot, StartCallback(x) PROVE Execution
    BY <2>0, <2>10, LiveSlot DEF StartCallback, Execution, In
  <2>11. ASSUME NEW x \in Slot, EndCallback(x) PROVE Execution
    BY <2>0, <2>11, LiveSlot DEF EndCallback, Execution, In, BusyIsReady
  <2>. QED
    BY <1>2, <2>0, <2>1, <2>2, <2>3, <2>4, <2>5, <2>6, <2>7, <2>8, <2>9, <2>10, <2>11
       DEF AppNext, AppRegistration, Next
<1>. QED
  BY <1>1, <1>2

AppRuns == outcome = "running" => AppOK

LEMMA AppOKKept == AppSpec => []AppRuns
<1>1. AppInit => AppRuns
  BY DEF AppInit, AppRuns, AppOK, AppTypeOK, BusyIsReady
<1>2. AppRuns /\ [AppNext]_allVars => AppRuns'
  <2>. SUFFICES ASSUME AppRuns, [AppNext]_allVars, outcome' = "running"
                PROVE  AppOK'
    BY DEF AppRuns
  <2>1. outcome = "running"
    BY DEF AppNext, allVars, vars
  <2>. QED
    BY <2>1, AppStepKeepsType, AppStepKeepsBusy DEF AppOK, AppRuns
<1>. QED
  BY <1>1, <1>2, PTL DEF AppSpec

(* An application only takes steps the processor takes for any events: what
   is shown above of every stream of events holds of its traces. *)
THEOREM AppIsStream == AppSpec => Spec
<1>1. AppInit => Init
  BY DEF AppInit
<1>2. AppRuns /\ [AppNext]_allVars => [Next]_vars
  BY AppStepIsStep DEF AppRuns
<1>. QED
  BY <1>1, <1>2, AppOKKept, PTL DEF AppSpec, Spec

-----------------------------------------------------------------------------
(* What the processor has of a slot. *)
Base == IInv /\ AppTypeOK /\ BusyIsReady

LEMMA RmwEntry ==
  ASSUME Base, TraceInv, NEW r \in RmwHandle, subscribersByRmw[r] # Nil
  PROVE  /\ subscribersByRmw[r] \in Subscriber
         /\ subscribers[subscribersByRmw[r]] # Nil
         /\ subscribers[subscribersByRmw[r]] \in SubscriberObject
         /\ subscribers[subscribersByRmw[r]].rmw = r
         /\ ~subscribers[subscribersByRmw[r]].removed
<1>. DEFINE p == subscribersByRmw[r]
<1>1. p \in Subscriber /\ subscribers \in [Subscriber -> SubscriberObject \cup {Nil}]
  BY DEF Base, IInv, TypeOK
<1>2. subscribers[p] # Nil
  BY DEF Base, IInv, RegistryRefs
<1>3. subscribers[p].rmw = r
  BY DEF Base, IInv, LiveIsFound
<1>4. ~subscribers[p].removed
  BY DEF TraceInv, ByRmwOK
<1>. QED
  BY <1>1, <1>2, <1>3, <1>4

LEMMA CurrentFields ==
  ASSUME Base, TraceInv, NEW x \in Slot, Live(x)
  PROVE  /\ Current(x) \in Subscriber
         /\ subscribers[Current(x)] # Nil
         /\ subscribers[Current(x)] \in SubscriberObject
         /\ subscribers[Current(x)].rmw = RmwOf(x)
         /\ ~subscribers[Current(x)].removed
         /\ subscribers[Current(x)].taken \in Seq(Message)
<1>1. RmwOf(x) \in RmwHandle
  BY LiveSlot DEF Base
<1>2. Current(x) # Nil
  BY DEF TraceInv, SlotOK
<1>3. /\ Current(x) \in Subscriber
      /\ subscribers[Current(x)] # Nil
      /\ subscribers[Current(x)] \in SubscriberObject
      /\ subscribers[Current(x)].rmw = RmwOf(x)
      /\ ~subscribers[Current(x)].removed
  BY <1>1, <1>2, RmwEntry DEF Current
<1>4. subscribers[Current(x)].taken \in Seq(Message)
  BY <1>3 DEF SubscriberObject
<1>. QED
  BY <1>3, <1>4

(* Two slots share nothing. *)
LEMMA OwnedAt ==
  ASSUME Owned, NEW u \in used, NEW v \in used, NEW i \in 1..4, u[i] = v[i]
  PROVE  u = v
  BY DEF Owned, SomeShared

LEMMA SlotsDiffer ==
  ASSUME Base, TraceInv, NEW x \in Slot, NEW y \in Slot, x # y, Live(x), Live(y)
  PROVE  /\ RmwOf(x) # RmwOf(y) /\ RclOf(x) # RclOf(y)
         /\ RclcppOf(x) # RclcppOf(y) /\ CallbackOf(x) # CallbackOf(y)
         /\ Current(x) # Current(y)
<1>1. ~SomeShared(slots[x].handles, slots[y].handles)
  BY DEF TraceInv, Apart
<1>2. /\ RmwOf(x) # RmwOf(y) /\ RclOf(x) # RclOf(y)
      /\ RclcppOf(x) # RclcppOf(y) /\ CallbackOf(x) # CallbackOf(y)
  BY <1>1 DEF SomeShared, RmwOf, RclOf, RclcppOf, CallbackOf
<1>. QED
  BY <1>2, CurrentFields

(* The callback of a slot that has one. *)
LEMMA CallbackFields ==
  ASSUME Base, TraceInv, NEW x \in Slot, Live(x), slots[x].phase \in {"callback", "ready"}
  PROVE  /\ CallbackAt(x) \in Callback
         /\ callbacks[CallbackAt(x)] # Nil
         /\ callbacks[CallbackAt(x)] \in CallbackObject
         /\ callbacks[CallbackAt(x)].caller = Current(x)
<1>1. CallbackOf(x) \in CallbackHandle
  BY LiveSlot DEF Base
<1>2. CallbackAt(x) # Nil /\ callbacks[CallbackAt(x)].caller = Current(x)
  BY DEF TraceInv, SlotOK
<1>3. CallbackAt(x) \in Callback /\ callbacks[CallbackAt(x)] # Nil
  BY <1>1, <1>2 DEF Base, IInv, TypeOK, TrafficRefs, CallbackAt
<1>4. callbacks[CallbackAt(x)] \in CallbackObject
  BY <1>3 DEF Base, IInv, TypeOK
<1>. QED
  BY <1>2, <1>3, <1>4

-----------------------------------------------------------------------------
(* A step at slot x leaves the others alone. *)
Elsewhere(x) ==
  /\ used \subseteq used'
  /\ \A y \in Slot : y # x =>
       /\ slots'[y] = slots[y] /\ channel'[y] = channel[y] /\ busy'[y] = busy[y]
       /\ \A t \in Thread : /\ Takes(t, y)' <=> Takes(t, y)
                            /\ Takes(t, y) => taking'[t].message = taking[t].message
       /\ Live(y) =>
            /\ subscribersByRmw'[RmwOf(y)] = subscribersByRmw[RmwOf(y)]
            /\ callbacksById'[CallbackOf(y)] = callbacksById[CallbackOf(y)]
            /\ subscribers'[Current(y)] = subscribers[Current(y)]
            /\ slots[y].phase \in {"callback", "ready"} =>
                 callbacks'[CallbackAt(y)] = callbacks[CallbackAt(y)]
  /\ \A m \in Message : Complete(m) => Complete(m)'

LEMMA ElsewhereKeeps ==
  ASSUME Base, TraceInv, NEW x \in Slot, Elsewhere(x), NEW y \in Slot, y # x
  PROVE  SlotOK(y)' /\ WorkOK(y)'
<1>1. SlotOK(y) /\ WorkOK(y)
  BY DEF TraceInv
<1>2. slots'[y] = slots[y] /\ channel'[y] = channel[y] /\ busy'[y] = busy[y]
  BY DEF Elsewhere
<1>3. /\ Live(y)' <=> Live(y)
      /\ In(y, "ready")' <=> In(y, "ready")
      /\ RmwOf(y)' = RmwOf(y) /\ RclOf(y)' = RclOf(y)
      /\ RclcppOf(y)' = RclcppOf(y) /\ CallbackOf(y)' = CallbackOf(y)
  BY <1>2 DEF Live, In, RmwOf, RclOf, RclcppOf, CallbackOf
<1>4. Live(y) => /\ Current(y)' = Current(y) /\ CallbackAt(y)' = CallbackAt(y)
                 /\ subscribers'[Current(y)] = subscribers[Current(y)]
                 /\ slots[y].phase \in {"callback", "ready"} =>
                      callbacks'[CallbackAt(y)] = callbacks[CallbackAt(y)]
  BY <1>3 DEF Elsewhere, Current, CallbackAt
<1>5. SlotOK(y)'
  BY <1>1, <1>2, <1>3, <1>4 DEF SlotOK, Elsewhere
<1>6. \A t \in Thread : /\ Takes(t, y)' <=> Takes(t, y)
                        /\ Takes(t, y) => taking'[t].message = taking[t].message
  BY DEF Elsewhere
<1>7. channel[y] \in Seq(Message) /\ busy[y] \in Message \cup {Nil}
  BY DEF Base, AppTypeOK
<1>8. \A i \in 1..Len(channel[y]) : Complete(channel[y][i])'
  BY <1>1, <1>7 DEF WorkOK, Elsewhere
<1>9. busy[y] # Nil => Complete(busy[y])'
  BY <1>1, <1>7 DEF WorkOK, Elsewhere
<1>10. In(y, "ready") => Live(y)
  BY DEF In
<1>11. In(y, "ready") =>
         /\ \A t \in Thread :
              Takes(t, y) => subscribers[Current(y)].taken = Append(channel[y], taking[t].message)
         /\ (\A t \in Thread : ~Takes(t, y)) => subscribers[Current(y)].taken = channel[y]
  BY <1>1 DEF WorkOK
<1>12. In(y, "ready")' =>
         /\ \A t \in Thread :
              Takes(t, y)' => subscribers'[Current(y)'].taken = Append(channel'[y], taking'[t].message)
         /\ (\A t \in Thread : ~Takes(t, y)') => subscribers'[Current(y)'].taken = channel'[y]
  BY <1>2, <1>3, <1>4, <1>6, <1>10, <1>11
<1>13. ~In(y, "ready")' => channel'[y] = << >> /\ \A t \in Thread : ~Takes(t, y)'
  BY <1>1, <1>2, <1>3, <1>6 DEF WorkOK
<1>14. WorkOK(y)'
  BY <1>2, <1>8, <1>9, <1>12, <1>13 DEF WorkOK
<1>. QED
  BY <1>5, <1>14

(* The registries of subscribers and callbacks. *)
LEMMA HandlesKept ==
  ASSUME TraceInv, used \subseteq used', usedGids \subseteq usedGids',
         NEW p \in Subscriber, subscribers[p] # Nil,
         subscribers'[p].gid = subscribers[p].gid, subscribers'[p].rmw = subscribers[p].rmw,
         subscribers'[p].rcl = subscribers[p].rcl, subscribers'[p].rclcpp = subscribers[p].rclcpp
  PROVE  HandlesOK(p)'
<1>1. HandlesOK(p)
  BY DEF TraceInv
<1>. QED
  BY <1>1 DEF HandlesOK

LEMMA RmwKept ==
  ASSUME TraceInv, NEW r \in RmwHandle, subscribersByRmw'[r] = subscribersByRmw[r],
         subscribersByRmw[r] # Nil =>
           subscribers'[subscribersByRmw[r]].removed = subscribers[subscribersByRmw[r]].removed
  PROVE  ByRmwOK(r)'
<1>1. ByRmwOK(r)
  BY DEF TraceInv
<1>. QED
  BY <1>1 DEF ByRmwOK

LEMMA AddressKept ==
  ASSUME Base, TraceInv, used \subseteq used',
         NEW f \in CallbackHandle, callbacksById'[f] = callbacksById[f],
         callbacksById[f] # Nil =>
           callbacks'[callbacksById[f]].caller = callbacks[callbacksById[f]].caller,
         \A p \in Subscriber :
           subscribers[p] # Nil => subscribers'[p].rmw = subscribers[p].rmw
  PROVE  AddressOK(f)'
<1>1. AddressOK(f)
  BY DEF TraceInv
<1>2. CASE callbacksById[f] # Nil
  <2>. DEFINE k == callbacksById[f]
              c == callbacks[k].caller
  <2>1. k \in Callback /\ callbacks[k] # Nil /\ callbacks[k] \in CallbackObject
    BY <1>2 DEF Base, IInv, TypeOK, TrafficRefs
  <2>2. c \in Subscriber /\ subscribers[c] # Nil
    BY <2>1 DEF CallbackObject, Base, IInv, CallerIsAlive
  <2>3. subscribers'[c].rmw = subscribers[c].rmw
    BY <2>2
  <2>. QED
    BY <1>1, <1>2, <2>3 DEF AddressOK
<1>3. CASE callbacksById[f] = Nil
  BY <1>3 DEF AddressOK
<1>. QED
  BY <1>2, <1>3

LEMMA TakingKept ==
  ASSUME TraceInv, UNCHANGED <<messages, received, taking>>, NEW t \in Thread
  PROVE  TakingOK(t)'
<1>1. TakingOK(t)
  BY DEF TraceInv
<1>. QED
  BY <1>1 DEF TakingOK, Takes

LEMMA SlotsStay ==
  ASSUME TraceInv, used' = used,
         \A y \in Slot : Live(y)' => Live(y) /\ slots'[y].handles = slots[y].handles
  PROVE  Owned' /\ Apart'
  BY DEF TraceInv, Owned, Apart

-----------------------------------------------------------------------------
(* One lemma per action. *)
LEMMA AppNodeAppearsTraced ==
  ASSUME TraceInv, NEW n \in NodeHandle, AppNodeAppears(n)
  PROVE  TraceInv'
<1>1. UNCHANGED <<outcome, subscribers, subscribersByRmw, callbacks, callbacksById, messages,
                  received, slots, used, usedGids, taking, channel, busy>>
  BY DEF AppNodeAppears, NodeAppears, Continue, heaps, appVars
<1>2. Owned' /\ Apart'
  BY <1>1, SlotsStay DEF Live
<1>3. \A p \in Subscriber : HandlesOK(p)'
  BY <1>1 DEF TraceInv, HandlesOK
<1>4. \A r \in RmwHandle : ByRmwOK(r)'
  BY <1>1 DEF TraceInv, ByRmwOK
<1>5. \A f \in CallbackHandle : AddressOK(f)'
  BY <1>1 DEF TraceInv, AddressOK
<1>6. \A x \in Slot : SlotOK(x)'
  BY <1>1 DEF TraceInv, SlotOK, Live, RmwOf, RclOf, RclcppOf, CallbackOf, Current, CallbackAt
<1>7. \A x \in Slot : WorkOK(x)'
  BY <1>1 DEF TraceInv, WorkOK, Live, In, Takes, Complete, RmwOf, Current
<1>8. \A t \in Thread : TakingOK(t)'
  BY <1>1, TakingKept
<1>. QED
  BY <1>1, <1>2, <1>3, <1>4, <1>5, <1>6, <1>7, <1>8 DEF TraceInv

LEMMA DestroyTraced ==
  ASSUME Base, TraceInv, NEW x \in Slot, Destroy(x)
  PROVE  TraceInv'
<1>1. /\ UNCHANGED <<outcome, subscribers, subscribersByRmw, callbacks, callbacksById, messages,
                     received, used, usedGids, taking, channel, busy>>
      /\ channel[x] = << >> /\ busy[x] = Nil
      /\ \A t \in Thread : ~Takes(t, x)
  BY DEF Destroy, vars, registry, heaps, Takes
<1>2. slots' = [slots EXCEPT ![x] = Nil] /\ slots \in [Slot -> SlotObject \cup {Nil}]
  BY DEF Destroy, Base, AppTypeOK
<1>3. slots'[x] = Nil /\ \A y \in Slot : y # x => slots'[y] = slots[y]
  BY <1>2
<1>4. Elsewhere(x)
  BY <1>1, <1>3 DEF Elsewhere, Takes, Complete
<1>5. SlotOK(x)' /\ WorkOK(x)'
  BY <1>1, <1>3 DEF SlotOK, WorkOK, Live, In, Takes
<1>6. Owned' /\ Apart'
  BY <1>1, <1>3, SlotsStay DEF Live
<1>7. \A p \in Subscriber : HandlesOK(p)'
  BY <1>1 DEF TraceInv, HandlesOK
<1>8. \A r \in RmwHandle : ByRmwOK(r)'
  BY <1>1 DEF TraceInv, ByRmwOK
<1>9. \A f \in CallbackHandle : AddressOK(f)'
  BY <1>1 DEF TraceInv, AddressOK
<1>10. \A t \in Thread : TakingOK(t)'
  BY <1>1, TakingKept
<1>. QED
  BY <1>1, <1>4, <1>5, <1>6, <1>7, <1>8, <1>9, <1>10, ElsewhereKeeps DEF TraceInv

(* The step writes the callback of slot x only. *)
LEMMA CallbacksDiffer ==
  ASSUME Base, TraceInv, NEW x \in Slot, NEW y \in Slot, x # y,
         Live(x), slots[x].phase \in {"callback", "ready"},
         Live(y), slots[y].phase \in {"callback", "ready"}
  PROVE  CallbackAt(x) # CallbackAt(y)
  BY SlotsDiffer, CallbackFields

CallbackWritten(x) ==
  /\ UNCHANGED <<outcome, subscribersByRmw, callbacksById, messages, received,
                 used, usedGids, taking>>
  /\ \A y \in Slot : y # x =>
       slots'[y] = slots[y] /\ channel'[y] = channel[y] /\ busy'[y] = busy[y]
  /\ slots'[x] # Nil /\ slots'[x].handles = slots[x].handles
  /\ callbacks'[CallbackAt(x)].caller = callbacks[CallbackAt(x)].caller
  /\ \A k \in Callback : k # CallbackAt(x) => callbacks'[k] = callbacks[k]
  /\ \A p \in Subscriber : p # Current(x) => subscribers'[p] = subscribers[p]
  /\ LET o == subscribers[Current(x)]
         u == subscribers'[Current(x)]
     IN  /\ u.gid = o.gid /\ u.rmw = o.rmw /\ u.rcl = o.rcl /\ u.rclcpp = o.rclcpp
         /\ u.removed = o.removed

LEMMA CallbackWriteTraced ==
  ASSUME Base, TraceInv, NEW x \in Slot, Live(x), slots[x].phase \in {"callback", "ready"},
         CallbackWritten(x), SlotOK(x)', WorkOK(x)'
  PROVE  TraceInv'
<1>1. UNCHANGED <<outcome, subscribersByRmw, callbacksById, messages, received,
                  used, usedGids, taking>>
  BY DEF CallbackWritten
<1>2. /\ \A y \in Slot : y # x =>
           slots'[y] = slots[y] /\ channel'[y] = channel[y] /\ busy'[y] = busy[y]
      /\ slots'[x] # Nil /\ slots'[x].handles = slots[x].handles
  BY DEF CallbackWritten
<1>3. /\ callbacks'[CallbackAt(x)].caller = callbacks[CallbackAt(x)].caller
      /\ \A k \in Callback : k # CallbackAt(x) => callbacks'[k] = callbacks[k]
  BY DEF CallbackWritten
<1>4. /\ \A p \in Subscriber : p # Current(x) => subscribers'[p] = subscribers[p]
      /\ subscribers'[Current(x)].gid = subscribers[Current(x)].gid
      /\ subscribers'[Current(x)].rmw = subscribers[Current(x)].rmw
      /\ subscribers'[Current(x)].rcl = subscribers[Current(x)].rcl
      /\ subscribers'[Current(x)].rclcpp = subscribers[Current(x)].rclcpp
      /\ subscribers'[Current(x)].removed = subscribers[Current(x)].removed
  BY DEF CallbackWritten
<1>5. Current(x) \in Subscriber /\ subscribers[Current(x)] # Nil
      /\ subscribers[Current(x)] \in SubscriberObject
  BY CurrentFields
<1>6. ASSUME NEW y \in Slot, y # x, Live(y)
      PROVE  /\ subscribers'[Current(y)] = subscribers[Current(y)]
             /\ slots[y].phase \in {"callback", "ready"} =>
                  callbacks'[CallbackAt(y)] = callbacks[CallbackAt(y)]
  BY <1>3, <1>4, <1>6, SlotsDiffer, CallbacksDiffer, CurrentFields, CallbackFields
<1>7. Elsewhere(x)
  BY <1>1, <1>2, <1>6 DEF Elsewhere, Takes, Complete
<1>8. Owned' /\ Apart'
  BY <1>1, <1>2, SlotsStay DEF Live
<1>9. ASSUME NEW p \in Subscriber PROVE HandlesOK(p)'
  BY <1>1, <1>4, <1>5 DEF TraceInv, HandlesOK
<1>10. ASSUME NEW r \in RmwHandle PROVE ByRmwOK(r)'
  <2>1. subscribersByRmw[r] # Nil => subscribersByRmw[r] \in Subscriber
    BY RmwEntry
  <2>. QED
    BY <1>1, <1>4, <2>1, RmwKept
<1>11. ASSUME NEW f \in CallbackHandle PROVE AddressOK(f)'
  <2>1. callbacksById[f] # Nil => callbacksById[f] \in Callback
    BY DEF Base, IInv, TypeOK
  <2>2. \A p \in Subscriber : subscribers'[p].rmw = subscribers[p].rmw
    BY <1>4
  <2>. QED
    BY <1>1, <1>3, <2>1, <2>2, AddressKept
<1>12. ASSUME NEW t \in Thread PROVE TakingOK(t)'
  BY <1>1, TakingKept
<1>. QED
  BY <1>1, <1>7, <1>8, <1>9, <1>10, <1>11, <1>12, ElsewhereKeeps DEF TraceInv

LEMMA RegisterCallbackTraced ==
  ASSUME Base, TraceInv, NEW x \in Slot, RegisterCallback(x)
  PROVE  TraceInv'
<1>1. /\ Live(x) /\ slots[x].phase = "callback" /\ CallbackRegister(CallbackOf(x))
      /\ Advance(x, "ready")
  BY DEF RegisterCallback, In
<1>2. /\ slots'[x] # Nil /\ slots'[x].phase = "ready" /\ slots'[x].handles = slots[x].handles
      /\ \A y \in Slot : y # x => slots'[y] = slots[y]
  BY <1>1, Advanced DEF Base
<1>3. UNCHANGED <<used, usedGids, taking, channel, busy>>
  BY <1>1 DEF Advance
<1>. DEFINE p == Current(x)
            k == CallbackAt(x)
<1>4. SlotOK(x) /\ WorkOK(x)
  BY DEF TraceInv
<1>5. k \in Callback /\ k # Nil /\ callbacks[k] \in CallbackObject /\ ~callbacks[k].named
  BY <1>1, <1>4, CallbackFields DEF SlotOK
<1>6. /\ callbacks' = [callbacks EXCEPT ![k].named = TRUE]
      /\ UNCHANGED <<outcome, registry, subscribers, messages, received, published>>
  BY <1>1, <1>5 DEF CallbackRegister, Continue, CallbackAt
<1>. DEFINE o == [callbacks[k] EXCEPT !.named = TRUE]
<1>7. o.caller = callbacks[k].caller /\ o.named = TRUE /\ o.running = callbacks[k].running
  BY <1>5 DEF CallbackObject
<1>8. callbacks' = [callbacks EXCEPT ![k] = o]
  BY <1>6
<1>. HIDE DEF o
<1>9. callbacks'[k] = o /\ \A j \in Callback : j # k => callbacks'[j] = callbacks[j]
  BY <1>5, <1>8 DEF Base, IInv, TypeOK
<1>10. UNCHANGED <<outcome, subscribers, subscribersByRmw, callbacksById, messages, received>>
  BY <1>6 DEF registry
<1>11. CallbackWritten(x)
  BY <1>2, <1>3, <1>7, <1>9, <1>10 DEF CallbackWritten
<1>12. Current(x)' = p /\ CallbackAt(x)' = k
  BY <1>2, <1>10 DEF Current, CallbackAt, RmwOf, CallbackOf
<1>13. SlotOK(x)'
  BY <1>1, <1>2, <1>3, <1>4, <1>7, <1>9, <1>10, <1>12
     DEF SlotOK, Live, RmwOf, RclOf, RclcppOf, CallbackOf
<1>14. subscribers[p].taken = << >> /\ channel[x] = << >> /\ \A t \in Thread : ~Takes(t, x)
  BY <1>1, <1>4 DEF SlotOK, WorkOK, In
<1>15. WorkOK(x)'
  BY <1>3, <1>4, <1>10, <1>12, <1>14 DEF WorkOK, Takes, Complete
<1>. QED
  BY <1>1, <1>11, <1>13, <1>15, CallbackWriteTraced

LEMMA EndCallbackTraced ==
  ASSUME Base, TraceInv, NEW x \in Slot, EndCallback(x)
  PROVE  TraceInv'
<1>1. /\ Live(x) /\ slots[x].phase = "ready" /\ busy[x] # Nil /\ CallbackEnd(CallbackOf(x))
      /\ busy' = [busy EXCEPT ![x] = Nil]
      /\ UNCHANGED <<slots, used, usedGids, taking, channel>>
  BY DEF EndCallback, Base, BusyIsReady, In
<1>. DEFINE p == Current(x)
            k == CallbackAt(x)
<1>2. SlotOK(x) /\ WorkOK(x)
  BY DEF TraceInv
<1>3. /\ k \in Callback /\ k # Nil /\ callbacks[k] \in CallbackObject
      /\ callbacks[k].running = busy[x]
  BY <1>1, <1>2, CallbackFields DEF SlotOK
<1>4. /\ callbacks' = [callbacks EXCEPT ![k].running = Nil]
      /\ UNCHANGED <<outcome, registry, subscribers, messages, received, published>>
  BY <1>1, <1>3 DEF CallbackEnd, Continue, CallbackAt
<1>. DEFINE o == [callbacks[k] EXCEPT !.running = Nil]
<1>5. o.caller = callbacks[k].caller /\ o.named = callbacks[k].named /\ o.running = Nil
  BY <1>3 DEF CallbackObject
<1>6. callbacks' = [callbacks EXCEPT ![k] = o]
  BY <1>4
<1>. HIDE DEF o
<1>7. callbacks'[k] = o /\ \A j \in Callback : j # k => callbacks'[j] = callbacks[j]
  BY <1>3, <1>6 DEF Base, IInv, TypeOK
<1>8. UNCHANGED <<outcome, subscribers, subscribersByRmw, callbacksById, messages, received>>
  BY <1>4 DEF registry
<1>9. busy'[x] = Nil /\ \A y \in Slot : y # x => busy'[y] = busy[y]
  BY <1>1 DEF Base, AppTypeOK
<1>10. CallbackWritten(x)
  BY <1>1, <1>5, <1>7, <1>8, <1>9 DEF CallbackWritten, Live
<1>11. Current(x)' = p /\ CallbackAt(x)' = k
  BY <1>1, <1>8 DEF Current, CallbackAt, RmwOf, CallbackOf
<1>12. SlotOK(x)'
  BY <1>1, <1>2, <1>5, <1>7, <1>8, <1>9, <1>11
     DEF SlotOK, Live, RmwOf, RclOf, RclcppOf, CallbackOf
<1>13. WorkOK(x)'
  BY <1>1, <1>2, <1>8, <1>9, <1>11 DEF WorkOK, Live, In, Takes, Complete
<1>. QED
  BY <1>1, <1>10, <1>12, <1>13, CallbackWriteTraced

LEMMA StartCallbackTraced ==
  ASSUME Base, TraceInv, NEW x \in Slot, StartCallback(x)
  PROVE  TraceInv'
<1>. DEFINE p == Current(x)
            k == CallbackAt(x)
            q == channel[x]
<1>1. /\ Live(x) /\ slots[x].phase = "ready" /\ In(x, "ready")
      /\ busy[x] = Nil /\ q # << >> /\ CallbackStart(CallbackOf(x))
      /\ busy' = [busy EXCEPT ![x] = Head(q)]
      /\ channel' = [channel EXCEPT ![x] = Tail(q)]
      /\ UNCHANGED <<slots, used, usedGids, taking>>
  BY DEF StartCallback, In
<1>2. SlotOK(x) /\ WorkOK(x)
  BY DEF TraceInv
<1>3. /\ k \in Callback /\ k # Nil /\ callbacks[k] \in CallbackObject
      /\ callbacks[k].running = Nil /\ callbacks[k].caller = p
  BY <1>1, <1>2, CallbackFields DEF SlotOK
<1>4. p \in Subscriber /\ subscribers[p] \in SubscriberObject /\ q \in Seq(Message)
  BY <1>1, CurrentFields DEF Base, AppTypeOK
(* What the queue of the processor is. *)
<1>. DEFINE z == subscribers[p].taken
<1>5. \/ z = q /\ \A t \in Thread : ~Takes(t, x)
      \/ \E t \in Thread : Takes(t, x) /\ z = Append(q, taking[t].message)
  BY <1>1, <1>2 DEF WorkOK
<1>6. \A t \in Thread : Takes(t, x) => taking[t].message \in Message
  BY TakingThread DEF Takes, Base
<1>7. z # << >> /\ Head(z) = Head(q)
  BY <1>1, <1>4, <1>5, <1>6
<1>8. /\ \A t \in Thread : Takes(t, x) => Tail(z) = Append(Tail(q), taking[t].message)
      /\ (\A t \in Thread : ~Takes(t, x)) => Tail(z) = Tail(q)
  <2>1. ASSUME NEW t \in Thread, Takes(t, x)
        PROVE  Tail(z) = Append(Tail(q), taking[t].message)
    <3>1. z = Append(q, taking[t].message) /\ taking[t].message \in Message
      BY <1>1, <1>2, <1>6, <2>1 DEF WorkOK
    <3>. QED
      BY <1>1, <1>4, <3>1
  <2>. QED
    BY <1>5, <2>1
<1>9. /\ callbacks' = [callbacks EXCEPT ![k].running = Head(z)]
      /\ subscribers' = [subscribers EXCEPT ![p] = AfterPop(@)]
      /\ UNCHANGED <<outcome, registry, messages, received, published>>
  BY <1>1, <1>3, <1>7 DEF CallbackStart, Continue, CallbackAt
<1>. DEFINE o == [callbacks[k] EXCEPT !.running = Head(z)]
            u == AfterPop(subscribers[p])
<1>10. o.caller = p /\ o.named = callbacks[k].named /\ o.running = Head(q)
  BY <1>3, <1>7 DEF CallbackObject
<1>11. /\ u.taken = Tail(z)
       /\ u.rmw = subscribers[p].rmw /\ u.rcl = subscribers[p].rcl
       /\ u.rclcpp = subscribers[p].rclcpp /\ u.callback = subscribers[p].callback
       /\ u.removed = subscribers[p].removed
  BY <1>4, <1>7, AfterPopFields
<1>12. u.gid = subscribers[p].gid
  BY <1>4 DEF AfterPop, SubscriberObject
<1>13. callbacks' = [callbacks EXCEPT ![k] = o] /\ subscribers' = [subscribers EXCEPT ![p] = u]
  BY <1>9
<1>. HIDE DEF o, u
<1>14. /\ callbacks'[k] = o /\ \A j \in Callback : j # k => callbacks'[j] = callbacks[j]
       /\ subscribers'[p] = u /\ \A j \in Subscriber : j # p => subscribers'[j] = subscribers[j]
  BY <1>3, <1>4, <1>13 DEF Base, IInv, TypeOK
<1>15. UNCHANGED <<outcome, subscribersByRmw, callbacksById, messages, received>>
  BY <1>9 DEF registry
<1>16. /\ busy'[x] = Head(q) /\ \A y \in Slot : y # x => busy'[y] = busy[y]
       /\ channel'[x] = Tail(q) /\ \A y \in Slot : y # x => channel'[y] = channel[y]
  BY <1>1 DEF Base, AppTypeOK
<1>17. CallbackWritten(x)
  BY <1>1, <1>3, <1>10, <1>11, <1>12, <1>14, <1>15, <1>16 DEF CallbackWritten, Live
<1>18. Current(x)' = p /\ CallbackAt(x)' = k
  BY <1>1, <1>15 DEF Current, CallbackAt, RmwOf, CallbackOf
<1>19. SlotOK(x)'
  BY <1>1, <1>2, <1>10, <1>11, <1>14, <1>15, <1>16, <1>18
     DEF SlotOK, Live, RmwOf, RclOf, RclcppOf, CallbackOf
<1>20. \A i \in 1..Len(q) : Complete(q[i])
  BY <1>2 DEF WorkOK
<1>21. /\ Complete(Head(q)) /\ Head(q) \in Message
       /\ \A i \in 1..Len(Tail(q)) : Complete(Tail(q)[i])
  BY <1>1, <1>4, <1>20
<1>22. /\ \A i \in 1..Len(channel'[x]) : Complete(channel[x][i])'
       /\ Complete(busy[x])'
  <2>1. \A i \in 1..Len(Tail(q)) : messages'[Tail(q)[i]] # Nil /\ messages'[Tail(q)[i]].layers = Layer
    BY <1>15, <1>21 DEF Complete
  <2>2. messages'[Head(q)] # Nil /\ messages'[Head(q)].layers = Layer
    BY <1>15, <1>21 DEF Complete
  <2>. QED
    BY <1>16, <2>1, <2>2 DEF Complete
<1>23. In(x, "ready")' /\ \A t \in Thread : Takes(t, x)' <=> Takes(t, x)
  BY <1>1 DEF In, Live, Takes
<1>24. /\ \A t \in Thread :
            Takes(t, x)' => subscribers'[p].taken = Append(channel'[x], taking'[t].message)
       /\ (\A t \in Thread : ~Takes(t, x)') => subscribers'[p].taken = channel'[x]
  BY <1>1, <1>8, <1>11, <1>14, <1>16, <1>23
<1>25. WorkOK(x)'
  BY <1>18, <1>22, <1>23, <1>24 DEF WorkOK
<1>. QED
  BY <1>1, <1>17, <1>19, <1>25, CallbackWriteTraced

-----------------------------------------------------------------------------
(* Slot x registers subscriber b, for which `old' is marked removed. *)
Registers(x, b, old) ==
  /\ UNCHANGED <<outcome, callbacks, callbacksById, messages, received, taking, channel, busy>>
  /\ used \subseteq used' /\ usedGids \subseteq usedGids'
  /\ slots'[x].phase # "ready"
  /\ \A y \in Slot : y # x =>
       /\ slots'[y] = slots[y]
       /\ Live(y) => /\ subscribersByRmw'[RmwOf(y)] = subscribersByRmw[RmwOf(y)]
                     /\ Current(y) # b
  /\ \A r \in RmwHandle :
       /\ subscribersByRmw'[r] \in {b, subscribersByRmw[r]}
       /\ old # Nil => subscribersByRmw'[r] # old
  /\ ~subscribers'[b].removed
  /\ subscribers[b] # Nil => subscribers'[b].rmw = subscribers[b].rmw
  /\ \A q \in Subscriber \ {b, old} : subscribers'[q] = subscribers[q]
  /\ old # Nil =>
       /\ old \in Subscriber /\ subscribers[old] # Nil
       /\ subscribers'[old].gid = subscribers[old].gid
       /\ subscribers'[old].rmw = subscribers[old].rmw
       /\ subscribers'[old].rcl = subscribers[old].rcl
       /\ subscribers'[old].rclcpp = subscribers[old].rclcpp

LEMMA RegistrationTraced ==
  ASSUME Base, TraceInv, NEW x \in Slot, ~In(x, "ready"),
         NEW b \in Subscriber, NEW old, Registers(x, b, old),
         Owned', Apart', HandlesOK(b)', SlotOK(x)'
  PROVE  TraceInv'
<1>1. /\ UNCHANGED <<outcome, callbacks, callbacksById, messages, received, taking, channel, busy>>
      /\ used \subseteq used' /\ usedGids \subseteq usedGids'
      /\ slots'[x].phase # "ready"
  BY DEF Registers
<1>2. ASSUME NEW y \in Slot, y # x
      PROVE  /\ slots'[y] = slots[y]
             /\ Live(y) => /\ subscribersByRmw'[RmwOf(y)] = subscribersByRmw[RmwOf(y)]
                           /\ Current(y) # b
  BY <1>2 DEF Registers
<1>3. /\ \A r \in RmwHandle :
           /\ subscribersByRmw'[r] \in {b, subscribersByRmw[r]}
           /\ old # Nil => subscribersByRmw'[r] # old
      /\ ~subscribers'[b].removed
      /\ \A q \in Subscriber \ {b, old} : subscribers'[q] = subscribers[q]
  BY DEF Registers
<1>4. /\ subscribers[b] # Nil => subscribers'[b].rmw = subscribers[b].rmw
      /\ old # Nil =>
           /\ old \in Subscriber /\ subscribers[old] # Nil
           /\ subscribers'[old].gid = subscribers[old].gid
           /\ subscribers'[old].rmw = subscribers[old].rmw
           /\ subscribers'[old].rcl = subscribers[old].rcl
           /\ subscribers'[old].rclcpp = subscribers[old].rclcpp
  BY DEF Registers
<1>5. ASSUME NEW y \in Slot, y # x, Live(y)
      PROVE  subscribers'[Current(y)] = subscribers[Current(y)]
  <2>1. RmwOf(y) \in RmwHandle /\ Current(y) \in Subscriber /\ Current(y) # b
    BY <1>2, <1>5, LiveSlot, CurrentFields DEF Base
  <2>2. subscribersByRmw'[RmwOf(y)] = Current(y)
    BY <1>2, <1>5 DEF Current
  <2>3. Current(y) # old
    BY <1>3, <2>1, <2>2, NilIsNothing
  <2>. QED
    BY <1>3, <2>1, <2>3
<1>6. Elsewhere(x)
  BY <1>1, <1>2, <1>5 DEF Elsewhere, Takes, Complete
<1>7. WorkOK(x)'
  <2>1. channel[x] = << >> /\ (\A t \in Thread : ~Takes(t, x)) /\ busy[x] = Nil
    BY DEF TraceInv, WorkOK, Base, BusyIsReady
  <2>2. ~In(x, "ready")'
    BY <1>1 DEF In
  <2>. QED
    BY <1>1, <2>1, <2>2 DEF WorkOK, Takes
<1>8. ASSUME NEW p \in Subscriber PROVE HandlesOK(p)'
  <2>1. CASE p = b
    BY <2>1
  <2>2. CASE p = old /\ p # b
    BY <1>1, <1>4, <2>2, NilIsNothing, HandlesKept
  <2>3. CASE p # old /\ p # b
    BY <1>1, <1>3, <2>3 DEF TraceInv, HandlesOK
  <2>. QED
    BY <2>1, <2>2, <2>3
<1>9. ASSUME NEW r \in RmwHandle PROVE ByRmwOK(r)'
  <2>1. CASE subscribersByRmw'[r] = b
    BY <1>3, <2>1 DEF ByRmwOK
  <2>2. CASE subscribersByRmw'[r] # b
    <3>1. subscribersByRmw'[r] = subscribersByRmw[r] /\ (old # Nil => subscribersByRmw[r] # old)
      BY <1>3, <2>2
    <3>2. subscribersByRmw[r] # Nil => subscribersByRmw[r] \in Subscriber
      BY RmwEntry
    <3>. QED
      BY <1>3, <2>2, <3>1, <3>2, RmwKept
  <2>. QED
    BY <2>1, <2>2
<1>10. ASSUME NEW f \in CallbackHandle PROVE AddressOK(f)'
  <2>1. ASSUME NEW p \in Subscriber, subscribers[p] # Nil
        PROVE  subscribers'[p].rmw = subscribers[p].rmw
    <3>1. CASE p = b
      BY <1>4, <2>1, <3>1
    <3>2. CASE p = old
      BY <1>4, <3>2, NilIsNothing
    <3>3. CASE p # b /\ p # old
      BY <1>3, <3>3
    <3>. QED
      BY <3>1, <3>2, <3>3
  <2>2. /\ used \subseteq used' /\ callbacksById'[f] = callbacksById[f]
        /\ callbacks'[callbacksById[f]].caller = callbacks[callbacksById[f]].caller
    BY <1>1
  <2>. QED
    BY <2>1, <2>2, AddressKept
<1>11. ASSUME NEW t \in Thread PROVE TakingOK(t)'
  BY <1>1, TakingKept
<1>12. \A y \in Slot : SlotOK(y)' /\ WorkOK(y)'
  BY <1>6, <1>7, ElsewhereKeeps
<1>. QED
  BY <1>1, <1>8, <1>9, <1>10, <1>11, <1>12 DEF TraceInv

(* What was found under the rcl or rclcpp handle of a slot, when the subscriber of
   the slot does not have that handle yet, is in the rmw registry no more. *)
LEMMA OldIsUnregistered ==
  ASSUME Base, TraceInv, NEW x \in Slot, Live(x),
         NEW old \in Subscriber, subscribers[old] # Nil, old # Current(x),
         subscribers[old].rcl = RclOf(x) \/ subscribers[old].rclcpp = RclcppOf(x),
         NEW r \in RmwHandle
  PROVE  subscribersByRmw[r] # old
<1>1. slots[x].handles \in used
  BY DEF TraceInv, SlotOK
<1>2. RclOf(x) # Unknown /\ RclcppOf(x) # Unknown
  BY LiveSlot, UnknownIsNothing DEF Base
<1>3. PICK u \in used : /\ subscribers[old].rmw = u[1]
                        /\ subscribers[old].rcl \in {u[2], Unknown}
                        /\ subscribers[old].rclcpp \in {u[3], Unknown}
  BY DEF TraceInv, HandlesOK
<1>4. u[2] = slots[x].handles[2] \/ u[3] = slots[x].handles[3]
  BY <1>2, <1>3 DEF RclOf, RclcppOf
<1>5. u = slots[x].handles
  BY <1>1, <1>4, OwnedAt DEF TraceInv
<1>6. subscribers[old].rmw = RmwOf(x)
  BY <1>3, <1>5 DEF RmwOf
<1>. QED
  BY <1>6, RmwEntry, NilIsNothing DEF Current

(* What AfterRmwInit and AfterRemoval do to a gid. *)
LEMMA GidAfterRmwInit ==
  ASSUME NEW o \in SubscriberObject, NEW r \in RmwHandle, NEW g \in Gid
  PROVE  AfterRmwInit(o, r, g).gid = g
  BY DEF AfterRmwInit, SubscriberObject, Maybe

LEMMA GidAfterRemoval ==
  ASSUME NEW o \in SubscriberObject
  PROVE  AfterRemoval(o).gid = o.gid
  BY DEF AfterRemoval, SubscriberObject

(* Without reuse of single addresses, handles stay apart. *)
LEMMA CreateRmwKeepsApart ==
  ASSUME ~AnyReuse, Base, TraceInv,
         NEW x \in Slot, NEW u \in Handles, NEW g \in Gid, CreateRmw(x, u, g)
  PROVE  Owned' /\ Apart'
<1>. DEFINE o == [handles |-> u, phase |-> "rmw"]
<1>1. /\ ~Live(x) /\ MayAllocate(u)
      /\ slots' = [slots EXCEPT ![x] = o] /\ used' = used \cup {u}
  BY DEF CreateRmw
<1>2. o.handles = u /\ o \in SlotObject
  BY DEF SlotObject
<1>. HIDE DEF o
<1>3. slots'[x] = o /\ \A y \in Slot : y # x => slots'[y] = slots[y]
  BY <1>1 DEF Base, AppTypeOK
<1>4. /\ \A v \in used : u = v \/ ~SomeShared(u, v)
      /\ \A y \in Slot : Live(y) => ~SomeShared(u, slots[y].handles)
  BY <1>1 DEF MayAllocate
<1>5. \A v, w : SomeShared(v, w) => SomeShared(w, v)
  BY DEF SomeShared
<1>6. Owned'
  BY <1>1, <1>4, <1>5 DEF TraceInv, Owned
<1>7. ASSUME NEW y \in Slot, NEW z \in Slot, Live(y)', Live(z)', y # z
      PROVE  ~SomeShared(slots'[y].handles, slots'[z].handles)
  <2>1. CASE y = x
    BY <1>2, <1>3, <1>4, <1>7, <2>1 DEF Live
  <2>2. CASE z = x
    BY <1>2, <1>3, <1>4, <1>5, <1>7, <2>2 DEF Live
  <2>3. CASE y # x /\ z # x
    BY <1>3, <1>7, <2>3 DEF TraceInv, Apart, Live
  <2>. QED
    BY <2>1, <2>2, <2>3
<1>. QED
  BY <1>6, <1>7 DEF Apart

LEMMA CreateRmwTraced ==
  ASSUME ~AnyReuse, Base, TraceInv,
         NEW x \in Slot, NEW u \in Handles, NEW g \in Gid, CreateRmw(x, u, g)
  PROVE  TraceInv'
<1>. DEFINE o == [handles |-> u, phase |-> "rmw"]
            r == u[1]
            p == subscribersByRmw[r]
            new == AfterRmwInit(DefaultSubscriber, r, g)
<1>0. PICK b : b = NewSubscriber
  OBVIOUS
<1>1. /\ ~Live(x) /\ MayAllocate(u) /\ g \notin usedGids /\ RmwSubscriptionInit(r, g)
      /\ slots' = [slots EXCEPT ![x] = o] /\ used' = used \cup {u}
      /\ usedGids' = usedGids \cup {g}
      /\ UNCHANGED <<taking, channel, busy>>
  BY DEF CreateRmw
<1>2. r \in RmwHandle /\ o.handles = u /\ o.phase = "rmw" /\ o # Nil
  <2>1. o \in SlotObject
    BY DEF SlotObject
  <2>. QED
    BY <2>1, NilIsNoSlot DEF Handles
(* The subscriber known under the handle has another gid. *)
<1>3. p # Nil => /\ p \in Subscriber /\ subscribers[p] # Nil
                 /\ subscribers[p] \in SubscriberObject
                 /\ subscribers[p].rmw = r /\ ~subscribers[p].removed
  BY <1>2, RmwEntry
<1>4. p # Nil => ~AcceptsRmwInit(subscribers[p], r, g)
  <2>1. p # Nil => subscribers[p].gid \in usedGids
    BY <1>3 DEF TraceInv, HandlesOK
  <2>2. Unknown \notin usedGids
    BY SubscriptionsAssumption DEF Base, AppTypeOK
  <2>. QED
    BY <1>1, <2>1, <2>2 DEF AcceptsRmwInit, IsUnknownOrEq
<1>5. /\ FreeSubscriber
      /\ subscribers' = [IF p = Nil THEN subscribers
                         ELSE [subscribers EXCEPT ![p] = AfterRemoval(@)] EXCEPT ![b] = new]
      /\ subscribersByRmw' = [subscribersByRmw EXCEPT ![r] = b]
      /\ UNCHANGED <<outcome, nodes, nodeSubscribers, subscribersByRcl, subscribersByRclcpp,
                     callbacksById, callbacks, messages, received, published>>
  BY <1>0, <1>1, <1>3, <1>4 DEF RmwSubscriptionInit, AssertsLive, Continue
<1>6. b \in Subscriber /\ subscribers[b] = Nil
  BY <1>0, <1>5, FreshSubscriber
<1>7. /\ new.gid = g /\ new.rmw = r /\ new.rcl = Unknown /\ new.rclcpp = Unknown
      /\ new.callback = Unknown /\ new.taken = << >> /\ new.removed = FALSE
  BY <1>2, DefaultSubscriberFields, AfterRmwInitFields, GidAfterRmwInit
<1>. HIDE DEF o, new
<1>8. slots'[x] = o /\ \A y \in Slot : y # x => slots'[y] = slots[y]
  BY <1>1 DEF Base, AppTypeOK
<1>9. /\ subscribers'[b] = new
      /\ \A q \in Subscriber \ {b, p} : subscribers'[q] = subscribers[q]
      /\ p # Nil => subscribers'[p] = AfterRemoval(subscribers[p])
  BY <1>3, <1>5, <1>6 DEF Base, IInv, TypeOK
<1>10. /\ subscribersByRmw'[r] = b
       /\ \A q \in RmwHandle : q # r => subscribersByRmw'[q] = subscribersByRmw[q]
  BY <1>2, <1>5 DEF Base, IInv, TypeOK
<1>11. ASSUME NEW y \in Slot, y # x, Live(y)
       PROVE  /\ subscribersByRmw'[RmwOf(y)] = subscribersByRmw[RmwOf(y)]
              /\ Current(y) # b
  <2>1. RmwOf(y) \in RmwHandle /\ Current(y) \in Subscriber /\ subscribers[Current(y)] # Nil
    BY <1>11, LiveSlot, CurrentFields DEF Base
  <2>2. RmwOf(y) # r
    BY <1>1, <1>11 DEF MayAllocate, SomeShared, RmwOf
  <2>. QED
    BY <1>6, <1>10, <2>1, <2>2
<1>12. \A q \in RmwHandle : p # Nil => subscribersByRmw'[q] # p
  <2>1. ASSUME NEW q \in RmwHandle, p # Nil, subscribersByRmw'[q] = p PROVE FALSE
    <3>1. q # r
      BY <1>3, <1>6, <1>10, <2>1
    <3>2. subscribersByRmw[q] = p
      BY <1>10, <2>1, <3>1
    <3>3. subscribers[p].rmw = q
      BY <2>1, <3>2, RmwEntry
    <3>. QED
      BY <1>3, <2>1, <3>1, <3>3
  <2>. QED
    BY <2>1
<1>13. p # Nil =>
         /\ subscribers'[p].gid = subscribers[p].gid /\ subscribers'[p].rmw = subscribers[p].rmw
         /\ subscribers'[p].rcl = subscribers[p].rcl
         /\ subscribers'[p].rclcpp = subscribers[p].rclcpp
  BY <1>3, <1>9, AfterRemovalFields, GidAfterRemoval
<1>14. /\ UNCHANGED <<outcome, callbacks, callbacksById, messages, received, taking, channel, busy>>
       /\ used \subseteq used' /\ usedGids \subseteq usedGids'
  BY <1>1, <1>5
<1>15. \A y \in Slot : y # x =>
         /\ slots'[y] = slots[y]
         /\ Live(y) => /\ subscribersByRmw'[RmwOf(y)] = subscribersByRmw[RmwOf(y)]
                       /\ Current(y) # b
  BY <1>8, <1>11
<1>16. \A q \in RmwHandle :
         /\ subscribersByRmw'[q] \in {b, subscribersByRmw[q]}
         /\ p # Nil => subscribersByRmw'[q] # p
  BY <1>10, <1>12
<1>17. Registers(x, b, p)
  BY <1>2, <1>3, <1>6, <1>7, <1>8, <1>9, <1>13, <1>14, <1>15, <1>16 DEF Registers
<1>18. HandlesOK(b)'
  BY <1>1, <1>7, <1>9 DEF HandlesOK
<1>19. RmwOf(x)' = r /\ Current(x)' = b
  BY <1>2, <1>8, <1>10 DEF RmwOf, Current
<1>20. SlotOK(x)'
  BY <1>1, <1>2, <1>6, <1>7, <1>8, <1>9, <1>19, NilIsNothing DEF SlotOK
<1>21. ~In(x, "ready")
  BY <1>1 DEF In
<1>. QED
  BY <1>6, <1>17, <1>18, <1>20, <1>21, CreateRmwKeepsApart, RegistrationTraced

LEMMA GidAfterRclInit ==
  ASSUME NEW o \in SubscriberObject,
         NEW h \in RclHandle, NEW t \in Topic, NEW n \in NodeHandle
  PROVE  AfterRclInit(o, h, t, n).gid = o.gid
  BY DEF AfterRclInit, SubscriberObject, Maybe

LEMMA GidAfterRclcppInit ==
  ASSUME NEW o \in SubscriberObject, NEW c \in RclcppHandle
  PROVE  AfterRclcppInit(o, c).gid = o.gid
  BY DEF AfterRclcppInit, SubscriberObject, Maybe

(* Slot x gives its subscriber b another handle, under which `old' was found. *)
NextHandle(x, phase, b, old, new) ==
  /\ Live(x) /\ slots[x].phase \in {"rmw", "rcl"} /\ Advance(x, phase)
  /\ phase \in {"rcl", "rclcpp"}
  /\ b = Current(x)
  /\ old # Nil =>
       /\ old \in Subscriber /\ subscribers[old] # Nil /\ old # b
       /\ subscribers[old].rcl = RclOf(x) \/ subscribers[old].rclcpp = RclcppOf(x)
  /\ new \in SubscriberObject /\ new.gid = subscribers[b].gid
  /\ new.rmw = RmwOf(x) /\ new.rcl = RclOf(x)
  /\ new.rclcpp = IF phase = "rcl" THEN Unknown ELSE RclcppOf(x)
  /\ new.callback = Unknown /\ new.taken = << >> /\ ~new.removed
  /\ subscribers' = IF old = Nil THEN [subscribers EXCEPT ![b] = new]
                    ELSE [[subscribers EXCEPT ![b] = new] EXCEPT ![old] = AfterRemoval(@)]
  /\ UNCHANGED <<outcome, subscribersByRmw, callbacks, callbacksById, messages, received>>

LEMMA NextHandleTraced ==
  ASSUME Base, TraceInv, NEW x \in Slot, NEW phase, NEW b, NEW old, NEW new,
         NextHandle(x, phase, b, old, new)
  PROVE  TraceInv'
<1>1. /\ Live(x) /\ slots[x].phase \in {"rmw", "rcl"} /\ Advance(x, phase)
      /\ phase \in {"rcl", "rclcpp"}
      /\ b = Current(x)
      /\ old # Nil =>
           /\ old \in Subscriber /\ subscribers[old] # Nil /\ old # b
           /\ subscribers[old].rcl = RclOf(x) \/ subscribers[old].rclcpp = RclcppOf(x)
      /\ UNCHANGED <<outcome, subscribersByRmw, callbacks, callbacksById, messages, received>>
  BY DEF NextHandle
<1>2. /\ new \in SubscriberObject /\ new.gid = subscribers[b].gid
      /\ new.rmw = RmwOf(x) /\ new.rcl = RclOf(x)
      /\ new.rclcpp = IF phase = "rcl" THEN Unknown ELSE RclcppOf(x)
      /\ new.callback = Unknown /\ new.taken = << >> /\ ~new.removed
      /\ subscribers' = IF old = Nil THEN [subscribers EXCEPT ![b] = new]
                        ELSE [[subscribers EXCEPT ![b] = new] EXCEPT ![old] = AfterRemoval(@)]
  BY DEF NextHandle
<1>3. /\ slots'[x] # Nil /\ slots'[x].phase = phase /\ slots'[x].handles = slots[x].handles
      /\ \A y \in Slot : y # x => slots'[y] = slots[y]
      /\ UNCHANGED <<used, usedGids, taking, channel, busy>>
  BY <1>1, Advanced DEF Base, Advance
<1>4. b \in Subscriber /\ subscribers[b] # Nil /\ subscribers[b].rmw = RmwOf(x)
  BY <1>1, CurrentFields
<1>5. /\ subscribers'[b] = new
      /\ \A q \in Subscriber \ {b, old} : subscribers'[q] = subscribers[q]
      /\ old # Nil => subscribers'[old] = AfterRemoval(subscribers[old])
  <2>1. subscribers \in [Subscriber -> SubscriberObject \cup {Nil}]
    BY DEF Base, IInv, TypeOK
  <2>2. CASE old = Nil
    <3>1. subscribers' = [subscribers EXCEPT ![b] = new]
      BY <1>2, <2>2
    <3>. QED
      BY <1>4, <2>1, <2>2, <3>1
  <2>3. CASE old # Nil
    <3>1. subscribers' = [[subscribers EXCEPT ![b] = new] EXCEPT ![old] = AfterRemoval(@)]
      BY <1>2, <2>3
    <3>. QED
      BY <1>1, <1>4, <2>1, <2>3, <3>1
  <2>. QED
    BY <2>2, <2>3
<1>6. ASSUME old # Nil
      PROVE  /\ subscribers'[old].gid = subscribers[old].gid
             /\ subscribers'[old].rmw = subscribers[old].rmw
             /\ subscribers'[old].rcl = subscribers[old].rcl
             /\ subscribers'[old].rclcpp = subscribers[old].rclcpp
  <2>1. old \in Subscriber /\ subscribers[old] # Nil
    BY <1>1, <1>6
  <2>2. subscribers[old] \in SubscriberObject
    BY <2>1 DEF Base, IInv, TypeOK
  <2>. QED
    BY <1>5, <1>6, <2>2, AfterRemovalFields, GidAfterRemoval
<1>7. ASSUME NEW r \in RmwHandle, old # Nil PROVE subscribersByRmw'[r] # old
  <2>1. subscribersByRmw[r] # old
    BY <1>1, <1>7, OldIsUnregistered
  <2>. QED
    BY <1>1, <2>1
<1>8. \A y \in Slot : y # x =>
        /\ slots'[y] = slots[y]
        /\ Live(y) => /\ subscribersByRmw'[RmwOf(y)] = subscribersByRmw[RmwOf(y)]
                      /\ Current(y) # b
  BY <1>1, <1>3, SlotsDiffer
<1>9. Registers(x, b, old)
  BY <1>1, <1>2, <1>3, <1>4, <1>5, <1>6, <1>7, <1>8 DEF Registers
<1>10. slots[x].handles \in used
  BY <1>1 DEF TraceInv, SlotOK
<1>11. HandlesOK(b)'
  <2>1. subscribers[b].gid \in usedGids
    BY <1>4 DEF TraceInv, HandlesOK
  <2>2. /\ new.rmw = slots[x].handles[1]
        /\ new.rcl \in {slots[x].handles[2], Unknown}
        /\ new.rclcpp \in {slots[x].handles[3], Unknown}
    BY <1>2 DEF RmwOf, RclOf, RclcppOf
  <2>3. slots[x].handles \in used' /\ new.gid \in usedGids'
    BY <1>2, <1>3, <1>10, <2>1
  <2>. QED
    BY <1>5, <2>2, <2>3 DEF HandlesOK
<1>12. /\ RmwOf(x)' = RmwOf(x) /\ RclOf(x)' = RclOf(x) /\ RclcppOf(x)' = RclcppOf(x)
       /\ Current(x)' = b
  BY <1>1, <1>3 DEF RmwOf, RclOf, RclcppOf, Current
<1>13. b # Nil
  BY <1>4, NilIsNothing
<1>14. SlotOK(x)'
  BY <1>1, <1>2, <1>3, <1>5, <1>10, <1>12, <1>13 DEF SlotOK
<1>15. Owned' /\ Apart'
  BY <1>1, <1>3, SlotsStay DEF Live
<1>16. ~In(x, "ready")
  BY <1>1 DEF In
<1>. QED
  BY <1>4, <1>9, <1>11, <1>14, <1>15, <1>16, RegistrationTraced

LEMMA CreateRclTraced ==
  ASSUME Base, TraceInv, NEW x \in Slot, NEW t \in Topic, NEW n \in NodeHandle,
         CreateRcl(x, t, n)
  PROVE  TraceInv'
<1>0. PICK b, h, old : b = Current(x) /\ h = RclOf(x) /\ old = subscribersByRcl[h]
  OBVIOUS
<1>. DEFINE new == AfterRclInit(subscribers[b], h, t, n)
<1>1. /\ Live(x) /\ slots[x].phase = "rmw" /\ n \in nodes
      /\ RclSubscriptionInit(RmwOf(x), h, t, n) /\ Advance(x, "rcl")
  BY <1>0 DEF CreateRcl, In
<1>2. /\ h \in RclHandle /\ h # Unknown
      /\ b \in Subscriber /\ subscribers[b] \in SubscriberObject
      /\ subscribers[b].rmw = RmwOf(x) /\ ~subscribers[b].removed
  BY <1>0, <1>1, LiveSlot, CurrentFields, UnknownIsNothing DEF Base
<1>3. /\ subscribers[b].rcl = Unknown /\ subscribers[b].rclcpp = Unknown
      /\ subscribers[b].callback = Unknown /\ subscribers[b].taken = << >>
  BY <1>0, <1>1 DEF TraceInv, SlotOK
<1>4. b # Nil /\ b = subscribersByRmw[RmwOf(x)]
  BY <1>0, <1>2, NilIsNothing DEF Current
<1>5. /\ RegisterByRcl([subscribers EXCEPT ![b] = AfterRclInit(@, h, t, n)], b, h, n)
      /\ UNCHANGED subscribersByRmw
  BY <1>1, <1>2, <1>3, <1>4 DEF RclSubscriptionInit, AssertsLive, AcceptsRclInit, IsUnknown
<1>6. /\ subscribers' = IF old = Nil THEN [subscribers EXCEPT ![b] = new]
                        ELSE [[subscribers EXCEPT ![b] = new] EXCEPT ![old] = AfterRemoval(@)]
      /\ UNCHANGED <<outcome, callbacks, callbacksById, messages, received>>
  BY <1>0, <1>5 DEF RegisterByRcl, Continue
<1>7. /\ new \in SubscriberObject /\ new.gid = subscribers[b].gid /\ new.rmw = RmwOf(x)
      /\ new.rcl = h /\ new.rclcpp = Unknown /\ new.callback = Unknown /\ new.taken = << >>
      /\ ~new.removed
  BY <1>2, <1>3, AfterRclInitFields, GidAfterRclInit
<1>8. old # Nil => /\ old \in Subscriber /\ subscribers[old] # Nil /\ old # b
                   /\ subscribers[old].rcl = RclOf(x)
  BY <1>0, <1>2, <1>3, FoundByRcl DEF Base
<1>. HIDE DEF new
<1>9. NextHandle(x, "rcl", b, old, new)
  BY <1>0, <1>1, <1>5, <1>6, <1>7, <1>8 DEF NextHandle
<1>. QED
  BY <1>9, NextHandleTraced

LEMMA CreateRclcppTraced ==
  ASSUME Base, TraceInv, NEW x \in Slot, CreateRclcpp(x)
  PROVE  TraceInv'
<1>0. PICK b, c, old : b = Current(x) /\ c = RclcppOf(x) /\ old = subscribersByRclcpp[c]
  OBVIOUS
<1>. DEFINE new == AfterRclcppInit(subscribers[b], c)
<1>1. /\ Live(x) /\ slots[x].phase = "rcl"
      /\ RclcppSubscriptionInit(c, RclOf(x)) /\ Advance(x, "rclcpp")
  BY <1>0 DEF CreateRclcpp, In
<1>2. /\ RclOf(x) \in RclHandle /\ RclOf(x) # Unknown /\ c \in RclcppHandle /\ c # Unknown
      /\ b \in Subscriber /\ subscribers[b] # Nil /\ subscribers[b] \in SubscriberObject
      /\ subscribers[b].rmw = RmwOf(x) /\ ~subscribers[b].removed
  BY <1>0, <1>1, LiveSlot, CurrentFields, UnknownIsNothing DEF Base
<1>3. /\ subscribers[b].rcl = RclOf(x) /\ subscribers[b].rclcpp = Unknown
      /\ subscribers[b].callback = Unknown /\ subscribers[b].taken = << >>
  BY <1>0, <1>1 DEF TraceInv, SlotOK
<1>4. b # Nil /\ b = subscribersByRcl[RclOf(x)]
  BY <1>2, <1>3, NilIsNothing DEF Base, IInv, LiveIsFound, IsKnown
<1>5. /\ subscribers' = IF old = Nil THEN [subscribers EXCEPT ![b] = new]
                        ELSE [[subscribers EXCEPT ![b] = new] EXCEPT ![old] = AfterRemoval(@)]
      /\ UNCHANGED <<outcome, subscribersByRmw, callbacks, callbacksById, messages, received>>
  BY <1>0, <1>1, <1>2, <1>3, <1>4
     DEF RclcppSubscriptionInit, AssertsLive, AcceptsRclcppInit, IsUnknown, Continue
<1>6. /\ new \in SubscriberObject /\ new.gid = subscribers[b].gid /\ new.rmw = RmwOf(x)
      /\ new.rcl = RclOf(x) /\ new.rclcpp = c /\ new.callback = Unknown /\ new.taken = << >>
      /\ ~new.removed
  BY <1>2, <1>3, AfterRclcppInitFields, GidAfterRclcppInit
<1>7. old # Nil => /\ old \in Subscriber /\ subscribers[old] # Nil /\ old # b
                   /\ subscribers[old].rclcpp = RclcppOf(x)
  BY <1>0, <1>2, <1>3, FoundByRclcpp DEF Base
<1>. HIDE DEF new
<1>8. NextHandle(x, "rclcpp", b, old, new)
  BY <1>0, <1>1, <1>5, <1>6, <1>7 DEF NextHandle
<1>. QED
  BY <1>8, NextHandleTraced

LEMMA GidAfterSetCallback ==
  ASSUME NEW o \in SubscriberObject, NEW k \in Callback
  PROVE  AfterSetCallback(o, k).gid = o.gid
  BY DEF AfterSetCallback, SubscriberObject, Maybe

(* The callback address of a slot that has no callback yet is free: were the caller
   of the callback known there not removed, it would be that of the slot. *)
LEMMA AddressIsFree ==
  ASSUME Base, TraceInv, NEW x \in Slot, Live(x), subscribers[Current(x)].callback = Unknown
  PROVE  ~TakenAddress(CallbackOf(x))
<1>. DEFINE f == CallbackOf(x)
            k == callbacksById[f]
            q == callbacks[k].caller
<1>1. SUFFICES ASSUME k # Nil, ~subscribers[q].removed PROVE FALSE
  BY DEF TakenAddress
<1>2. f \in CallbackHandle /\ RmwOf(x) # Unknown /\ slots[x].handles \in used
  BY LiveSlot, UnknownIsNothing DEF Base, TraceInv, SlotOK
<1>3. k \in Callback /\ callbacks[k] # Nil
  BY <1>1, <1>2 DEF Base, IInv, TypeOK, TrafficRefs
<1>4. q \in Subscriber
  BY <1>3 DEF Base, IInv, TypeOK, CallbackObject
<1>5. subscribers[q] # Nil /\ subscribers[q].callback = k
  BY <1>3 DEF Base, IInv, CallerIsAlive
<1>6. PICK u \in used : u[4] = f /\ subscribers[q].rmw = u[1]
  BY <1>1, <1>2 DEF TraceInv, AddressOK
<1>7. u = slots[x].handles
  BY <1>2, <1>6, OwnedAt DEF TraceInv, CallbackOf
<1>8. subscribersByRmw[RmwOf(x)] = q
  BY <1>1, <1>2, <1>4, <1>5, <1>6, <1>7 DEF Base, IInv, LiveIsFound, IsKnown, RmwOf
<1>. QED
  BY <1>3, <1>5, <1>8, UnknownIsNothing DEF Current

LEMMA AddCallbackTraced ==
  ASSUME Base, TraceInv, NEW x \in Slot, AddCallback(x)
  PROVE  TraceInv'
<1>1. PICK p, c, f, k : p = Current(x) /\ c = RclcppOf(x) /\ f = CallbackOf(x) /\ k = NewCallback
  OBVIOUS
<1>2. /\ Live(x) /\ slots[x].phase = "rclcpp" /\ CallbackAdded(f, c) /\ Advance(x, "callback")
  BY <1>1 DEF AddCallback, In
<1>3. /\ RmwOf(x) \in RmwHandle /\ c \in RclcppHandle /\ c # Unknown /\ f \in CallbackHandle
      /\ p \in Subscriber /\ subscribers[p] # Nil /\ subscribers[p] \in SubscriberObject
      /\ subscribers[p].rmw = RmwOf(x) /\ ~subscribers[p].removed
  BY <1>1, <1>2, LiveSlot, CurrentFields, UnknownIsNothing DEF Base
<1>4. /\ subscribers[p].rcl = RclOf(x) /\ subscribers[p].rclcpp = c
      /\ subscribers[p].callback = Unknown /\ subscribers[p].taken = << >>
      /\ slots[x].handles \in used
  BY <1>1, <1>2 DEF TraceInv, SlotOK
<1>5. p # Nil /\ p = subscribersByRclcpp[c]
  BY <1>3, <1>4, NilIsNothing DEF Base, IInv, LiveIsFound, IsKnown
<1>6. ~TakenAddress(f)
  BY <1>1, <1>2, <1>4, AddressIsFree
<1>. DEFINE o == [caller |-> p, named |-> FALSE, running |-> Nil]
            new == AfterSetCallback(subscribers[p], k)
<1>7. /\ FreeCallback
      /\ callbacks' = [callbacks EXCEPT ![k] = o]
      /\ callbacksById' = [callbacksById EXCEPT ![f] = k]
      /\ subscribers' = [subscribers EXCEPT ![p] = new]
      /\ UNCHANGED <<outcome, subscribersByRmw, messages, received>>
  BY <1>1, <1>2, <1>3, <1>4, <1>5, <1>6
     DEF CallbackAdded, AssertsLive, AcceptsCallback, IsUnknown, Continue
<1>8. k \in Callback /\ callbacks[k] = Nil
  BY <1>1, <1>7, FreshCallback
<1>9. /\ new.gid = subscribers[p].gid /\ new.rmw = RmwOf(x) /\ new.rcl = RclOf(x)
      /\ new.rclcpp = c /\ new.callback = k /\ new.taken = << >>
      /\ new.removed = subscribers[p].removed
  BY <1>3, <1>4, <1>8, AfterSetCallbackFields, GidAfterSetCallback
<1>10. o.caller = p /\ o.named = FALSE /\ o.running = Nil
  OBVIOUS
<1>. HIDE DEF o, new
<1>11. /\ callbacks'[k] = o /\ \A j \in Callback : j # k => callbacks'[j] = callbacks[j]
       /\ callbacksById'[f] = k
       /\ \A j \in CallbackHandle : j # f => callbacksById'[j] = callbacksById[j]
       /\ subscribers'[p] = new /\ \A j \in Subscriber : j # p => subscribers'[j] = subscribers[j]
  BY <1>3, <1>7, <1>8 DEF Base, IInv, TypeOK
<1>12. /\ slots'[x] # Nil /\ slots'[x].phase = "callback" /\ slots'[x].handles = slots[x].handles
       /\ \A y \in Slot : y # x => slots'[y] = slots[y]
       /\ UNCHANGED <<used, usedGids, taking, channel, busy>>
  BY <1>2, Advanced DEF Base, Advance
<1>13. ASSUME NEW y \in Slot, y # x, Live(y)
       PROVE  /\ subscribersByRmw'[RmwOf(y)] = subscribersByRmw[RmwOf(y)]
              /\ callbacksById'[CallbackOf(y)] = callbacksById[CallbackOf(y)]
              /\ subscribers'[Current(y)] = subscribers[Current(y)]
              /\ slots[y].phase \in {"callback", "ready"} =>
                   callbacks'[CallbackAt(y)] = callbacks[CallbackAt(y)]
  <2>1. CallbackOf(y) \in CallbackHandle /\ CallbackOf(y) # f /\ Current(y) # p
    BY <1>1, <1>2, <1>13, LiveSlot, SlotsDiffer DEF Base
  <2>2. Current(y) \in Subscriber
    BY <1>13, CurrentFields
  <2>3. slots[y].phase \in {"callback", "ready"} =>
          CallbackAt(y) \in Callback /\ callbacks[CallbackAt(y)] # Nil
    BY <1>13, CallbackFields
  <2>. QED
    BY <1>7, <1>8, <1>11, <2>1, <2>2, <2>3
<1>14. Elsewhere(x)
  BY <1>7, <1>12, <1>13 DEF Elsewhere, Takes, Complete
<1>15. /\ RmwOf(x)' = RmwOf(x) /\ RclOf(x)' = RclOf(x) /\ RclcppOf(x)' = c
       /\ Current(x)' = p /\ CallbackOf(x)' = f /\ CallbackAt(x)' = k
  BY <1>1, <1>7, <1>11, <1>12 DEF RmwOf, RclOf, RclcppOf, CallbackOf, Current, CallbackAt
<1>16. /\ channel[x] = << >> /\ (\A t \in Thread : ~Takes(t, x)) /\ busy[x] = Nil
  BY <1>2 DEF TraceInv, WorkOK, In, Base, BusyIsReady
<1>17. SlotOK(x)'
  BY <1>4, <1>5, <1>8, <1>9, <1>10, <1>11, <1>12, <1>15, <1>16, NilIsNothing DEF SlotOK
<1>18. WorkOK(x)'
  <2>1. ~In(x, "ready")'
    BY <1>12 DEF In
  <2>. QED
    BY <1>12, <1>16, <2>1 DEF WorkOK, Takes
<1>19. Owned' /\ Apart'
  BY <1>2, <1>12, SlotsStay DEF Live
<1>20. ASSUME NEW q \in Subscriber PROVE HandlesOK(q)'
  <2>1. CASE q = p
    BY <1>3, <1>4, <1>9, <1>11, <1>12, <2>1, HandlesKept
  <2>2. CASE q # p
    BY <1>11, <1>12, <2>2 DEF TraceInv, HandlesOK
  <2>. QED
    BY <2>1, <2>2
<1>21. ASSUME NEW r \in RmwHandle PROVE ByRmwOK(r)'
  <2>1. subscribersByRmw[r] # Nil => subscribersByRmw[r] \in Subscriber
    BY RmwEntry
  <2>. QED
    BY <1>3, <1>7, <1>9, <1>11, <2>1, RmwKept
<1>22. ASSUME NEW e \in CallbackHandle PROVE AddressOK(e)'
  <2>1. \A q \in Subscriber : subscribers[q] # Nil => subscribers'[q].rmw = subscribers[q].rmw
    BY <1>3, <1>9, <1>11
  <2>2. CASE e = f
    <3>1. slots[x].handles[4] = e /\ slots[x].handles[1] = RmwOf(x)
      BY <1>1, <2>2 DEF CallbackOf, RmwOf
    <3>2. callbacksById'[e] = k /\ callbacks'[k].caller = p /\ subscribers'[p].rmw = RmwOf(x)
      BY <1>9, <1>10, <1>11, <2>2
    <3>3. slots[x].handles \in used'
      BY <1>4, <1>12
    <3>. QED
      BY <3>1, <3>2, <3>3 DEF AddressOK
  <2>3. CASE e # f
    <3>1. callbacksById'[e] = callbacksById[e] /\ used \subseteq used'
      BY <1>11, <1>12, <2>3
    <3>2. callbacksById[e] # Nil =>
            callbacksById[e] \in Callback /\ callbacks[callbacksById[e]] # Nil
      BY DEF Base, IInv, TypeOK, TrafficRefs
    <3>3. callbacksById[e] # Nil =>
            callbacks'[callbacksById[e]].caller = callbacks[callbacksById[e]].caller
      BY <1>8, <1>11, <3>2
    <3>. QED
      BY <2>1, <3>1, <3>3, AddressKept
  <2>. QED
    BY <2>2, <2>3
<1>23. ASSUME NEW t \in Thread PROVE TakingOK(t)'
  BY <1>7, <1>12, TakingKept
<1>24. outcome' = "running"
  BY <1>7 DEF TraceInv
<1>. QED
  BY <1>14, <1>17, <1>18, <1>19, <1>20, <1>21, <1>22, <1>23, <1>24, ElsewhereKeeps DEF TraceInv

-----------------------------------------------------------------------------
(* The step leaves slots and objects alone but for messages. *)
LEMMA SlotsKept ==
  ASSUME TraceInv,
         UNCHANGED <<outcome, subscribers, subscribersByRmw, callbacks, callbacksById,
                     slots, used, usedGids, busy>>
  PROVE  /\ Owned' /\ Apart'
         /\ \A p \in Subscriber : HandlesOK(p)'
         /\ \A r \in RmwHandle : ByRmwOK(r)'
         /\ \A f \in CallbackHandle : AddressOK(f)'
         /\ \A x \in Slot : SlotOK(x)'
<1>1. Owned' /\ Apart'
  BY SlotsStay DEF Live
<1>2. \A p \in Subscriber : HandlesOK(p)'
  BY DEF TraceInv, HandlesOK
<1>3. \A r \in RmwHandle : ByRmwOK(r)'
  BY DEF TraceInv, ByRmwOK
<1>4. \A f \in CallbackHandle : AddressOK(f)'
  BY DEF TraceInv, AddressOK
<1>5. \A x \in Slot : SlotOK(x)'
  BY DEF TraceInv, SlotOK, Live, RmwOf, RclOf, RclcppOf, CallbackOf, Current, CallbackAt
<1>. QED
  BY <1>1, <1>2, <1>3, <1>4, <1>5

(* An outer layer receives the message its thread is taking. *)
LEMMA OuterTakeFinds ==
  ASSUME Base, TraceInv, NEW t \in Thread, taking[t] # Nil,
         NEW layer \in Layer, OuterTake(AddressOf[t], layer),
         layer \notin messages[taking[t].message].layers
  PROVE  /\ taking[t].message \in Message /\ messages[taking[t].message] \in MessageObject
         /\ messages'[taking[t].message] # Nil
         /\ messages'[taking[t].message].layers = messages[taking[t].message].layers \cup {layer}
         /\ \A m \in Message : m # taking[t].message => messages'[m] = messages[m]
         /\ UNCHANGED <<outcome, subscribers, subscribersByRmw, callbacks, callbacksById, received>>
<1>. DEFINE m == taking[t].message
            o == AfterReceive(messages[m], layer)
<1>1. m \in Message /\ m # Nil
  BY TakingThread, NilIsNothing DEF Base
<1>2. received[AddressOf[t]] = m /\ messages[m] # Nil
  BY DEF TraceInv, TakingOK
<1>3. messages[m] \in MessageObject
  BY <1>1, <1>2 DEF Base, IInv, TypeOK
<1>4. /\ messages' = [messages EXCEPT ![m] = o]
      /\ UNCHANGED <<outcome, subscribers, subscribersByRmw, callbacks, callbacksById, received>>
  BY <1>1, <1>2 DEF OuterTake, Continue, registry
<1>5. o \in MessageObject /\ o.layers = messages[m].layers \cup {layer}
  BY <1>3 DEF AfterReceive, MessageObject
<1>6. o # Nil
  BY <1>5, NilIsNothing
<1>. HIDE DEF o
<1>7. messages'[m] = o /\ \A k \in Message : k # m => messages'[k] = messages[k]
  BY <1>1, <1>4 DEF Base, IInv, TypeOK
<1>. QED
  BY <1>1, <1>3, <1>4, <1>5, <1>6, <1>7

LEMMA TakeRclTraced ==
  ASSUME Base, TraceInv, NEW t \in Thread, TakeRcl(t)
  PROVE  TraceInv'
<1>0. PICK m : m = taking[t].message
  OBVIOUS
<1>. DEFINE o == [taking[t] EXCEPT !.layer = "rcl"]
<1>1. /\ taking[t] # Nil /\ taking[t].layer = "rmw" /\ OuterTake(AddressOf[t], "rcl")
      /\ taking' = [taking EXCEPT ![t] = o]
      /\ UNCHANGED <<slots, used, usedGids, channel, busy>>
  BY DEF TakeRcl, RclTake
<1>2. messages[m].layers = {"rmw"} /\ TakingOK(t)
  BY <1>0, <1>1 DEF TraceInv, TakingOK
<1>3. /\ o.slot = taking[t].slot /\ o.message = m /\ o.layer = "rcl" /\ o # Nil
  <2>1. taking[t] \in TakingObject
    BY <1>1, TakingThread DEF Base
  <2>2. o \in TakingObject /\ o.slot = taking[t].slot /\ o.message = m /\ o.layer = "rcl"
    BY <1>0, <2>1 DEF TakingObject
  <2>. QED
    BY <2>2, NilIsNoSlot
<1>. HIDE DEF o
<1>4. taking'[t] = o /\ \A u \in Thread : u # t => taking'[u] = taking[u]
  BY <1>1 DEF Base, AppTypeOK
<1>5. /\ m \in Message /\ messages'[m] # Nil /\ messages'[m].layers = {"rmw", "rcl"}
      /\ \A k \in Message : k # m => messages'[k] = messages[k]
      /\ UNCHANGED <<outcome, subscribers, subscribersByRmw, callbacks, callbacksById, received>>
  BY <1>0, <1>1, <1>2, OuterTakeFinds DEF Layer
<1>6. ASSUME NEW k \in Message, Complete(k) PROVE Complete(k)'
  <2>1. k # m
    BY <1>2, <1>6 DEF Complete, Layer
  <2>. QED
    BY <1>5, <1>6, <2>1 DEF Complete
<1>7. \A u \in Thread, x \in Slot : /\ Takes(u, x)' <=> Takes(u, x)
                                    /\ Takes(u, x) => taking'[u].message = taking[u].message
  BY <1>0, <1>1, <1>3, <1>4 DEF Takes
<1>8. ASSUME NEW x \in Slot PROVE WorkOK(x)'
  <2>1. WorkOK(x) /\ channel[x] \in Seq(Message) /\ busy[x] \in Message \cup {Nil}
    BY DEF TraceInv, Base, AppTypeOK
  <2>2. /\ In(x, "ready")' <=> In(x, "ready")
        /\ Current(x)' = Current(x) /\ subscribers' = subscribers
        /\ channel' = channel /\ busy' = busy
    BY <1>1, <1>5 DEF In, Live, Current, RmwOf
  <2>3. /\ \A i \in 1..Len(channel[x]) : Complete(channel[x][i])'
        /\ busy[x] # Nil => Complete(busy[x])'
    BY <1>1, <1>6, <2>1 DEF WorkOK
  <2>4. In(x, "ready") =>
          /\ \A u \in Thread :
               Takes(u, x) => subscribers[Current(x)].taken = Append(channel[x], taking[u].message)
          /\ (\A u \in Thread : ~Takes(u, x)) => subscribers[Current(x)].taken = channel[x]
    BY <2>1 DEF WorkOK
  <2>5. In(x, "ready")' =>
          /\ \A u \in Thread :
               Takes(u, x)' => subscribers'[Current(x)'].taken = Append(channel'[x], taking'[u].message)
          /\ (\A u \in Thread : ~Takes(u, x)') => subscribers'[Current(x)'].taken = channel'[x]
    BY <1>7, <2>2, <2>4
  <2>6. ~In(x, "ready")' => channel'[x] = << >> /\ \A u \in Thread : ~Takes(u, x)'
    BY <1>7, <2>1, <2>2 DEF WorkOK
  <2>7. /\ \A i \in 1..Len(channel'[x]) : Complete(channel[x][i])'
        /\ busy'[x] # Nil => Complete(busy[x])'
    BY <2>2, <2>3
  <2>. QED
    BY <2>5, <2>6, <2>7 DEF WorkOK
<1>9. ASSUME NEW u \in Thread PROVE TakingOK(u)'
  <2>1. CASE u = t
    <3>1. received'[AddressOf[t]] = m
      BY <1>0, <1>1, <1>2, <1>5 DEF TakingOK
    <3>2. ASSUME NEW v \in Thread
          PROVE  /\ Takes(v, taking[t].slot)' => v = t
                 /\ taking'[v] # Nil /\ taking'[v].message = m => v = t
      BY <1>0, <1>1, <1>2, <1>3, <1>4 DEF TakingOK, Takes
    <3>. QED
      BY <1>3, <1>4, <1>5, <2>1, <3>1, <3>2 DEF TakingOK, Takes
  <2>2. CASE u # t
    <3>1. TakingOK(u) /\ taking'[u] = taking[u]
      BY <1>4, <2>2 DEF TraceInv
    <3>2. taking[u] # Nil => taking[u].message # m /\ taking[u].message \in Message
      BY <1>0, <1>1, <1>2, <2>2, TakingThread DEF TakingOK, Base
    <3>3. taking[u] # Nil =>
            \A v \in Thread : /\ Takes(v, taking[u].slot)' => v = u
                              /\ taking'[v] # Nil /\ taking'[v].message = taking[u].message => v = u
      BY <1>0, <1>1, <1>3, <1>4, <3>1 DEF TakingOK, Takes
    <3>. QED
      BY <1>5, <3>1, <3>2, <3>3 DEF TakingOK, Takes
  <2>. QED
    BY <2>1, <2>2
<1>10. /\ Owned' /\ Apart'
       /\ \A p \in Subscriber : HandlesOK(p)'
       /\ \A r \in RmwHandle : ByRmwOK(r)'
       /\ \A f \in CallbackHandle : AddressOK(f)'
       /\ \A x \in Slot : SlotOK(x)'
  BY <1>1, <1>5, SlotsKept
<1>11. outcome' = "running"
  BY <1>5 DEF TraceInv
<1>. QED
  BY <1>8, <1>9, <1>10, <1>11 DEF TraceInv

LEMMA TakeRclcppTraced ==
  ASSUME Base, TraceInv, NEW t \in Thread, TakeRclcpp(t)
  PROVE  TraceInv'
<1>0. PICK m, z : m = taking[t].message /\ z = taking[t].slot
  OBVIOUS
<1>1. /\ taking[t] # Nil /\ taking[t].layer = "rcl" /\ OuterTake(AddressOf[t], "rclcpp")
      /\ taking' = [taking EXCEPT ![t] = Nil]
      /\ channel' = [channel EXCEPT ![z] = Append(@, m)]
      /\ UNCHANGED <<slots, used, usedGids, busy>>
  BY <1>0 DEF TakeRclcpp, RclcppTake
<1>2. messages[m].layers = {"rmw", "rcl"} /\ TakingOK(t)
  BY <1>0, <1>1 DEF TraceInv, TakingOK
<1>3. z \in Slot /\ m \in Message /\ m # Nil
  BY <1>0, <1>1, TakingThread, NilIsNothing DEF Base
<1>4. taking'[t] = Nil /\ \A u \in Thread : u # t => taking'[u] = taking[u]
  BY <1>1 DEF Base, AppTypeOK
<1>5. /\ channel'[z] = Append(channel[z], m)
      /\ \A x \in Slot : x # z => channel'[x] = channel[x]
      /\ channel[z] \in Seq(Message)
  BY <1>1, <1>3 DEF Base, AppTypeOK
<1>6. /\ messages'[m] # Nil /\ messages'[m].layers = Layer
      /\ \A k \in Message : k # m => messages'[k] = messages[k]
      /\ UNCHANGED <<outcome, subscribers, subscribersByRmw, callbacks, callbacksById, received>>
  <2>1. /\ messages'[m] # Nil /\ messages'[m].layers = {"rmw", "rcl"} \cup {"rclcpp"}
        /\ \A k \in Message : k # m => messages'[k] = messages[k]
        /\ UNCHANGED <<outcome, subscribers, subscribersByRmw, callbacks, callbacksById, received>>
    BY <1>0, <1>1, <1>2, OuterTakeFinds DEF Layer
  <2>. QED
    BY <2>1 DEF Layer
<1>7. /\ Takes(t, z) /\ \A u \in Thread : Takes(u, z) => u = t
      /\ \A u \in Thread : ~Takes(u, z)'
      /\ \A u \in Thread, x \in Slot : x # z => (Takes(u, x)' <=> Takes(u, x))
      /\ \A u \in Thread : u # t => taking'[u].message = taking[u].message
  BY <1>0, <1>1, <1>2, <1>4 DEF Takes, TakingOK
<1>8. \A x \in Slot : /\ In(x, "ready")' <=> In(x, "ready")
                      /\ Current(x)' = Current(x)
  BY <1>1, <1>6 DEF In, Live, Current, RmwOf
<1>9. WorkOK(z)'
  <2>1. WorkOK(z) /\ busy[z] \in Message \cup {Nil}
    BY <1>3 DEF TraceInv, Base, AppTypeOK
  <2>2. In(z, "ready")
    BY <1>7, <2>1 DEF WorkOK
  <2>3. subscribers[Current(z)].taken = Append(channel[z], m)
    BY <1>0, <1>7, <2>1, <2>2 DEF WorkOK
  <2>4. ASSUME NEW i \in 1..Len(channel'[z]) PROVE Complete(channel[z][i])'
    <3>1. CASE i \in 1..Len(channel[z])
      <4>1. channel'[z][i] = channel[z][i] /\ channel[z][i] \in Message
        BY <1>3, <1>5, <3>1
      <4>2. Complete(channel[z][i])
        BY <2>1, <3>1 DEF WorkOK
      <4>. QED
        BY <1>6, <4>1, <4>2 DEF Complete
    <3>2. CASE i = Len(channel[z]) + 1
      <4>1. channel'[z][i] = m
        BY <1>3, <1>5, <3>2
      <4>. QED
        BY <1>6, <4>1 DEF Complete
    <3>. QED
      BY <1>3, <1>5, <3>1, <3>2
  <2>5. busy'[z] # Nil => Complete(busy[z])'
    <3>1. busy'[z] = busy[z] /\ (busy[z] # Nil => Complete(busy[z]))
      BY <1>1, <2>1 DEF WorkOK
    <3>. QED
      BY <1>6, <2>1, <3>1 DEF Complete
  <2>6. subscribers'[Current(z)'].taken = channel'[z] /\ In(z, "ready")'
    BY <1>3, <1>5, <1>6, <1>8, <2>2, <2>3
  <2>. QED
    BY <1>7, <2>4, <2>5, <2>6 DEF WorkOK
<1>10. ASSUME NEW x \in Slot, x # z PROVE WorkOK(x)'
  <2>1. WorkOK(x) /\ channel[x] \in Seq(Message) /\ busy[x] \in Message \cup {Nil}
    BY DEF TraceInv, Base, AppTypeOK
  <2>2. /\ \A i \in 1..Len(channel[x]) : Complete(channel[x][i])'
        /\ channel'[x] = channel[x] /\ busy'[x] = busy[x] /\ subscribers' = subscribers
    <3>1. \A i \in 1..Len(channel[x]) : channel[x][i] \in Message /\ Complete(channel[x][i])
      BY <2>1 DEF WorkOK
    <3>2. channel'[x] = channel[x]
      BY <1>5, <1>10
    <3>3. \A i \in 1..Len(channel[x]) :
            messages'[channel[x][i]] # Nil /\ messages'[channel[x][i]].layers = Layer
      BY <1>6, <3>1 DEF Complete
    <3>. QED
      BY <1>1, <1>6, <3>2, <3>3 DEF Complete
  <2>3. busy'[x] # Nil => Complete(busy[x])'
    <3>1. busy'[x] = busy[x] /\ (busy[x] # Nil => Complete(busy[x]))
      BY <1>1, <2>1 DEF WorkOK
    <3>. QED
      BY <1>6, <2>1, <3>1 DEF Complete
  <2>4. In(x, "ready") =>
          /\ \A u \in Thread :
               Takes(u, x) => subscribers[Current(x)].taken = Append(channel[x], taking[u].message)
          /\ (\A u \in Thread : ~Takes(u, x)) => subscribers[Current(x)].taken = channel[x]
    BY <2>1 DEF WorkOK
  <2>5. \A u \in Thread : /\ Takes(u, x)' <=> Takes(u, x)
                          /\ Takes(u, x) => taking'[u].message = taking[u].message
    BY <1>0, <1>7, <1>10 DEF Takes
  <2>6. In(x, "ready")' =>
          /\ \A u \in Thread :
               Takes(u, x)' => subscribers'[Current(x)'].taken = Append(channel'[x], taking'[u].message)
          /\ (\A u \in Thread : ~Takes(u, x)') => subscribers'[Current(x)'].taken = channel'[x]
    BY <1>8, <2>2, <2>4, <2>5
  <2>7. ~In(x, "ready")' => channel'[x] = << >> /\ \A u \in Thread : ~Takes(u, x)'
    BY <1>8, <2>1, <2>2, <2>5 DEF WorkOK
  <2>8. \A i \in 1..Len(channel'[x]) : Complete(channel[x][i])'
    BY <2>2
  <2>. QED
    BY <2>3, <2>6, <2>7, <2>8 DEF WorkOK
<1>11. ASSUME NEW u \in Thread PROVE TakingOK(u)'
  <2>1. CASE u = t
    BY <1>4, <2>1 DEF TakingOK
  <2>2. CASE u # t
    <3>1. TakingOK(u) /\ taking'[u] = taking[u]
      BY <1>4, <2>2 DEF TraceInv
    <3>2. taking[u] # Nil => taking[u].message # m /\ taking[u].message \in Message
      BY <1>0, <1>1, <1>2, <2>2, TakingThread DEF TakingOK, Base
    <3>3. taking[u] # Nil =>
            \A v \in Thread : /\ Takes(v, taking[u].slot)' => v = u
                              /\ taking'[v] # Nil /\ taking'[v].message = taking[u].message => v = u
      BY <1>4, <3>1 DEF TakingOK, Takes
    <3>. QED
      BY <1>6, <3>1, <3>2, <3>3 DEF TakingOK, Takes
  <2>. QED
    BY <2>1, <2>2
<1>12. /\ Owned' /\ Apart'
       /\ \A p \in Subscriber : HandlesOK(p)'
       /\ \A r \in RmwHandle : ByRmwOK(r)'
       /\ \A f \in CallbackHandle : AddressOK(f)'
       /\ \A x \in Slot : SlotOK(x)'
  BY <1>1, <1>6, SlotsKept
<1>13. outcome' = "running"
  BY <1>6 DEF TraceInv
<1>. QED
  BY <1>9, <1>10, <1>11, <1>12, <1>13 DEF TraceInv

LEMMA GidAfterTaken ==
  ASSUME NEW o \in SubscriberObject, NEW m \in Message, Len(o.taken) < TakenMax
  PROVE  AfterTaken(o, m).gid = o.gid /\ AfterTaken(o, m).taken = Append(o.taken, m)
<1>1. o.taken \in Seq(Message) /\ TakenMax \in Nat
  BY SubscriptionsAssumption DEF SubscriberObject
<1>2. AfterTaken(o, m) = [o EXCEPT !.taken = Append(o.taken, m)]
  BY <1>1 DEF AfterTaken
<1>. QED
  BY <1>2 DEF SubscriberObject

LEMMA TakeRmwTraced ==
  ASSUME Base, TraceInv, NEW t \in Thread, NEW x \in Slot, NEW s \in Stamp, TakeRmw(t, x, s)
  PROVE  TraceInv'
<1>1. PICK p, m, a : p = Current(x) /\ m = NewMessage /\ a = AddressOf[t]
  OBVIOUS
<1>. DEFINE o == [slot |-> x, message |-> m, layer |-> "rmw"]
            d == [subscriber |-> p, match |-> Matched(s, subscribers[p].topic), layers |-> {"rmw"}]
            new == AfterTaken(subscribers[p], m)
<1>2. /\ In(x, "ready") /\ Live(x) /\ slots[x].phase = "ready"
      /\ taking[t] = Nil /\ \A u \in Thread : ~Takes(u, x)
      /\ Len(channel[x]) < ChannelMax
      /\ RmwTake(RmwOf(x), a, s, TRUE)
      /\ taking' = [taking EXCEPT ![t] = o]
      /\ UNCHANGED <<slots, used, usedGids, channel, busy>>
  BY <1>1 DEF TakeRmw, In, Takes
<1>3. /\ p \in Subscriber /\ p # Nil /\ subscribers[p] # Nil /\ subscribers[p] \in SubscriberObject
      /\ ~subscribers[p].removed /\ p = subscribersByRmw[RmwOf(x)] /\ a \in Pointer
  BY <1>1, <1>2, CurrentFields, NilIsNothing, SubscriptionAppAssumption DEF Current
<1>4. /\ FreeMessage
      /\ messages' = [messages EXCEPT ![m] = d]
      /\ subscribers' = [subscribers EXCEPT ![p] = new]
      /\ received' = [received EXCEPT ![a] = m]
      /\ UNCHANGED <<outcome, subscribersByRmw, callbacks, callbacksById>>
  BY <1>1, <1>2, <1>3 DEF RmwTake, AssertsLive, Continue, registry
<1>5. m \in Message /\ messages[m] = Nil /\ m # Nil
  BY <1>1, <1>4, FreshMessage, NilIsNothing
<1>6. WorkOK(x) /\ SlotOK(x)
  BY DEF TraceInv
<1>7. subscribers[p].taken = channel[x] /\ Len(subscribers[p].taken) < TakenMax
  <2>1. subscribers[p].taken = channel[x]
    BY <1>1, <1>2, <1>6 DEF WorkOK
  <2>2. channel[x] \in Seq(Message) /\ TakenMax \in Nat /\ ChannelMax \in 1..TakenMax
    BY SubscriptionsAssumption, SubscriptionAppAssumption DEF Base, AppTypeOK
  <2>. QED
    BY <1>2, <2>1, <2>2
<1>8. /\ new.gid = subscribers[p].gid /\ new.taken = Append(channel[x], m)
  BY <1>3, <1>5, <1>7, GidAfterTaken
<1>9. /\ new.rmw = subscribers[p].rmw /\ new.rcl = subscribers[p].rcl
      /\ new.rclcpp = subscribers[p].rclcpp /\ new.callback = subscribers[p].callback
      /\ new.removed = subscribers[p].removed
  <2>1. Len(subscribers[p].taken) <= TakenMax
    BY <1>3 DEF Base, IInv, QueueHoldsOwnMessages
  <2>. QED
    BY <1>3, <1>5, <2>1, AfterTakenFields
<1>10. d # Nil /\ d.layers = {"rmw"}
  <2>1. subscribers[p].topic \in TopicKey
    BY <1>3 DEF SubscriberObject, TopicKey
  <2>2. Matched(s, subscribers[p].topic) \in Maybe(Key)
    BY <2>1 DEF Matched, Maybe, Key, TopicKey
  <2>3. d \in MessageObject
    BY <1>3, <2>2 DEF MessageObject, Maybe, Layer
  <2>. QED
    BY <2>3, NilIsNothing
<1>11. o # Nil /\ o.slot = x /\ o.message = m /\ o.layer = "rmw"
  <2>1. o \in TakingObject
    BY <1>5 DEF TakingObject
  <2>. QED
    BY <2>1, NilIsNoSlot
<1>. HIDE DEF o, d, new
<1>12. /\ taking'[t] = o /\ \A u \in Thread : u # t => taking'[u] = taking[u]
       /\ messages'[m] = d /\ \A k \in Message : k # m => messages'[k] = messages[k]
       /\ subscribers'[p] = new /\ \A q \in Subscriber : q # p => subscribers'[q] = subscribers[q]
       /\ received'[a] = m /\ \A b \in Pointer : b # a => received'[b] = received[b]
  BY <1>2, <1>3, <1>4, <1>5 DEF Base, IInv, TypeOK, AppTypeOK
<1>13. \A k \in Message : Complete(k) => Complete(k)'
  BY <1>5, <1>12 DEF Complete
<1>14. /\ \A u \in Thread, y \in Slot : y # x =>
            /\ Takes(u, y)' <=> Takes(u, y)
            /\ Takes(u, y) => taking'[u].message = taking[u].message
       /\ \A u \in Thread : Takes(u, x)' <=> u = t
  BY <1>2, <1>11, <1>12 DEF Takes
<1>15. ASSUME NEW y \in Slot, y # x, Live(y)
       PROVE  subscribers'[Current(y)] = subscribers[Current(y)]
  BY <1>1, <1>2, <1>12, <1>15, SlotsDiffer, CurrentFields
<1>16. Elsewhere(x)
  BY <1>2, <1>4, <1>13, <1>14, <1>15 DEF Elsewhere
<1>17. /\ RmwOf(x)' = RmwOf(x) /\ RclOf(x)' = RclOf(x) /\ RclcppOf(x)' = RclcppOf(x)
       /\ Current(x)' = p /\ CallbackOf(x)' = CallbackOf(x) /\ CallbackAt(x)' = CallbackAt(x)
       /\ In(x, "ready")'
  BY <1>1, <1>2, <1>4 DEF RmwOf, RclOf, RclcppOf, CallbackOf, Current, CallbackAt, In, Live
<1>18. SlotOK(x)'
  BY <1>1, <1>2, <1>4, <1>6, <1>9, <1>12, <1>17 DEF SlotOK, Live
<1>19. WorkOK(x)'
  <2>1. channel[x] \in Seq(Message) /\ busy[x] \in Message \cup {Nil}
    BY DEF Base, AppTypeOK
  <2>2. \A i \in 1..Len(channel[x]) : channel[x][i] \in Message /\ Complete(channel[x][i])
    BY <1>6, <2>1 DEF WorkOK
  <2>3. \A i \in 1..Len(channel'[x]) : Complete(channel[x][i])'
    <3>1. channel' = channel
      BY <1>2
    <3>2. \A i \in 1..Len(channel[x]) :
            messages'[channel[x][i]] # Nil /\ messages'[channel[x][i]].layers = Layer
      BY <1>5, <1>12, <2>2 DEF Complete
    <3>. QED
      BY <3>1, <3>2 DEF Complete
  <2>4. busy'[x] # Nil => Complete(busy[x])'
    <3>1. busy'[x] = busy[x] /\ (busy[x] # Nil => Complete(busy[x]))
      BY <1>2, <1>6 DEF WorkOK
    <3>. QED
      BY <1>5, <1>12, <2>1, <3>1 DEF Complete
  <2>5. /\ \A u \in Thread :
             Takes(u, x)' => subscribers'[p].taken = Append(channel'[x], taking'[u].message)
        /\ ~(\A u \in Thread : ~Takes(u, x)')
    BY <1>2, <1>8, <1>11, <1>12, <1>14
  <2>. QED
    BY <1>17, <2>3, <2>4, <2>5 DEF WorkOK
<1>20. ASSUME NEW u \in Thread PROVE TakingOK(u)'
  <2>0. ASSUME NEW v \in Thread, taking[v] # Nil
        PROVE  /\ taking[v].message # m /\ taking[v].message \in Message
               /\ taking[v].slot # x /\ taking[v].slot \in Slot
    BY <1>2, <1>5, <2>0, TakingThread DEF TraceInv, TakingOK, Base, Takes
  <2>1. CASE u = t
    <3>1. ASSUME NEW v \in Thread
          PROVE  /\ Takes(v, x)' => v = t
                 /\ taking'[v] # Nil /\ taking'[v].message = m => v = t
      BY <1>12, <1>14, <2>0
    <3>. QED
      BY <1>1, <1>10, <1>11, <1>12, <2>1, <3>1 DEF TakingOK, Takes
  <2>2. CASE u # t /\ taking[u] # Nil
    <3>1. TakingOK(u) /\ taking'[u] = taking[u]
      BY <1>12, <2>2 DEF TraceInv
    <3>2. AddressOf[u] \in Pointer /\ AddressOf[u] # a
      BY <1>1, <2>2, SubscriptionAppAssumption
    <3>3. /\ received'[AddressOf[u]] = received[AddressOf[u]]
          /\ messages'[taking[u].message] = messages[taking[u].message]
      BY <1>12, <2>0, <2>2, <3>2
    <3>4. ASSUME NEW v \in Thread
          PROVE  /\ Takes(v, taking[u].slot)' => v = u
                 /\ taking'[v] # Nil /\ taking'[v].message = taking[u].message => v = u
      BY <1>11, <1>12, <2>0, <2>2, <3>1 DEF TakingOK, Takes
    <3>. QED
      BY <2>2, <3>1, <3>3, <3>4 DEF TakingOK, Takes
  <2>3. CASE u # t /\ taking[u] = Nil
    BY <1>12, <2>3 DEF TakingOK
  <2>. QED
    BY <2>1, <2>2, <2>3
<1>21. Owned' /\ Apart'
  BY <1>2, SlotsStay DEF Live
<1>22. ASSUME NEW q \in Subscriber PROVE HandlesOK(q)'
  <2>1. CASE q = p
    BY <1>2, <1>3, <1>8, <1>9, <1>12, <2>1, HandlesKept
  <2>2. CASE q # p
    BY <1>2, <1>12, <2>2 DEF TraceInv, HandlesOK
  <2>. QED
    BY <2>1, <2>2
<1>23. ASSUME NEW r \in RmwHandle PROVE ByRmwOK(r)'
  <2>1. subscribersByRmw[r] # Nil => subscribersByRmw[r] \in Subscriber
    BY RmwEntry
  <2>. QED
    BY <1>3, <1>4, <1>9, <1>12, <2>1, RmwKept
<1>24. ASSUME NEW f \in CallbackHandle PROVE AddressOK(f)'
  <2>1. \A q \in Subscriber : subscribers[q] # Nil => subscribers'[q].rmw = subscribers[q].rmw
    BY <1>9, <1>12
  <2>. QED
    BY <1>2, <1>4, <2>1, AddressKept
<1>25. outcome' = "running"
  BY <1>4 DEF TraceInv
<1>26. \A y \in Slot : SlotOK(y)' /\ WorkOK(y)'
  BY <1>16, <1>18, <1>19, ElsewhereKeeps
<1>. QED
  BY <1>20, <1>21, <1>22, <1>23, <1>24, <1>25, <1>26 DEF TraceInv

-----------------------------------------------------------------------------
(* What holds of the trace of an application that frees an address for use with
   others only together with them. *)
AppInv == outcome = "running" /\ IInv /\ AppOK /\ TraceInv

LEMMA StepTraced ==
  ASSUME ~AnyReuse, Base, TraceInv, AppNext
  PROVE  TraceInv'
<1>1. ASSUME NEW n \in NodeHandle, AppNodeAppears(n) PROVE TraceInv'
  BY <1>1, AppNodeAppearsTraced
<1>2. ASSUME NEW x \in Slot, NEW u \in Handles, NEW g \in Gid, CreateRmw(x, u, g)
      PROVE  TraceInv'
  BY <1>2, CreateRmwTraced
<1>3. ASSUME NEW x \in Slot, NEW t \in Topic, NEW n \in NodeHandle, CreateRcl(x, t, n)
      PROVE  TraceInv'
  BY <1>3, CreateRclTraced
<1>4. ASSUME NEW x \in Slot, CreateRclcpp(x) PROVE TraceInv'
  BY <1>4, CreateRclcppTraced
<1>5. ASSUME NEW x \in Slot, AddCallback(x) PROVE TraceInv'
  BY <1>5, AddCallbackTraced
<1>6. ASSUME NEW x \in Slot, RegisterCallback(x) PROVE TraceInv'
  BY <1>6, RegisterCallbackTraced
<1>7. ASSUME NEW x \in Slot, Destroy(x) PROVE TraceInv'
  BY <1>7, DestroyTraced
<1>8. ASSUME NEW x \in Slot, StartCallback(x) PROVE TraceInv'
  BY <1>8, StartCallbackTraced
<1>9. ASSUME NEW x \in Slot, EndCallback(x) PROVE TraceInv'
  BY <1>9, EndCallbackTraced
<1>10. ASSUME NEW t \in Thread, NEW x \in Slot, NEW s \in Stamp, TakeRmw(t, x, s)
       PROVE  TraceInv'
  BY <1>10, TakeRmwTraced
<1>11. ASSUME NEW t \in Thread, TakeRcl(t) PROVE TraceInv'
  BY <1>11, TakeRclTraced
<1>12. ASSUME NEW t \in Thread, TakeRclcpp(t) PROVE TraceInv'
  BY <1>12, TakeRclcppTraced
<1>. QED
  BY <1>1, <1>2, <1>3, <1>4, <1>5, <1>6, <1>7, <1>8, <1>9, <1>10, <1>11, <1>12
     DEF AppNext, AppRegistration

LEMMA AppStepKeeps ==
  ASSUME ~AnyReuse, AppInv, [AppNext]_allVars
  PROVE  AppInv'
<1>1. outcome = "running" /\ AppTypeOK /\ BusyIsReady /\ Base /\ TraceInv
  BY DEF AppInv, AppOK, Base
<1>2. TraceInv'
  <2>1. CASE AppNext
    BY <1>1, <2>1, StepTraced
  <2>2. CASE UNCHANGED allVars
    <3>1. UNCHANGED <<outcome, subscribers, subscribersByRmw, callbacks, callbacksById,
                      messages, received, slots, used, usedGids, taking, channel, busy>>
      BY <2>2 DEF allVars, vars, registry, heaps, appVars
    <3>2. /\ Owned' /\ Apart'
          /\ \A p \in Subscriber : HandlesOK(p)'
          /\ \A r \in RmwHandle : ByRmwOK(r)'
          /\ \A f \in CallbackHandle : AddressOK(f)'
          /\ \A x \in Slot : SlotOK(x)'
      BY <1>1, <3>1, SlotsKept
    <3>3. \A x \in Slot : WorkOK(x)'
      BY <1>1, <3>1 DEF TraceInv, WorkOK, Live, In, Takes, Complete, RmwOf, Current
    <3>4. \A t \in Thread : TakingOK(t)'
      BY <1>1, <3>1, TakingKept
    <3>. QED
      BY <1>1, <3>1, <3>2, <3>3, <3>4 DEF TraceInv
  <2>. QED
    BY <2>1, <2>2
<1>3. outcome' = "running"
  BY <1>2 DEF TraceInv
<1>4. AppOK'
  BY <1>1, <1>3, AppStepKeepsType, AppStepKeepsBusy DEF AppOK
<1>5. [Next]_vars
  BY <1>1, AppStepIsStep DEF AppOK
<1>6. IInv'
  BY <1>1, <1>5, StepKeeps DEF Base
<1>. QED
  BY <1>2, <1>3, <1>4, <1>6 DEF AppInv

LEMMA AppInitHolds ==
  ASSUME AppInit
  PROVE  AppInv
<1>1. IInv
  BY InitHolds DEF AppInit
<1>2. AppOK
  BY DEF AppInit, AppOK, AppTypeOK, BusyIsReady
<1>3. Owned /\ Apart
  BY DEF AppInit, Owned, Apart, Live
<1>4. /\ \A p \in Subscriber : HandlesOK(p)
      /\ \A r \in RmwHandle : ByRmwOK(r)
      /\ \A f \in CallbackHandle : AddressOK(f)
  BY DEF AppInit, Init, HandlesOK, ByRmwOK, AddressOK
<1>5. \A x \in Slot : SlotOK(x)
  BY DEF AppInit, SlotOK, Live
<1>6. \A x \in Slot : WorkOK(x)
  BY DEF AppInit, WorkOK, In, Live, Takes
<1>7. \A t \in Thread : TakingOK(t)
  BY DEF AppInit, TakingOK
<1>8. outcome = "running"
  BY DEF AppInit, Init
<1>. QED
  BY <1>1, <1>2, <1>3, <1>4, <1>5, <1>6, <1>7, <1>8 DEF AppInv, TraceInv

LEMMA AppInductive ==
  ASSUME ~AnyReuse
  PROVE  AppSpec => []AppInv
<1>1. AppInit => AppInv
  BY AppInitHolds
<1>2. AppInv /\ [AppNext]_allVars => AppInv'
  BY AppStepKeeps
<1>. QED
  BY <1>1, <1>2, PTL DEF AppSpec

LEMMA InvIsExact ==
  ASSUME AppInv
  PROVE  AttributionIsExact
<1>1. Base /\ TraceInv /\ BusyIsReady
  BY DEF AppInv, AppOK, Base
<1>2. ASSUME NEW x \in Slot, busy[x] # Nil
      PROVE  /\ callbacks[callbacksById[CallbackOf(x)]].running = busy[x]
             /\ messages[busy[x]].layers = Layer
  <2>1. Live(x) /\ slots[x].phase = "ready"
    BY <1>1, <1>2 DEF BusyIsReady, In
  <2>. QED
    BY <1>1, <1>2, <2>1 DEF TraceInv, SlotOK, WorkOK, CallbackAt, Complete
<1>3. ASSUME NEW x \in Slot, In(x, "ready")
      PROVE  LET q == subscribers[subscribersByRmw[RmwOf(x)]].taken
                 underWay == {t \in Thread : taking[t] # Nil /\ taking[t].slot = x}
             IN  \/ underWay = {} /\ q = channel[x]
                 \/ \E t \in underWay : q = Append(channel[x], taking[t].message)
  <2>1. /\ \A t \in Thread :
             Takes(t, x) => subscribers[Current(x)].taken = Append(channel[x], taking[t].message)
        /\ (\A t \in Thread : ~Takes(t, x)) => subscribers[Current(x)].taken = channel[x]
    BY <1>1, <1>3 DEF TraceInv, WorkOK
  <2>. QED
    BY <2>1 DEF Current, Takes
<1>. QED
  BY <1>2, <1>3 DEF AttributionIsExact

-----------------------------------------------------------------------------
(* The series of the latency analyses. *)
Latency == [message: Message \cup Nothing, layer: Layer]

Counted(m, s) == \E i \in DOMAIN s : s[i].message = m

Single(m, s) == \A i, j \in DOMAIN s : s[i].message = m /\ s[j].message = m => i = j

LEMMA OnceOccurs ==
  ASSUME NEW m, NEW s, Counted(m, s), Single(m, s)
  PROVE  Occurrences(m, s) = 1
<1>1. PICK i \in DOMAIN s : s[i].message = m
  BY DEF Counted
<1>2. {j \in DOMAIN s : s[j].message = m} = {i}
  BY <1>1 DEF Single
<1>. QED
  BY <1>2, FS_Singleton DEF Occurrences

LEMMA NoneOccurs ==
  ASSUME NEW m, NEW s, ~Counted(m, s)
  PROVE  Occurrences(m, s) = 0
<1>1. {j \in DOMAIN s : s[j].message = m} = {}
  BY DEF Counted
<1>. QED
  BY <1>1, FS_EmptySet DEF Occurrences

(* SetToSeq lists a finite set without repetition. *)
LEMMA SetToSeqLists ==
  ASSUME NEW S, IsFiniteSet(S)
  PROVE  /\ SetToSeq(S) \in Seq(S)
         /\ \A e \in S : \E i \in DOMAIN SetToSeq(S) : SetToSeq(S)[i] = e
         /\ \A i, j \in DOMAIN SetToSeq(S) : SetToSeq(S)[i] = SetToSeq(S)[j] => i = j
<1>. DEFINE n == Cardinality(S)
            f == SetToSeq(S)
<1>1. n \in Nat /\ ExistsBijection(1..n, S)
  BY FS_CardinalityType
<1>2. \E g \in [1..n -> S] : IsInjective(g)
  BY <1>1 DEF ExistsBijection, Bijection, Injection
<1>3. f \in [1..n -> S] /\ IsInjective(f)
  BY <1>2 DEF SetToSeq
<1>4. f \in Injection(1..n, S)
  BY <1>3 DEF Injection
<1>5. Cardinality(1..n) = n
  BY <1>1, FS_Interval
<1>6. f \in Surjection(1..n, S)
  BY <1>4, <1>5, FS_Injection
<1>7. \A e \in S : \E i \in 1..n : f[i] = e
  BY <1>6 DEF Surjection
<1>8. f \in Seq(S) /\ DOMAIN f = 1..n
  BY <1>1, <1>3
<1>. QED
  BY <1>3, <1>7, <1>8 DEF IsInjective

(* A series goes on with the latencies T of messages it has not counted. *)
LEMMA AppendedCounts ==
  ASSUME NEW s \in Seq(Latency), NEW T \in SUBSET Latency, IsFiniteSet(T),
         \A d, e \in T : d.message = e.message => d = e,
         NEW m
  PROVE  LET c == s \o SetToSeq(T) IN
         /\ c \in Seq(Latency)
         /\ Counted(m, c) <=> Counted(m, s) \/ \E e \in T : e.message = m
         /\ Single(m, s) /\ ~(Counted(m, s) /\ \E e \in T : e.message = m) => Single(m, c)
<1>. DEFINE z == SetToSeq(T)
            c == s \o z
<1>1. /\ z \in Seq(T)
      /\ \A e \in T : \E i \in DOMAIN z : z[i] = e
      /\ \A i, j \in DOMAIN z : z[i] = z[j] => i = j
  BY SetToSeqLists
<1>. HIDE DEF z
<1>2. z \in Seq(Latency) /\ \A i \in DOMAIN z : z[i] \in T
  BY <1>1
<1>3. /\ c \in Seq(Latency) /\ DOMAIN c = 1..(Len(s) + Len(z))
      /\ \A i \in 1..Len(s) : c[i] = s[i]
      /\ \A i \in 1..Len(z) : c[Len(s) + i] = z[i]
      /\ Len(s) \in Nat /\ Len(z) \in Nat
      /\ DOMAIN s = 1..Len(s) /\ DOMAIN z = 1..Len(z)
  BY <1>2
<1>. HIDE DEF c
<1>4. \A i \in DOMAIN c : \/ i \in DOMAIN s /\ c[i] = s[i]
                          \/ i - Len(s) \in DOMAIN z /\ c[i] = z[i - Len(s)]
  <2>1. ASSUME NEW i \in DOMAIN c, i \notin DOMAIN s
        PROVE  i - Len(s) \in DOMAIN z /\ c[i] = z[i - Len(s)]
    <3>1. i - Len(s) \in 1..Len(z) /\ i = Len(s) + (i - Len(s))
      BY <1>3, <2>1
    <3>. QED
      BY <1>3, <3>1
  <2>. QED
    BY <1>3, <2>1
<1>5. ASSUME Counted(m, c) PROVE Counted(m, s) \/ \E e \in T : e.message = m
  <2>1. PICK i \in DOMAIN c : c[i].message = m
    BY <1>5 DEF Counted
  <2>. QED
    BY <1>2, <1>4, <2>1 DEF Counted
<1>6. ASSUME Counted(m, s) PROVE Counted(m, c)
  <2>1. PICK i \in DOMAIN s : s[i].message = m
    BY <1>6 DEF Counted
  <2>2. i \in DOMAIN c /\ c[i] = s[i]
    BY <1>3, <2>1
  <2>. QED
    BY <2>1, <2>2 DEF Counted
<1>7. ASSUME NEW e \in T, e.message = m PROVE Counted(m, c)
  <2>1. PICK i \in DOMAIN z : z[i] = e
    BY <1>1
  <2>2. Len(s) + i \in DOMAIN c /\ c[Len(s) + i] = e
    BY <1>3, <2>1
  <2>. QED
    BY <1>7, <2>2 DEF Counted
<1>8. ASSUME Single(m, s), ~(Counted(m, s) /\ \E e \in T : e.message = m)
      PROVE  Single(m, c)
  <2>1. SUFFICES ASSUME NEW i \in DOMAIN c, NEW j \in DOMAIN c,
                        c[i].message = m, c[j].message = m
                 PROVE  i = j
    BY DEF Single
  <2>2. CASE Counted(m, s)
    <3>1. i \in DOMAIN s /\ c[i] = s[i] /\ j \in DOMAIN s /\ c[j] = s[j]
      BY <1>2, <1>4, <1>8, <2>1, <2>2
    <3>. QED
      BY <1>8, <2>1, <3>1 DEF Single
  <2>3. CASE ~Counted(m, s)
    <3>1. /\ i - Len(s) \in DOMAIN z /\ c[i] = z[i - Len(s)]
          /\ j - Len(s) \in DOMAIN z /\ c[j] = z[j - Len(s)]
      BY <1>4, <2>1, <2>3 DEF Counted
    <3>2. z[i - Len(s)] = z[j - Len(s)]
      BY <1>2, <2>1, <3>1
    <3>3. i - Len(s) = j - Len(s)
      BY <1>1, <3>1, <3>2
    <3>. QED
      BY <1>3, <3>3
  <2>. QED
    BY <2>2, <2>3
<1>9. /\ Counted(m, c) <=> Counted(m, s) \/ \E e \in T : e.message = m
      /\ Single(m, s) /\ ~(Counted(m, s) /\ \E e \in T : e.message = m) => Single(m, c)
  BY <1>5, <1>6, <1>7, <1>8
<1>. QED
  BY <1>3, <1>9 DEF c, z

-----------------------------------------------------------------------------
(* Registration touches no message, and no callback but by adding and naming one. *)
LEMMA RegistrationTouches ==
  ASSUME Registration
  PROVE  /\ messages' = messages
         /\ \/ callbacks' = callbacks
            \/ \E f \in CallbackHandle :
                 CallbackRegister(f) \/ \E c \in RclcppHandle : CallbackAdded(f, c)
<1>1. ASSUME NEW n \in NodeHandle, NodeAppears(n) PROVE UNCHANGED <<messages, callbacks>>
  BY <1>1 DEF NodeAppears, heaps
<1>2. ASSUME NEW r \in RmwHandle, NEW g \in Gid, RmwSubscriptionInit(r, g)
      PROVE  UNCHANGED <<messages, callbacks>>
  BY <1>2 DEF RmwSubscriptionInit, Panic, Stop, heaps
<1>3. ASSUME NEW r \in RmwHandle, NEW h \in RclHandle, NEW t \in Topic, NEW n \in NodeHandle,
             RclSubscriptionInit(r, h, t, n)
      PROVE  UNCHANGED <<messages, callbacks>>
  BY <1>3 DEF RclSubscriptionInit, RegisterByRcl, Fail, Panic, Stop, heaps
<1>4. ASSUME NEW c \in RclcppHandle, NEW h \in RclHandle, RclcppSubscriptionInit(c, h)
      PROVE  UNCHANGED <<messages, callbacks>>
  BY <1>4 DEF RclcppSubscriptionInit, Fail, Panic, Hang, Stop, heaps
<1>5. ASSUME NEW f \in CallbackHandle, NEW c \in RclcppHandle, CallbackAdded(f, c)
      PROVE  messages' = messages
  BY <1>5 DEF CallbackAdded, Fail, Panic, Stop, heaps
<1>6. ASSUME NEW f \in CallbackHandle, CallbackRegister(f)
      PROVE  messages' = messages
  BY <1>6 DEF CallbackRegister, Fail, Stop, heaps
<1>. QED
  BY <1>1, <1>2, <1>3, <1>4, <1>5, <1>6 DEF Registration

(* What no step of the processor takes back: a message stays one of its subscriber,
   a callback one of its caller, and what left a queue does not return. *)
LEMMA MessagesStay ==
  ASSUME IInv, [Next]_vars, NEW m \in Message, messages[m] # Nil
  PROVE  messages'[m] # Nil /\ messages'[m].subscriber = messages[m].subscriber
<1>. DEFINE Stays == messages'[m] # Nil /\ messages'[m].subscriber = messages[m].subscriber
<1>1. ASSUME messages' = messages PROVE Stays
  BY <1>1
<1>2. ASSUME NEW a \in Pointer, NEW layer \in Layer, OuterTake(a, layer) PROVE Stays
  <2>1. PICK k \in Message, o \in MessageObject :
          /\ messages' = [messages EXCEPT ![k] = o]
          /\ messages[k] # Nil => o.subscriber = messages[k].subscriber
    <3>1. CASE received[a] # Nil /\ layer \notin messages[received[a]].layers
      <4>1. received[a] \in Message /\ messages[received[a]] \in MessageObject
        BY <3>1 DEF IInv, TypeOK, TrafficRefs
      <4>2. /\ AfterReceive(messages[received[a]], layer) \in MessageObject
            /\ AfterReceive(messages[received[a]], layer).subscriber
                 = messages[received[a]].subscriber
        BY <4>1 DEF AfterReceive, MessageObject
      <4>. QED
        BY <1>2, <3>1, <4>1, <4>2 DEF OuterTake
    <3>2. CASE ~(received[a] # Nil /\ layer \notin messages[received[a]].layers)
      <4>1. NewMessage \in Message /\ messages[NewMessage] = Nil
        BY <1>2, <3>2, FreshMessage DEF OuterTake
      <4>2. DefaultMessage \in MessageObject
        BY DEF DefaultMessage, MessageObject, Maybe
      <4>3. AfterReceive(DefaultMessage, layer) \in MessageObject
        BY <4>2 DEF AfterReceive, MessageObject
      <4>. QED
        BY <1>2, <3>2, <4>1, <4>3 DEF OuterTake
    <3>. QED
      BY <3>1, <3>2
  <2>. QED
    BY <2>1, NilIsNothing DEF IInv, TypeOK
<1>3. ASSUME NEW r \in RmwHandle, NEW a \in Pointer, NEW s \in Stamp, NEW b \in BOOLEAN,
             RmwTake(r, a, s, b)
      PROVE  Stays
  <2>1. CASE messages' = messages
    BY <1>1, <2>1
  <2>2. CASE FreeMessage /\ \E d : messages' = [messages EXCEPT ![NewMessage] = d]
    BY <2>2, FreshMessage DEF IInv, TypeOK
  <2>. QED
    BY <1>3, <2>1, <2>2 DEF RmwTake, Fail, Panic, Stop, heaps, vars
<1>4. CASE Registration
  BY <1>1, <1>4, RegistrationTouches
<1>5. CASE Reception
  <2>1. ASSUME NEW s \in Stamp, NEW t \in TopicKey, PublicationFiled(s, t) PROVE Stays
    BY <1>1, <2>1 DEF PublicationFiled, heaps
  <2>. QED
    BY <1>2, <1>3, <1>5, <2>1 DEF Reception, RclTake, RclcppTake, Layer
<1>6. CASE Execution
  BY <1>1, <1>6 DEF Execution, CallbackStart, CallbackEnd, Fail, Panic, Stop, heaps
<1>7. CASE UNCHANGED vars
  BY <1>1, <1>7 DEF vars, heaps
<1>. QED
  BY <1>4, <1>5, <1>6, <1>7 DEF Next

LEMMA CallersStay ==
  ASSUME IInv, [Next]_vars, NEW k \in Callback, callbacks[k] # Nil
  PROVE  callbacks'[k] # Nil /\ callbacks'[k].caller = callbacks[k].caller
<1>. DEFINE Stays == callbacks'[k] # Nil /\ callbacks'[k].caller = callbacks[k].caller
<1>1. ASSUME callbacks' = callbacks PROVE Stays
  BY <1>1
<1>2. ASSUME NEW f \in CallbackHandle, NEW c \in RclcppHandle, CallbackAdded(f, c) PROVE Stays
  <2>1. CASE callbacks' = callbacks
    BY <1>1, <2>1
  <2>2. CASE FreeCallback /\ \E d : callbacks' = [callbacks EXCEPT ![NewCallback] = d]
    BY <2>2, FreshCallback DEF IInv, TypeOK
  <2>. QED
    BY <1>2, <2>1, <2>2 DEF CallbackAdded, Fail, Panic, Stop, heaps
<1>3. ASSUME NEW f \in CallbackHandle, CallbackRegister(f) \/ CallbackStart(f) \/ CallbackEnd(f)
      PROVE  Stays
  <2>1. CASE callbacks' = callbacks
    BY <1>1, <2>1
  <2>2. PICK j : j = callbacksById[f]
    OBVIOUS
  <2>3. CASE j # Nil /\ \/ callbacks' = [callbacks EXCEPT ![j].named = TRUE]
                        \/ callbacks' = [callbacks EXCEPT ![j].running = Nil]
                        \/ /\ subscribers[callbacks[j].caller].taken # << >>
                           /\ callbacks' = [callbacks EXCEPT ![j].running =
                                                Head(subscribers[callbacks[j].caller].taken)]
    <3>1. /\ j \in Callback /\ callbacks \in [Callback -> CallbackObject \cup {Nil}]
          /\ callbacks[j] # Nil
      BY <2>2, <2>3 DEF IInv, TypeOK, TrafficRefs
    <3>2. callbacks[j] \in CallbackObject
      BY <3>1
    <3>3. subscribers[callbacks[j].caller].taken \in Seq(Message)
      <4>1. subscribers[callbacks[j].caller] \in SubscriberObject
        BY <3>1, <3>2 DEF IInv, TypeOK, CallerIsAlive, CallbackObject
      <4>. QED
        BY <4>1 DEF SubscriberObject
    <3>4. \E o \in CallbackObject : /\ callbacks' = [callbacks EXCEPT ![j] = o]
                                    /\ o.caller = callbacks[j].caller
      <4>1. ASSUME NEW b \in BOOLEAN, callbacks' = [callbacks EXCEPT ![j].named = b]
            PROVE  \E o \in CallbackObject : /\ callbacks' = [callbacks EXCEPT ![j] = o]
                                             /\ o.caller = callbacks[j].caller
        <5>1. /\ [callbacks[j] EXCEPT !.named = b] \in CallbackObject
              /\ [callbacks[j] EXCEPT !.named = b].caller = callbacks[j].caller
          BY <3>2 DEF CallbackObject
        <5>. QED
          BY <4>1, <5>1
      <4>2. ASSUME NEW m \in Message \cup {Nil}, callbacks' = [callbacks EXCEPT ![j].running = m]
            PROVE  \E o \in CallbackObject : /\ callbacks' = [callbacks EXCEPT ![j] = o]
                                             /\ o.caller = callbacks[j].caller
        <5>1. /\ [callbacks[j] EXCEPT !.running = m] \in CallbackObject
              /\ [callbacks[j] EXCEPT !.running = m].caller = callbacks[j].caller
          BY <3>2 DEF CallbackObject
        <5>. QED
          BY <4>2, <5>1
      <4>3. CASE callbacks' = [callbacks EXCEPT ![j].named = TRUE]
        BY <4>1, <4>3
      <4>4. CASE callbacks' = [callbacks EXCEPT ![j].running = Nil]
        BY <4>2, <4>4
      <4>5. CASE /\ subscribers[callbacks[j].caller].taken # << >>
                 /\ callbacks' = [callbacks EXCEPT ![j].running =
                                    Head(subscribers[callbacks[j].caller].taken)]
        <5>1. Head(subscribers[callbacks[j].caller].taken) \in Message
          BY <3>3, <4>5
        <5>. QED
          BY <4>2, <4>5, <5>1
      <4>. QED
        BY <2>3, <4>3, <4>4, <4>5
    <3>. QED
      BY <3>1, <3>4, NilIsNothing
  <2>. QED
    BY <1>3, <2>1, <2>2, <2>3
       DEF CallbackRegister, CallbackStart, CallbackEnd, Fail, Panic, Stop, heaps
<1>4. CASE Registration
  BY <1>1, <1>2, <1>3, <1>4, RegistrationTouches
<1>5. CASE Reception
  BY <1>1, <1>5 DEF Reception, PublicationFiled, RmwTake, RclTake, RclcppTake, OuterTake,
     Fail, Panic, Stop, heaps, vars
<1>6. CASE Execution
  BY <1>3, <1>6 DEF Execution
<1>7. CASE UNCHANGED vars
  BY <1>1, <1>7 DEF vars, heaps
<1>. QED
  BY <1>4, <1>5, <1>6, <1>7 DEF Next

LEMMA QueuedBefore ==
  ASSUME IInv, [Next]_vars, NEW p \in Subscriber, subscribers[p] # Nil,
         NEW m \in Message, messages[m] # Nil, Queued(p, m)'
  PROVE  Queued(p, m)
<1>. DEFINE old == subscribers[p].taken
            new == subscribers'[p].taken
<1>1. IInv' /\ InOrder
  BY StepKeeps, StepIsInOrder
<1>2. subscribers'[p] # Nil /\ \E i \in 1..Len(new) : new[i] = m
  BY DEF Queued
<1>3. old \in Seq(Message) /\ new \in Seq(Message)
  <2>1. subscribers[p] \in SubscriberObject /\ subscribers'[p] \in SubscriberObject
    BY <1>1, <1>2 DEF IInv, TypeOK
  <2>. QED
    BY <2>1 DEF SubscriberObject
<1>4. PICK i \in 1..Len(new) : new[i] = m
  BY <1>2
<1>5. new = old \/ Popped(old, new, p) \/ Pushed(old, new)
  BY <1>1 DEF InOrder
<1>. HIDE DEF old, new
<1>6. \E j \in 1..Len(old) : old[j] = m
  <2>1. CASE new = old
    BY <1>4, <2>1
  <2>2. CASE Popped(old, new, p)
    <3>1. old # << >> /\ new = Tail(old)
      BY <2>2 DEF Popped
    <3>2. i + 1 \in 1..Len(old) /\ old[i + 1] = new[i]
      BY <1>3, <1>4, <3>1
    <3>. QED
      BY <1>4, <3>2
  <2>3. CASE Pushed(old, new)
    <3>. DEFINE b == IF Len(old) = TakenMax THEN Tail(old) ELSE old
    <3>1. SubSeq(new, 1, Len(new) - 1) = b /\ messages[new[Len(new)]] = Nil
      BY <2>3 DEF Pushed
    <3>2. i \in 1..(Len(new) - 1)
      BY <1>3, <1>4, <3>1
    <3>3. Len(b) = Len(new) - 1 /\ b[i] = m
      BY <1>3, <1>4, <3>1, <3>2
    <3>4. CASE Len(old) = TakenMax
      <4>1. b = Tail(old) /\ old # << >>
        BY <1>3, <3>4, SubscriptionsAssumption
      <4>2. i + 1 \in 1..Len(old) /\ old[i + 1] = b[i]
        BY <1>3, <3>2, <3>3, <4>1
      <4>. QED
        BY <3>3, <4>2
    <3>5. CASE Len(old) # TakenMax
      BY <1>3, <3>2, <3>3, <3>5
    <3>. QED
      BY <3>4, <3>5
  <2>. QED
    BY <1>5, <2>1, <2>2, <2>3
<1>. QED
  BY <1>6 DEF Queued, old

-----------------------------------------------------------------------------
(* A message is pending, or counted once for its subscriber. *)
MessageOK(m) ==
  /\ m \in pending <=>
       messages[m] # Nil /\ analysis = "running" /\ "rclcpp" \notin messages[m].layers
  /\ \A p \in Subscriber :
       /\ Counted(m, latencies[p]) <=>
            messages[m] # Nil /\ p = messages[m].subscriber /\ m \notin pending
       /\ Single(m, latencies[p])

(* A message whose waiting ended with callback k left the queue for good. *)
LeftQueue(k, l) ==
  /\ callbacks[k] # Nil
  /\ l.layer = "rclcpp" /\ l.message \in Message
  /\ messages[l.message] # Nil
  /\ messages[l.message].subscriber = callbacks[k].caller
  /\ ~Queued(callbacks[k].caller, l.message)

Waited(k, l) == LeftQueue(k, l) /\ Single(l.message, takeLatencies[k])

WaitOK(k) == \A i \in DOMAIN takeLatencies[k] : Waited(k, takeLatencies[k][i])

LatencyTypeOK ==
  /\ pending \subseteq Message \cup Nothing
  /\ IsFiniteSet(pending)
  /\ latencies \in [Subscriber -> Seq(Latency)]
  /\ takeLatencies \in [Callback -> Seq(Latency)]
  /\ analysis \in {"running", "finalized"}

LatencyOK ==
  /\ LatencyTypeOK
  /\ \A m \in Message : MessageOK(m)
  /\ \A k \in Callback : WaitOK(k)

LEMMA LatencyFields ==
  ASSUME NEW m \in Message \cup Nothing
  PROVE  /\ LatencyOf(m) \in Latency /\ LatencyOf(m).message = m
         /\ m \in Message =>
              /\ LatencyOf(m).layer = OutermostLayer(messages'[m].layers)
              /\ SubscriberOf(m) = messages'[m].subscriber
<1>1. \A ls : OutermostLayer(ls) \in Layer
  BY DEF OutermostLayer, Layer
<1>2. m \in Message => m \notin Nothing
  BY LatenciesAssumption
<1>. QED
  BY <1>1, <1>2 DEF LatencyOf, Latency, SubscriberOf

(* The messages S leave the analysis, each into the series of its subscriber. *)
LEMMA RecordedCounts ==
  ASSUME latencies \in [Subscriber -> Seq(Latency)],
         NEW S \in SUBSET (Message \cup Nothing), IsFiniteSet(S),
         latencies' = Recorded(S),
         NEW p \in Subscriber
  PROVE  /\ latencies'[p] \in Seq(Latency)
         /\ \A m \in Message :
              /\ Counted(m, latencies'[p]) <=>
                   Counted(m, latencies[p]) \/ (m \in S /\ messages'[m].subscriber = p)
              /\ Single(m, latencies[p])
                   /\ ~(Counted(m, latencies[p]) /\ m \in S /\ messages'[m].subscriber = p)
                 => Single(m, latencies'[p])
<1>. DEFINE R == {q \in S : SubscriberOf(q) = p}
            T == {LatencyOf(q) : q \in R}
            f == [q \in R |-> LatencyOf(q)]
<1>1. latencies'[p] = latencies[p] \o SetToSeq(T)
  BY DEF Recorded
<1>2. IsFiniteSet(R) /\ R \subseteq Message \cup Nothing
  BY FS_Subset
<1>3. f \in Surjection(R, T)
  BY DEF Surjection
<1>4. IsFiniteSet(T)
  <2>. HIDE DEF R, T, f
  <2>. QED
    BY <1>2, <1>3, FS_Surjection
<1>5. T \in SUBSET Latency
  BY <1>2, LatencyFields
<1>6. \A q \in R : LatencyOf(q).message = q
  BY <1>2, LatencyFields
<1>7. \A d, e \in T : d.message = e.message => d = e
  BY <1>6
<1>8. \A m \in Message : (\E e \in T : e.message = m) <=> m \in R
  BY <1>6
<1>9. \A m \in Message : m \in R <=> m \in S /\ messages'[m].subscriber = p
  BY LatencyFields
<1>. HIDE DEF R, T
<1>10. PICK s : s = latencies[p]
  OBVIOUS
<1>11. PICK c : c = s \o SetToSeq(T)
  OBVIOUS
<1>12. s \in Seq(Latency) /\ latencies'[p] = c
  BY <1>1, <1>10, <1>11
<1>13. ASSUME NEW m \in Message
       PROVE  /\ c \in Seq(Latency)
              /\ Counted(m, c) <=> Counted(m, s) \/ m \in R
              /\ Single(m, s) /\ ~(Counted(m, s) /\ m \in R) => Single(m, c)
  BY <1>4, <1>5, <1>7, <1>8, <1>11, <1>12, AppendedCounts
<1>14. c \in Seq(Latency)
  BY <1>4, <1>5, <1>7, <1>11, <1>12, AppendedCounts
<1>15. ASSUME NEW m \in Message
       PROVE  /\ Counted(m, c) <=> Counted(m, s) \/ (m \in S /\ messages'[m].subscriber = p)
              /\ Single(m, s)
                   /\ ~(Counted(m, s) /\ m \in S /\ messages'[m].subscriber = p)
                 => Single(m, c)
  <2>1. m \in R <=> m \in S /\ messages'[m].subscriber = p
    BY <1>9
  <2>. QED
    BY <1>13, <2>1
<1>. QED
  BY <1>10, <1>12, <1>14, <1>15

LEMMA RecordedType ==
  ASSUME latencies \in [Subscriber -> Seq(Latency)],
         NEW S \in SUBSET (Message \cup Nothing), IsFiniteSet(S),
         latencies' = Recorded(S)
  PROVE  latencies' \in [Subscriber -> Seq(Latency)]
<1>1. \A p \in Subscriber : latencies'[p] \in Seq(Latency)
  BY RecordedCounts
<1>2. latencies' = [p \in Subscriber |-> latencies'[p]]
  BY DEF Recorded
<1>. QED
  BY <1>1, <1>2

(* Steps that leave a message, or the waiting for a callback, as it was. *)
LEMMA MessageKept ==
  ASSUME NEW m \in Message, MessageOK(m), UNCHANGED <<latencies, analysis>>,
         messages'[m] = messages[m], m \in pending' <=> m \in pending
  PROVE  MessageOK(m)'
  BY DEF MessageOK

LEMMA LeftForGood ==
  ASSUME IInv, [Next]_vars, NEW k \in Callback, NEW l, LeftQueue(k, l)
  PROVE  LeftQueue(k, l)'
<1>1. PICK m : m = l.message
  OBVIOUS
<1>2. /\ callbacks[k] # Nil /\ l.layer = "rclcpp"
      /\ m \in Message /\ messages[m] # Nil /\ messages[m].subscriber = callbacks[k].caller
      /\ ~Queued(callbacks[k].caller, m)
  BY <1>1 DEF LeftQueue
<1>3. PICK p : p = callbacks[k].caller
  OBVIOUS
<1>4. p \in Subscriber /\ subscribers[p] # Nil
  <2>1. callbacks[k] \in CallbackObject
    BY <1>2 DEF IInv, TypeOK
  <2>. QED
    BY <1>2, <1>3, <2>1 DEF IInv, CallerIsAlive, CallbackObject
<1>5. callbacks'[k] # Nil /\ callbacks'[k].caller = p
  BY <1>2, <1>3, CallersStay
<1>6. messages'[m] # Nil /\ messages'[m].subscriber = p
  BY <1>2, <1>3, MessagesStay
<1>7. ~Queued(p, m)'
  BY <1>2, <1>3, <1>4, QueuedBefore
<1>8. ~Queued(callbacks[k].caller, m)'
  BY <1>5, <1>7 DEF Queued
<1>. QED
  BY <1>1, <1>2, <1>5, <1>6, <1>8 DEF LeftQueue, Queued

LEMMA WaitKept ==
  ASSUME IInv, [Next]_vars, NEW k \in Callback, WaitOK(k), takeLatencies'[k] = takeLatencies[k]
  PROVE  WaitOK(k)'
<1>1. SUFFICES ASSUME NEW i \in DOMAIN takeLatencies[k]
               PROVE  Waited(k, takeLatencies[k][i])'
  BY DEF WaitOK
<1>2. PICK l : l = takeLatencies[k][i]
  OBVIOUS
<1>3. LeftQueue(k, l) /\ Single(l.message, takeLatencies[k])
  BY <1>2 DEF WaitOK, Waited
<1>4. LeftQueue(k, l)'
  BY <1>3, LeftForGood
<1>5. Waited(k, l)'
  BY <1>3, <1>4 DEF Waited
<1>. QED
  BY <1>2, <1>5

-----------------------------------------------------------------------------
(* Each step of the analyses. *)
LEMMA QuietStep ==
  ASSUME IInv, LatencyOK, [Next]_vars, messages' = messages, UNCHANGED latencyVars
  PROVE  LatencyOK'
<1>1. LatencyTypeOK'
  BY DEF LatencyOK, LatencyTypeOK, latencyVars
<1>2. \A m \in Message : MessageOK(m)'
  BY MessageKept DEF LatencyOK, latencyVars
<1>3. \A k \in Callback : WaitOK(k)'
  BY WaitKept DEF LatencyOK, latencyVars
<1>. QED
  BY <1>1, <1>2, <1>3 DEF LatencyOK

LEMMA AppRegistrationTouches ==
  ASSUME AppTypeOK, BusyIsReady, AppRegistration
  PROVE  messages' = messages
<1>1. ASSUME NEW n \in NodeHandle, AppNodeAppears(n) PROVE Registration
  BY <1>1 DEF AppNodeAppears, Registration
<1>2. ASSUME NEW x \in Slot, NEW u \in Handles, NEW g \in Gid, CreateRmw(x, u, g)
      PROVE  Registration
  <2>1. u[1] \in RmwHandle
    BY DEF Handles
  <2>. QED
    BY <1>2, <2>1 DEF CreateRmw, Registration
<1>3. ASSUME NEW x \in Slot, NEW t \in Topic, NEW n \in NodeHandle, CreateRcl(x, t, n)
      PROVE  Registration
  BY <1>3, LiveSlot DEF CreateRcl, Registration, In
<1>4. ASSUME NEW x \in Slot, CreateRclcpp(x) PROVE Registration
  BY <1>4, LiveSlot DEF CreateRclcpp, Registration, In
<1>5. ASSUME NEW x \in Slot, AddCallback(x) PROVE Registration
  BY <1>5, LiveSlot DEF AddCallback, Registration, In
<1>6. ASSUME NEW x \in Slot, RegisterCallback(x) PROVE Registration
  BY <1>6, LiveSlot DEF RegisterCallback, Registration, In
<1>7. ASSUME NEW x \in Slot, Destroy(x) PROVE messages' = messages
  BY <1>7 DEF Destroy, vars, heaps
<1>8. ASSUME NEW x \in Slot, EndCallback(x) PROVE messages' = messages
  BY <1>8 DEF EndCallback, CallbackEnd, Fail, Panic, Stop, heaps
<1>. QED
  BY <1>1, <1>2, <1>3, <1>4, <1>5, <1>6, <1>7, <1>8, RegistrationTouches DEF AppRegistration

LEMMA TakenIsFresh ==
  ASSUME AppInv, NEW t \in Thread, NEW x \in Slot, NEW s \in Stamp, TakeRmw(t, x, s)
  PROVE  /\ NewMessage \in Message /\ messages[NewMessage] = Nil
         /\ messages'[NewMessage] # Nil /\ messages'[NewMessage].layers = {"rmw"}
         /\ \A m \in Message : m # NewMessage => messages'[m] = messages[m]
<1>. DEFINE p == Current(x)
            d == [subscriber |-> p, match |-> Matched(s, subscribers[p].topic), layers |-> {"rmw"}]
<1>1. Base /\ TraceInv /\ Live(x) /\ RmwTake(RmwOf(x), AddressOf[t], s, TRUE)
  BY DEF AppInv, AppOK, Base, TakeRmw, In
<1>2. /\ p \in Subscriber /\ p # Nil /\ subscribers[p] \in SubscriberObject
      /\ ~subscribers[p].removed
  BY <1>1, CurrentFields, NilIsNothing
<1>3. FreeMessage /\ messages' = [messages EXCEPT ![NewMessage] = d]
  BY <1>1, <1>2 DEF RmwTake, AssertsLive, Current
<1>4. d # Nil /\ d.layers = {"rmw"}
  <2>1. subscribers[p].topic \in TopicKey
    BY <1>2 DEF SubscriberObject, TopicKey
  <2>2. Matched(s, subscribers[p].topic) \in Maybe(Key)
    BY <2>1 DEF Matched, Maybe, Key, TopicKey
  <2>3. d \in MessageObject
    BY <1>2, <2>2 DEF MessageObject, Maybe, Layer
  <2>. QED
    BY <2>3, NilIsNothing
<1>. HIDE DEF d
<1>5. NewMessage \in Message /\ messages[NewMessage] = Nil
  BY <1>3, FreshMessage
<1>6. messages \in [Message -> MessageObject \cup {Nil}]
  BY DEF AppInv, IInv, TypeOK
<1>. QED
  BY <1>3, <1>4, <1>5, <1>6

LEMMA TakeRmwCounts ==
  ASSUME AppInv, LatencyOK, [Next]_vars, analysis = "running",
         NEW t \in Thread, NEW x \in Slot, NEW s \in Stamp, TakeRmw(t, x, s),
         RmwTaken(NewMessage)
  PROVE  LatencyOK'
<1>1. PICK n : n = NewMessage
  OBVIOUS
<1>2. /\ n \in Message /\ messages[n] = Nil
      /\ messages'[n] # Nil /\ messages'[n].layers = {"rmw"}
      /\ \A m \in Message : m # n => messages'[m] = messages[m]
  BY <1>1, TakenIsFresh
<1>3. pending' = pending \cup {n} /\ UNCHANGED <<latencies, takeLatencies, analysis>>
  BY <1>1 DEF RmwTaken
<1>4. LatencyTypeOK'
  BY <1>2, <1>3, FS_AddElement DEF LatencyOK, LatencyTypeOK
<1>5. ASSUME NEW m \in Message, m # n PROVE MessageOK(m)'
  BY <1>2, <1>3, <1>5, MessageKept DEF LatencyOK
<1>6. MessageOK(n)'
  BY <1>2, <1>3 DEF LatencyOK, MessageOK
<1>7. \A k \in Callback : WaitOK(k)'
  BY <1>3, WaitKept DEF LatencyOK, AppInv
<1>. QED
  BY <1>4, <1>5, <1>6, <1>7 DEF LatencyOK

LEMMA TakeNothingCounts ==
  ASSUME AppInv, LatencyOK, NEW t \in Thread, NEW x \in Slot, TakeNothing(t, x)
  PROVE  UNCHANGED <<vars, appVars>> /\ LatencyOK'
<1>1. Base /\ TraceInv /\ Live(x)
  BY DEF AppInv, AppOK, Base, TakeNothing, In
<1>2. PICK n : n = [nothingFor |-> Current(x)]
  OBVIOUS
<1>3. Current(x) \in Subscriber /\ Current(x) # Nil
  BY <1>1, CurrentFields, NilIsNothing
<1>4. n \in Nothing /\ n \notin Message
  BY <1>2, <1>3, LatenciesAssumption DEF Nothing
<1>5. UNCHANGED <<vars, appVars>>
  BY <1>3 DEF TakeNothing, RmwTake, Current
<1>6. pending' = pending \cup {n} /\ UNCHANGED <<latencies, takeLatencies, analysis>>
  BY <1>2 DEF TakeNothing, RmwTaken, Current
<1>7. LatencyTypeOK'
  BY <1>4, <1>6, FS_AddElement DEF LatencyOK, LatencyTypeOK
<1>8. \A m \in Message : MessageOK(m)'
  BY <1>4, <1>5, <1>6, MessageKept DEF LatencyOK, vars, heaps
<1>9. \A k \in Callback : WaitOK(k)'
  BY <1>5, <1>6, WaitKept DEF LatencyOK, AppInv
<1>. QED
  BY <1>5, <1>7, <1>8, <1>9 DEF LatencyOK

LEMMA TakeRclCounts ==
  ASSUME AppInv, LatencyOK, [Next]_vars, analysis = "running",
         NEW t \in Thread, TakeRcl(t), RclTaken(AddressOf[t])
  PROVE  LatencyOK'
<1>1. PICK n : n = taking[t].message
  OBVIOUS
<1>2. /\ Base /\ TraceInv /\ taking[t] # Nil /\ taking[t].layer = "rmw"
      /\ OuterTake(AddressOf[t], "rcl")
  BY DEF AppInv, AppOK, Base, TakeRcl, RclTake
<1>3. received[AddressOf[t]] = n /\ messages[n] # Nil /\ messages[n].layers = {"rmw"}
  BY <1>1, <1>2 DEF TraceInv, TakingOK
<1>4. /\ n \in Message /\ messages'[n] # Nil /\ messages'[n].layers = {"rmw", "rcl"}
      /\ \A m \in Message : m # n => messages'[m] = messages[m]
      /\ received' = received
  BY <1>1, <1>2, <1>3, OuterTakeFinds DEF Layer
<1>5. MessageOK(n) /\ n \in pending
  BY <1>3, <1>4 DEF LatencyOK, MessageOK
<1>6. ~OuterTakePanics(AddressOf[t], "rcl")
  BY <1>3, <1>5 DEF OuterTakePanics
<1>7. pending' = pending /\ UNCHANGED <<latencies, takeLatencies, analysis>>
  BY <1>3, <1>4, <1>5, <1>6 DEF RclTaken
<1>8. messages'[n].subscriber = messages[n].subscriber
  BY <1>3, <1>4, MessagesStay DEF AppInv
<1>9. MessageOK(n)'
  BY <1>3, <1>4, <1>5, <1>7, <1>8 DEF MessageOK
<1>10. ASSUME NEW m \in Message, m # n PROVE MessageOK(m)'
  BY <1>4, <1>7, <1>10, MessageKept DEF LatencyOK
<1>11. LatencyTypeOK' /\ \A k \in Callback : WaitOK(k)'
  BY <1>7, WaitKept DEF LatencyOK, LatencyTypeOK, AppInv
<1>. QED
  BY <1>9, <1>10, <1>11 DEF LatencyOK

LEMMA TakeRclcppCounts ==
  ASSUME AppInv, LatencyOK, [Next]_vars, analysis = "running",
         NEW t \in Thread, TakeRclcpp(t), RclcppTaken(AddressOf[t])
  PROVE  LatencyOK'
<1>1. PICK n : n = taking[t].message
  OBVIOUS
<1>2. /\ Base /\ TraceInv /\ taking[t] # Nil /\ taking[t].layer = "rcl"
      /\ OuterTake(AddressOf[t], "rclcpp")
  BY DEF AppInv, AppOK, Base, TakeRclcpp, RclcppTake
<1>3. received[AddressOf[t]] = n /\ messages[n] # Nil /\ messages[n].layers = {"rmw", "rcl"}
  BY <1>1, <1>2 DEF TraceInv, TakingOK
<1>4. /\ n \in Message /\ messages'[n] # Nil
      /\ messages'[n].layers = {"rmw", "rcl"} \cup {"rclcpp"}
      /\ \A m \in Message : m # n => messages'[m] = messages[m]
      /\ received' = received
  BY <1>1, <1>2, <1>3, OuterTakeFinds DEF Layer
<1>5. MessageOK(n) /\ n \in pending
  BY <1>3, <1>4 DEF LatencyOK, MessageOK
<1>6. ~OuterTakePanics(AddressOf[t], "rclcpp")
  BY <1>3, <1>5 DEF OuterTakePanics
<1>7. PICK S : S = {n}
  OBVIOUS
<1>8. /\ pending' = pending \ {n} /\ latencies' = Recorded(S)
      /\ UNCHANGED <<takeLatencies, analysis>>
  BY <1>3, <1>4, <1>6, <1>7 DEF RclcppTaken, NoLongerPending
<1>9. S \in SUBSET (Message \cup Nothing) /\ IsFiniteSet(S)
  BY <1>4, <1>7, FS_Singleton
<1>10. latencies \in [Subscriber -> Seq(Latency)]
  BY DEF LatencyOK, LatencyTypeOK
<1>11. latencies' \in [Subscriber -> Seq(Latency)]
  BY <1>8, <1>9, <1>10, RecordedType
<1>12. ASSUME NEW m \in Message, NEW p \in Subscriber
       PROVE  /\ Counted(m, latencies'[p]) <=>
                   Counted(m, latencies[p]) \/ (m = n /\ messages'[m].subscriber = p)
              /\ Single(m, latencies[p])
                   /\ ~(Counted(m, latencies[p]) /\ m = n /\ messages'[m].subscriber = p)
                 => Single(m, latencies'[p])
  BY <1>7, <1>8, <1>9, <1>10, RecordedCounts
<1>13. messages'[n].subscriber = messages[n].subscriber
  BY <1>3, <1>4, MessagesStay DEF AppInv
<1>14. MessageOK(n)'
  BY <1>3, <1>4, <1>5, <1>8, <1>12, <1>13 DEF MessageOK
<1>15. ASSUME NEW m \in Message, m # n PROVE MessageOK(m)'
  <2>1. MessageOK(m) /\ messages'[m] = messages[m] /\ (m \in pending' <=> m \in pending)
    BY <1>4, <1>8, <1>15 DEF LatencyOK
  <2>. QED
    BY <1>8, <1>12, <1>15, <2>1 DEF MessageOK
<1>16. LatencyTypeOK'
  BY <1>8, <1>11, FS_RemoveElement DEF LatencyOK, LatencyTypeOK
<1>17. \A k \in Callback : WaitOK(k)'
  BY <1>8, WaitKept DEF LatencyOK, AppInv
<1>. QED
  BY <1>14, <1>15, <1>16, <1>17 DEF LatencyOK

LEMMA FinalizeCounts ==
  ASSUME AppInv, LatencyOK, analysis = "running", FinalizeLatencies
  PROVE  UNCHANGED <<vars, appVars>> /\ LatencyOK'
<1>1. /\ UNCHANGED <<vars, appVars>> /\ takeLatencies' = takeLatencies
      /\ analysis' = "finalized" /\ pending' = {} /\ latencies' = Recorded(pending)
  BY DEF FinalizeLatencies
<1>2. messages' = messages
  BY <1>1 DEF vars, heaps
<1>3. PICK S : S = pending
  OBVIOUS
<1>4. /\ S \in SUBSET (Message \cup Nothing) /\ IsFiniteSet(S) /\ latencies' = Recorded(S)
      /\ latencies \in [Subscriber -> Seq(Latency)]
  BY <1>1, <1>3 DEF LatencyOK, LatencyTypeOK
<1>5. latencies' \in [Subscriber -> Seq(Latency)]
  BY <1>4, RecordedType
<1>6. ASSUME NEW m \in Message, NEW p \in Subscriber
       PROVE  /\ Counted(m, latencies'[p]) <=>
                   Counted(m, latencies[p]) \/ (m \in pending /\ messages'[m].subscriber = p)
              /\ Single(m, latencies[p])
                   /\ ~(Counted(m, latencies[p]) /\ m \in pending /\ messages'[m].subscriber = p)
                 => Single(m, latencies'[p])
  BY <1>3, <1>4, RecordedCounts
<1>7. ASSUME NEW m \in Message PROVE MessageOK(m)'
  <2>1. MessageOK(m)
    BY DEF LatencyOK
  <2>. QED
    BY <1>1, <1>2, <1>6, <2>1 DEF MessageOK
<1>8. LatencyTypeOK'
  BY <1>1, <1>5, FS_EmptySet DEF LatencyOK, LatencyTypeOK
<1>9. \A k \in Callback : WaitOK(k)'
  BY <1>1, WaitKept DEF LatencyOK, AppInv
<1>. QED
  BY <1>1, <1>7, <1>8, <1>9 DEF LatencyOK

(* What the callback of a slot gets. *)
LEMMA CallbackGets ==
  ASSUME AppInv, NEW x \in Slot, StartCallback(x)
  PROVE  \E k \in Callback, m \in Message :
           /\ k = CallbackAt(x) /\ m = callbacks'[k].running
           /\ Queued(callbacks[k].caller, m)
           /\ \A l : l = LatencyOf(m) => LeftQueue(k, l)'
           /\ messages' = messages
<1>1. PICK k, p, q, z : /\ k = CallbackAt(x) /\ p = Current(x) /\ q = channel[x]
                        /\ z = subscribers[p].taken
  OBVIOUS
<1>2. Base /\ TraceInv
  BY DEF AppInv, AppOK, Base
<1>3. /\ Live(x) /\ slots[x].phase = "ready" /\ In(x, "ready")
      /\ q # << >> /\ CallbackStart(CallbackOf(x))
  BY <1>1 DEF StartCallback, In
<1>4. SlotOK(x) /\ WorkOK(x)
  BY <1>2 DEF TraceInv
<1>5. /\ k \in Callback /\ k # Nil /\ callbacks[k] \in CallbackObject
      /\ callbacks[k].running = Nil /\ callbacks[k].caller = p
  BY <1>1, <1>2, <1>3, <1>4, CallbackFields DEF SlotOK, StartCallback
<1>6. /\ p \in Subscriber /\ subscribers[p] # Nil /\ subscribers[p] \in SubscriberObject
      /\ q \in Seq(Message) /\ z \in Seq(Message)
  BY <1>1, <1>2, <1>3, CurrentFields DEF Base, AppTypeOK
<1>7. \/ z = q
      \/ \E t \in Thread : Takes(t, x) /\ z = Append(q, taking[t].message)
  BY <1>1, <1>3, <1>4 DEF WorkOK
<1>8. \A t \in Thread : Takes(t, x) => taking[t].message \in Message
  BY <1>2, TakingThread DEF Takes, Base
<1>9. z # << >> /\ Head(z) = q[1] /\ q[1] \in Message /\ Head(z) = z[1]
  BY <1>3, <1>6, <1>7, <1>8
<1>10. Complete(q[1])
  BY <1>1, <1>3, <1>4, <1>6 DEF WorkOK
<1>11. PICK m : m = Head(z)
  OBVIOUS
<1>12. m \in Message /\ messages[m] # Nil /\ messages[m].layers = Layer
  BY <1>9, <1>10, <1>11 DEF Complete
<1>13. /\ callbacks' = [callbacks EXCEPT ![k].running = m]
       /\ subscribers' = [subscribers EXCEPT ![p] = AfterPop(@)]
       /\ messages' = messages
  BY <1>1, <1>3, <1>5, <1>9, <1>11 DEF CallbackStart, Continue, CallbackAt
<1>14. callbacks'[k].running = m /\ callbacks'[k].caller = p /\ callbacks'[k] # Nil
  <2>. DEFINE o == [callbacks[k] EXCEPT !.running = m]
  <2>1. o \in CallbackObject /\ o.running = m /\ o.caller = p
    BY <1>5, <1>12 DEF CallbackObject
  <2>2. callbacks' = [callbacks EXCEPT ![k] = o]
    BY <1>13
  <2>. HIDE DEF o
  <2>. QED
    BY <1>2, <1>5, <2>1, <2>2, NilIsNothing DEF Base, IInv, TypeOK
<1>15. subscribers'[p].taken = Tail(z)
  <2>. DEFINE u == AfterPop(subscribers[p])
  <2>1. u.taken = Tail(z)
    BY <1>1, <1>6, <1>9, AfterPopFields
  <2>2. subscribers' = [subscribers EXCEPT ![p] = u]
    BY <1>13
  <2>. HIDE DEF u
  <2>. QED
    BY <1>2, <1>6, <2>1, <2>2 DEF Base, IInv, TypeOK
<1>16. /\ \A i, j \in 1..Len(z) : z[i] = z[j] => i = j
       /\ \A i \in 1..Len(z) : messages[z[i]].subscriber = p
  BY <1>1, <1>2, <1>6 DEF Base, IInv, QueueHoldsOwnMessages
<1>17. messages[m].subscriber = p
  BY <1>6, <1>9, <1>11, <1>16
<1>18. Queued(p, m)
  BY <1>1, <1>6, <1>9, <1>11 DEF Queued
<1>19. ~Queued(p, m)'
  <2>1. SUFFICES ASSUME NEW i \in 1..Len(Tail(z)), Tail(z)[i] = m PROVE FALSE
    BY <1>15 DEF Queued
  <2>2. i + 1 \in 1..Len(z) /\ z[i + 1] = m /\ 1 \in 1..Len(z) /\ z[1] = m /\ i + 1 # 1
    BY <1>6, <1>9, <1>11, <2>1
  <2>. QED
    BY <1>16, <2>2
<1>20. ~Queued(callbacks[k].caller, m)'
  BY <1>14, <1>19 DEF Queued
<1>21. ASSUME NEW l, l = LatencyOf(m) PROVE LeftQueue(k, l)'
  <2>1. l.message = m /\ l.layer = "rclcpp"
    BY <1>12, <1>13, <1>21, LatencyFields DEF OutermostLayer, Layer
  <2>. QED
    BY <1>12, <1>13, <1>14, <1>17, <1>20, <2>1 DEF LeftQueue, Queued
<1>. QED
  BY <1>1, <1>5, <1>12, <1>13, <1>14, <1>18, <1>21

LEMMA StartCallbackCounts ==
  ASSUME AppInv, LatencyOK, [Next]_vars, NEW x \in Slot, StartCallback(x),
         CallbackStarted(callbacksById[CallbackOf(x)])
  PROVE  LatencyOK'
<1>1. PICK k \in Callback, m \in Message :
        /\ k = CallbackAt(x) /\ m = callbacks'[k].running
        /\ Queued(callbacks[k].caller, m)
        /\ \A l : l = LatencyOf(m) => LeftQueue(k, l)'
        /\ messages' = messages
  BY CallbackGets
<1>2. PICK e : e = LatencyOf(m)
  OBVIOUS
<1>3. /\ k \in Callback /\ m \in Message /\ Queued(callbacks[k].caller, m)
      /\ LeftQueue(k, e)' /\ messages' = messages
  BY <1>1, <1>2
<1>4. e \in Latency /\ e.message = m
  BY <1>2, <1>3, LatencyFields
<1>5. /\ takeLatencies' = [takeLatencies EXCEPT ![k] = Append(takeLatencies[k], e)]
      /\ UNCHANGED <<pending, latencies, analysis>>
  BY <1>1, <1>2 DEF CallbackStarted, CallbackAt
<1>6. PICK s : s = takeLatencies[k]
  OBVIOUS
<1>7. /\ s \in Seq(Latency) /\ takeLatencies'[k] = Append(s, e)
      /\ \A j \in Callback : j # k => takeLatencies'[j] = takeLatencies[j]
      /\ takeLatencies' \in [Callback -> Seq(Latency)]
  BY <1>3, <1>4, <1>5, <1>6 DEF LatencyOK, LatencyTypeOK
<1>8. \A i \in DOMAIN s : LeftQueue(k, s[i]) /\ Single(s[i].message, s) /\ s[i].message # m
  BY <1>3, <1>6 DEF LatencyOK, WaitOK, Waited, LeftQueue
<1>9. PICK c : c = Append(s, e)
  OBVIOUS
<1>10. /\ DOMAIN c = 1..(Len(s) + 1) /\ DOMAIN s = 1..Len(s) /\ Len(s) \in Nat
       /\ c[Len(s) + 1] = e /\ \A i \in DOMAIN s : c[i] = s[i]
  BY <1>4, <1>7, <1>9
<1>11. \A i \in DOMAIN c : i = Len(s) + 1 \/ i \in DOMAIN s
  BY <1>10
<1>12. ASSUME NEW i \in DOMAIN c PROVE LeftQueue(k, c[i])'
  <2>1. CASE i = Len(s) + 1
    BY <1>3, <1>10, <2>1
  <2>2. CASE i \in DOMAIN s
    <3>1. PICK l : l = s[i]
      OBVIOUS
    <3>2. LeftQueue(k, l)'
      BY <1>3, <1>8, <2>2, <3>1, LeftForGood DEF AppInv
    <3>. QED
      BY <1>10, <2>2, <3>1, <3>2
  <2>. QED
    BY <1>11, <2>1, <2>2
<1>13. ASSUME NEW i \in DOMAIN c PROVE Single(c[i].message, c)
  <2>1. SUFFICES ASSUME NEW j \in DOMAIN c, NEW h \in DOMAIN c,
                        c[j].message = c[i].message, c[h].message = c[i].message
                 PROVE  j = h
    BY DEF Single
  <2>2. CASE i = Len(s) + 1
    BY <1>4, <1>8, <1>10, <1>11, <2>1, <2>2
  <2>3. CASE i \in DOMAIN s
    BY <1>4, <1>8, <1>10, <1>11, <2>1, <2>3 DEF Single
  <2>. QED
    BY <1>11, <2>2, <2>3
<1>14. WaitOK(k)'
  <2>1. takeLatencies'[k] = c
    BY <1>7, <1>9
  <2>2. \A i \in DOMAIN c : Waited(k, c[i])'
    BY <1>12, <1>13, <2>1 DEF Waited
  <2>. QED
    BY <2>1, <2>2 DEF WaitOK
<1>15. ASSUME NEW j \in Callback, j # k PROVE WaitOK(j)'
  BY <1>7, <1>15, WaitKept DEF LatencyOK, AppInv
<1>16. LatencyTypeOK'
  BY <1>5, <1>7 DEF LatencyOK, LatencyTypeOK
<1>17. \A j \in Message : MessageOK(j)'
  BY <1>3, <1>5, MessageKept DEF LatencyOK
<1>. QED
  BY <1>14, <1>15, <1>16, <1>17 DEF LatencyOK

-----------------------------------------------------------------------------
LatencyInv == AppInv /\ LatencyOK

LEMMA LatencyInitHolds ==
  ASSUME LatencyInit
  PROVE  LatencyInv
<1>1. AppInit /\ AppInv
  BY AppInitHolds DEF LatencyInit
<1>2. LatencyTypeOK
  BY FS_EmptySet DEF LatencyInit, LatencyTypeOK
<1>3. ASSUME NEW m \in Message PROVE MessageOK(m)
  <2>1. messages[m] = Nil /\ pending = {} /\ \A p \in Subscriber : latencies[p] = << >>
    BY <1>1 DEF LatencyInit, AppInit, Init
  <2>. QED
    BY <2>1 DEF MessageOK, Counted, Single
<1>4. ASSUME NEW k \in Callback PROVE WaitOK(k)
  BY DEF LatencyInit, WaitOK
<1>. QED
  BY <1>1, <1>2, <1>3, <1>4 DEF LatencyInv, LatencyOK

(* A step of the analyses is one of the application, or leaves it alone. *)
LEMMA LatencyStepIsAppStep ==
  ASSUME LatencyInv, [LatencyNext]_<<vars, appVars, latencyVars>>
  PROVE  [AppNext]_allVars
<1>1. ASSUME NEW t \in Thread, NEW x \in Slot, TakeNothing(t, x) PROVE UNCHANGED allVars
  BY <1>1, TakeNothingCounts DEF LatencyInv, allVars
<1>2. ASSUME FinalizeLatencies PROVE UNCHANGED allVars
  BY <1>2 DEF FinalizeLatencies, allVars
<1>. QED
  BY <1>1, <1>2 DEF LatencyNext, AppNext, allVars

LEMMA LatencyStepKeeps ==
  ASSUME ~AnyReuse, LatencyInv, [LatencyNext]_<<vars, appVars, latencyVars>>
  PROVE  LatencyInv'
<1>1. AppInv /\ LatencyOK /\ IInv /\ AppTypeOK /\ BusyIsReady
  BY DEF LatencyInv, AppInv, AppOK
<1>2. [AppNext]_allVars
  BY LatencyStepIsAppStep
<1>3. [Next]_vars
  BY <1>1, <1>2, AppStepIsStep DEF AppInv
<1>4. AppInv'
  BY <1>1, <1>2, AppStepKeeps
<1>5. CASE UNCHANGED <<vars, appVars, latencyVars>>
  <2>1. messages' = messages /\ UNCHANGED latencyVars
    BY <1>5 DEF vars, heaps
  <2>. QED
    BY <1>1, <1>3, <1>4, <2>1, QuietStep DEF LatencyInv
<1>6. CASE AppRegistration /\ UNCHANGED latencyVars
  BY <1>1, <1>3, <1>4, <1>6, AppRegistrationTouches, QuietStep DEF LatencyInv
<1>7. CASE LatencyNext
  <2>0. analysis = "running"
    BY <1>7 DEF LatencyNext
  <2>1. ASSUME NEW t \in Thread, NEW x \in Slot, NEW s \in Stamp,
               TakeRmw(t, x, s), RmwTaken(NewMessage)
        PROVE  LatencyOK'
    BY <1>1, <1>3, <2>0, <2>1, TakeRmwCounts
  <2>2. ASSUME NEW t \in Thread, NEW x \in Slot, TakeNothing(t, x) PROVE LatencyOK'
    BY <1>1, <2>2, TakeNothingCounts
  <2>3. ASSUME NEW t \in Thread, TakeRcl(t), RclTaken(AddressOf[t]) PROVE LatencyOK'
    BY <1>1, <1>3, <2>0, <2>3, TakeRclCounts
  <2>4. ASSUME NEW t \in Thread, TakeRclcpp(t), RclcppTaken(AddressOf[t]) PROVE LatencyOK'
    BY <1>1, <1>3, <2>0, <2>4, TakeRclcppCounts
  <2>5. ASSUME NEW x \in Slot, StartCallback(x), CallbackStarted(callbacksById[CallbackOf(x)])
        PROVE  LatencyOK'
    BY <1>1, <1>3, <2>5, StartCallbackCounts
  <2>6. ASSUME FinalizeLatencies PROVE LatencyOK'
    BY <1>1, <2>0, <2>6, FinalizeCounts
  <2>. QED
    BY <1>4, <1>6, <1>7, <2>1, <2>2, <2>3, <2>4, <2>5, <2>6 DEF LatencyNext, LatencyInv
<1>. QED
  BY <1>5, <1>7

LEMMA LatencyInductive ==
  ASSUME ~AnyReuse
  PROVE  LatencySpec => []LatencyInv
<1>1. LatencyInit => LatencyInv
  BY LatencyInitHolds
<1>2. LatencyInv /\ [LatencyNext]_<<vars, appVars, latencyVars>> => LatencyInv'
  BY LatencyStepKeeps
<1>. QED
  BY <1>1, <1>2, PTL DEF LatencySpec

(* The latency analyses only look on: the traces they run over are traces of the
   application (src/src/processor/mod.rs hands an analysis the processed event
   after the registries took it in). *)
THEOREM AnalysesOnlyLookOn ==
  ASSUME ~AnyReuse
  PROVE  LatencySpec => AppSpec
<1>1. LatencyInit => AppInit
  BY DEF LatencyInit
<1>2. LatencyInv /\ [LatencyNext]_<<vars, appVars, latencyVars>> => [AppNext]_allVars
  BY LatencyStepIsAppStep
<1>3. LatencySpec => []LatencyInv
  BY LatencyInductive
<1>. QED
  BY <1>1, <1>2, <1>3, PTL DEF LatencySpec, AppSpec

(* The trace of a correct application never stops the run, however many
   subscriptions are created and destroyed, at whatever addresses, and whatever its
   threads take at once: no handler panics, fails or hangs on it
   (src/src/processor/ros2.rs, the handlers of the subscription half). *)
THEOREM TraceIsAccepted ==
  ASSUME ~AnyReuse
  PROVE  /\ AppSpec => []TraceAccepted
         /\ LatencySpec => []TraceAccepted
<1>1. AppInv => TraceAccepted
  BY DEF AppInv, TraceAccepted
<1>2. AppSpec => []AppInv
  BY AppInductive
<1>3. LatencySpec => AppSpec
  BY AnalysesOnlyLookOn
<1>4. AppSpec => []TraceAccepted
  BY <1>1, <1>2, PTL
<1>. QED
  BY <1>3, <1>4

(* The instance of a running callback has the very message the callback of the
   application got, and the queue of a subscriber is the queue of the application
   with what is being taken: the attribution is exact for every number of
   subscriptions, threads and messages. *)
THEOREM AttributionAlwaysExact ==
  ASSUME ~AnyReuse
  PROVE  /\ AppSpec => []AttributionIsExact
         /\ LatencySpec => []AttributionIsExact
<1>1. AppInv => AttributionIsExact
  BY InvIsExact
<1>2. AppSpec => []AppInv
  BY AppInductive
<1>3. LatencySpec => AppSpec
  BY AnalysesOnlyLookOn
<1>4. AppSpec => []AttributionIsExact
  BY <1>1, <1>2, PTL
<1>. QED
  BY <1>3, <1>4

LEMMA InvCountsOnce ==
  ASSUME LatencyInv
  PROVE  EachMessageCountsOnce
<1>1. analysis \in {"running", "finalized"}
  BY DEF LatencyInv, LatencyOK, LatencyTypeOK
<1>2. ASSUME NEW m \in Message, messages[m] # Nil
      PROVE  /\ m \in pending <=> analysis = "running" /\ "rclcpp" \notin messages[m].layers
             /\ \A p \in Subscriber :
                  Occurrences(m, latencies[p]) =
                    IF p = messages[m].subscriber /\ m \notin pending THEN 1 ELSE 0
  <2>1. MessageOK(m)
    BY DEF LatencyInv, LatencyOK
  <2>2. ASSUME NEW p \in Subscriber
        PROVE  Occurrences(m, latencies[p]) =
                 IF p = messages[m].subscriber /\ m \notin pending THEN 1 ELSE 0
    <3>1. CASE Counted(m, latencies[p])
      BY <1>2, <2>1, <3>1, OnceOccurs DEF MessageOK
    <3>2. CASE ~Counted(m, latencies[p])
      BY <1>2, <2>1, <3>2, NoneOccurs DEF MessageOK
    <3>. QED
      BY <3>1, <3>2
  <2>. QED
    BY <1>2, <2>1, <2>2 DEF MessageOK
<1>. QED
  BY <1>1, <1>2 DEF EachMessageCountsOnce

LEMMA InvWaitsFromTake ==
  ASSUME LatencyInv
  PROVE  WaitingStartsAtTake
<1>1. SUFFICES ASSUME NEW k \in Callback, NEW i \in DOMAIN takeLatencies[k]
               PROVE  LET l == takeLatencies[k][i] IN
                      /\ l.layer = "rclcpp"
                      /\ messages[l.message].subscriber = callbacks[k].caller
                      /\ Occurrences(l.message, takeLatencies[k]) = 1
  BY DEF WaitingStartsAtTake
<1>2. PICK l : l = takeLatencies[k][i]
  OBVIOUS
<1>3. LeftQueue(k, l) /\ Single(l.message, takeLatencies[k])
  BY <1>2 DEF LatencyInv, LatencyOK, WaitOK, Waited
<1>4. Counted(l.message, takeLatencies[k])
  BY <1>2 DEF Counted
<1>5. Occurrences(l.message, takeLatencies[k]) = 1
  BY <1>3, <1>4, OnceOccurs
<1>. QED
  BY <1>2, <1>3, <1>5 DEF LeftQueue

(* MessageLatency records every message once, in the series of its subscriber, and
   its assertions that a message is pending never fail
   (src/src/analysis/message_latency.rs). *)
THEOREM EveryMessageCountsOnce ==
  ASSUME ~AnyReuse
  PROVE  LatencySpec => []EachMessageCountsOnce
<1>1. LatencyInv => EachMessageCountsOnce
  BY InvCountsOnce
<1>2. LatencySpec => []LatencyInv
  BY LatencyInductive
<1>. QED
  BY <1>1, <1>2, PTL

(* MessageTakeToCallbackLatency measures from the last take of the message the
   callback got, and of no message twice
   (src/src/analysis/message_take_to_callback_execution_latency.rs). *)
THEOREM WaitingIsFromTheTake ==
  ASSUME ~AnyReuse
  PROVE  LatencySpec => []WaitingStartsAtTake
<1>1. LatencyInv => WaitingStartsAtTake
  BY InvWaitsFromTake
<1>2. LatencySpec => []LatencyInv
  BY LatencyInductive
<1>. QED
  BY <1>1, <1>2, PTL
=============================================================================
