---------------------------- MODULE Publishers -----------------------------
(***************************************************************************)
(* The publication half of the trace processor: the registries of nodes    *)
(* and publishers, and the objects of published messages on their way      *)
(* through the rclcpp, rcl and rmw layers (src/processor/ros2.rs with the  *)
(* Node, Publisher and PublicationMessage objects of src/model/mod.rs).    *)
(*                                                                         *)
(* The processor runs in one thread and sees one totally ordered stream of *)
(* events.  The stream is arbitrary here: LTTng may discard events and a   *)
(* trace may start in the middle of an execution, so any event may come at *)
(* any time.  PublisherApp restricts the stream to what an application     *)
(* emits.                                                                  *)
(*                                                                         *)
(* A handle stands for an Id<u64>, i.e. an address with its process        *)
(* context.  Arc<Mutex<T>> objects live in two heaps, functions from a     *)
(* pool of references to a record or Nil; a pool bounds how many objects a *)
(* behaviour creates, and no reference is reused.                          *)
(***************************************************************************)
EXTENDS Known

CONSTANTS
  NodeHandle,       \* rcl node handles
  RmwHandle,        \* rmw publisher handles
  RclHandle,        \* rcl publisher handles
  Gid,              \* global ids the middleware gives to publishers
  Topic,            \* topic names
  Rosout,           \* the topic /rosout
  Pointer,          \* addresses of user messages
  Stamp,            \* sender timestamps
  Publisher,        \* references to Publisher objects
  Message,          \* references to PublicationMessage objects
  Nil               \* no reference

Layer == {"rclcpp", "rcl", "rmw"}

(* `layers' are the layers whose publish time of the message is known. *)
PublisherObject ==
  [rmw: Maybe(RmwHandle), rcl: Maybe(RclHandle), gid: Maybe(Gid),
   topic: Maybe(Topic), node: Maybe(NodeHandle), removed: BOOLEAN]

MessageObject ==
  [publisher: Maybe(Publisher), layers: SUBSET Layer, stamp: Maybe(Stamp)]

ASSUME PublishersAssumption ==
  /\ Rosout \in Topic
  /\ Nil \notin Publisher \cup Message \cup PublisherObject \cup MessageObject
  /\ Unknown \notin NodeHandle \cup RmwHandle \cup RclHandle \cup Gid \cup Topic
                      \cup Stamp \cup Publisher

VARIABLES
  outcome,            \* of the run: "running", "failed" (Err) or "panicked"
  nodes,              \* nodes_by_rcl: "absent", "unnamed" or "named"
  nodePublishers,     \* Node::publishers
  publishers,         \* heap of Publisher objects
  publishersByRmw, publishersByRcl,
  messages,           \* heap of PublicationMessage objects
  messagesByRclcpp, messagesByRcl,   \* the two temporary maps
  published           \* published_messages, by timestamp and topic

registry == <<nodes, nodePublishers, publishers, publishersByRmw, publishersByRcl>>
traffic  == <<messages, messagesByRclcpp, messagesByRcl, published>>
vars     == <<outcome, registry, traffic>>

TopicKey == Maybe(Topic)

TypeOK ==
  /\ outcome \in {"running", "failed", "panicked"}
  /\ nodes \in [NodeHandle -> {"absent", "unnamed", "named"}]
  /\ nodePublishers \in [NodeHandle -> SUBSET Publisher]
  /\ publishers \in [Publisher -> PublisherObject \cup {Nil}]
  /\ publishersByRmw \in [RmwHandle -> Publisher \cup {Nil}]
  /\ publishersByRcl \in [RclHandle -> Publisher \cup {Nil}]
  /\ messages \in [Message -> MessageObject \cup {Nil}]
  /\ messagesByRclcpp \in [Pointer -> Message \cup {Nil}]
  /\ messagesByRcl \in [Pointer -> Message \cup {Nil}]
  /\ published \in [Stamp \X TopicKey -> Message \cup {Nil}]

Init ==
  /\ outcome = "running"
  /\ nodes = [n \in NodeHandle |-> "absent"]
  /\ nodePublishers = [n \in NodeHandle |-> {}]
  /\ publishers = [p \in Publisher |-> Nil]
  /\ publishersByRmw = [r \in RmwHandle |-> Nil]
  /\ publishersByRcl = [h \in RclHandle |-> Nil]
  /\ messages = [m \in Message |-> Nil]
  /\ messagesByRclcpp = [a \in Pointer |-> Nil]
  /\ messagesByRcl = [a \in Pointer |-> Nil]
  /\ published = [k \in Stamp \X TopicKey |-> Nil]

-----------------------------------------------------------------------------
(* Publisher objects. *)

DefaultPublisher ==
  [rmw |-> Unknown, rcl |-> Unknown, gid |-> Unknown, topic |-> Unknown,
   node |-> Unknown, removed |-> FALSE]

(* Publisher::rmw_init: accepted unless another handle or gid is known. *)
AcceptsRmwInit(o, r, g) == IsUnknownOrEq(o.rmw, r) /\ IsUnknownOrEq(o.gid, g)

AfterRmwInit(o, r, g) == [o EXCEPT !.rmw = r, !.gid = g]

(* Publisher::rcl_init: accepted once. *)
AcceptsRclInit(o) == IsUnknown(o.rcl)

AfterRclInit(o, h, t, n) == [o EXCEPT !.rcl = h, !.topic = t, !.node = n]

(* Mutated form: stubs are not recognised. *)
IsNeverStub(o) == FALSE
IsStub(o) == IsUnknown(o.gid) /\ IsUnknown(o.topic) /\ IsUnknown(o.node)

(* Mutated form: mark_removed does nothing. *)
AfterNoRemoval(o) == o
AfterRemoval(o) == [o EXCEPT !.removed = TRUE]

(* The publisher rcl_publish makes up for a handle it does not know. *)
Stub(h) == [DefaultPublisher EXCEPT !.rcl = h]

(* The object a new reference denotes; the pool is a bound of the model. *)
FreePublisher == \E p \in Publisher : publishers[p] = Nil
NewPublisher  == CHOOSE p \in Publisher : publishers[p] = Nil

-----------------------------------------------------------------------------
(* PublicationMessage objects. *)

DefaultMessage == [publisher |-> Unknown, layers |-> {}, stamp |-> Unknown]

AfterPublish(o, layer) == [o EXCEPT !.layers = @ \cup {layer}]

(* PublicationMessage::set_publisher asserts that there is none yet; the mutated
   form does not. *)
AcceptsAnyPublisher(o) == TRUE
AcceptsPublisher(o) == IsUnknown(o.publisher)

(* Mutated form: the publisher is not stored. *)
AfterSetNoPublisher(o, p) == o
AfterSetPublisher(o, p) == [o EXCEPT !.publisher = p]

(* HashMap::remove of a temporary map; the mutated form is HashMap::get. *)
Borrowed(map, a) == map
Taken(map, a) == [map EXCEPT ![a] = Nil]

FreeMessage == \E m \in Message : messages[m] = Nil
NewMessage  == CHOOSE m \in Message : messages[m] = Nil

-----------------------------------------------------------------------------
(* A panic unwinds main, an Err makes `run' return: nothing follows either. *)

Panic ==
  /\ outcome' = "panicked"
  /\ UNCHANGED <<registry, traffic>>

Fail ==
  /\ outcome' = "failed"
  /\ UNCHANGED <<registry, traffic>>

Continue == outcome' = outcome

-----------------------------------------------------------------------------
(* Registration events. *)

(* rcl_node_init: a node may exist unnamed because of its /rosout publisher;
   naming it twice is an assertion failure. *)
RclNodeInit(n) ==
  \/ /\ nodes[n] = "named"
     /\ Panic
  \/ /\ nodes[n] # "named"
     /\ nodes' = [nodes EXCEPT ![n] = "named"]
     /\ Continue
     /\ UNCHANGED <<nodePublishers, publishers, publishersByRmw, publishersByRcl, traffic>>

(* rmw_publisher_init.  A publisher already known under the handle with
   another gid is taken for a deleted one and replaced. *)
RmwPublisherInit(r, g) ==
  LET p == publishersByRmw[r] IN
  \/ /\ p = Nil
     /\ FreePublisher
     /\ publishers' = [publishers EXCEPT
                         ![NewPublisher] = AfterRmwInit(DefaultPublisher, r, g)]
     /\ publishersByRmw' = [publishersByRmw EXCEPT ![r] = NewPublisher]
     /\ Continue
     /\ UNCHANGED <<nodes, nodePublishers, publishersByRcl, traffic>>
  \/ /\ p # Nil
     /\ publishers[p].removed
     /\ Panic
  \/ /\ p # Nil
     /\ ~publishers[p].removed
     /\ AcceptsRmwInit(publishers[p], r, g)
     /\ publishers' = [publishers EXCEPT ![p] = AfterRmwInit(@, r, g)]
     /\ Continue
     /\ UNCHANGED <<nodes, nodePublishers, publishersByRmw, publishersByRcl, traffic>>
  \/ /\ p # Nil
     /\ ~publishers[p].removed
     /\ ~AcceptsRmwInit(publishers[p], r, g)
     /\ FreePublisher
     /\ publishers' = [publishers EXCEPT
                         ![p] = AfterRemoval(@),
                         ![NewPublisher] = AfterRmwInit(DefaultPublisher, r, g)]
     /\ publishersByRmw' = [publishersByRmw EXCEPT ![r] = NewPublisher]
     /\ Continue
     /\ UNCHANGED <<nodes, nodePublishers, publishersByRcl, traffic>>

(* The last part of rcl_publisher_init: p, whose object is o, becomes the
   publisher of handle h and of node n; whoever had h before was deleted.  In
   the mutated form the handle is looked up after the insertion. *)
RegisterByRclLate(heap, p, h, n) ==
  /\ publishers' = [heap EXCEPT ![p] = AfterRemoval(@)]
  /\ publishersByRcl' = [publishersByRcl EXCEPT ![h] = p]
  /\ nodePublishers' = [nodePublishers EXCEPT ![n] = @ \cup {p}]
  /\ nodes' = [nodes EXCEPT ![n] = IF @ = "absent" THEN "unnamed" ELSE @]
  /\ Continue
  /\ UNCHANGED traffic

RegisterByRcl(heap, p, h, n) ==
  LET old == publishersByRcl[h] IN
  /\ publishers' = IF old = Nil THEN heap
                   ELSE [heap EXCEPT ![old] = AfterRemoval(@)]
  /\ publishersByRcl' = [publishersByRcl EXCEPT ![h] = p]
  /\ nodePublishers' = [nodePublishers EXCEPT ![n] = @ \cup {p}]
  /\ nodes' = [nodes EXCEPT ![n] = IF @ = "absent" THEN "unnamed" ELSE @]
  /\ Continue
  /\ UNCHANGED traffic

(* rcl_publisher_init.  Only a /rosout publisher may precede its node.  The
   publisher that replaces an initialised one gets no rmw handle. *)
RclPublisherInit(r, h, t, n) ==
  LET p == publishersByRmw[r] IN
  \/ /\ \/ nodes[n] = "absent" /\ t # Rosout
        \/ p # Nil /\ publishers[p].removed
     /\ Panic
  \/ /\ nodes[n] # "absent" \/ t = Rosout
     /\ \/ /\ p = Nil
           /\ FreePublisher
           /\ LET o == [DefaultPublisher EXCEPT !.rmw = r]
              IN  RegisterByRcl([publishers EXCEPT ![NewPublisher] = AfterRclInit(o, h, t, n)],
                                NewPublisher, h, n)
           /\ publishersByRmw' = [publishersByRmw EXCEPT ![r] = NewPublisher]
        \/ /\ p # Nil
           /\ ~publishers[p].removed
           /\ AcceptsRclInit(publishers[p])
           /\ RegisterByRcl([publishers EXCEPT ![p] = AfterRclInit(@, h, t, n)], p, h, n)
           /\ UNCHANGED publishersByRmw
        \/ /\ p # Nil
           /\ ~publishers[p].removed
           /\ ~AcceptsRclInit(publishers[p])
           /\ FreePublisher
           /\ RegisterByRcl([publishers EXCEPT
                               ![p] = AfterRemoval(@),
                               ![NewPublisher] = AfterRclInit(DefaultPublisher, h, t, n)],
                            NewPublisher, h, n)
           /\ publishersByRmw' = [publishersByRmw EXCEPT ![r] = NewPublisher]

-----------------------------------------------------------------------------
(* Publication events, from the outermost layer inwards. *)

(* rclcpp_publish: always a new message object, whatever the address held. *)
RclcppPublish(a) ==
  /\ FreeMessage
  /\ messages' = [messages EXCEPT ![NewMessage] = AfterPublish(DefaultMessage, "rclcpp")]
  /\ messagesByRclcpp' = [messagesByRclcpp EXCEPT ![a] = NewMessage]
  /\ Continue
  /\ UNCHANGED <<registry, messagesByRcl, published>>

(* rclcpp_intra_publish reads the message without taking it out of the map. *)
RclcppIntraPublish(a, h) ==
  LET m == messagesByRclcpp[a]
      p == publishersByRcl[h]
  IN
  \/ /\ m = Nil \/ p = Nil
     /\ Fail
  \/ /\ m # Nil /\ p # Nil
     /\ ~AcceptsPublisher(messages[m])
     /\ Panic
  \/ /\ m # Nil /\ p # Nil
     /\ AcceptsPublisher(messages[m])
     /\ messages' = [messages EXCEPT ![m] = AfterSetPublisher(@, p)]
     /\ Continue
     /\ UNCHANGED <<registry, messagesByRclcpp, messagesByRcl, published>>

(* rcl_publish moves the message from one temporary map to the other.  A
   handle never seen before gets a stub publisher. *)
RclPublish(a, h) ==
  LET m == IF messagesByRclcpp[a] = Nil THEN NewMessage ELSE messagesByRclcpp[a]
      o == IF messagesByRclcpp[a] = Nil THEN DefaultMessage ELSE messages[m]
      p == IF publishersByRcl[h] = Nil THEN NewPublisher ELSE publishersByRcl[h]
  IN
  \/ /\ ~AcceptsPublisher(o)
     /\ Panic
  \/ /\ AcceptsPublisher(o)
     /\ messagesByRclcpp[a] = Nil => FreeMessage
     /\ publishersByRcl[h] = Nil => FreePublisher
     /\ messagesByRclcpp' = Taken(messagesByRclcpp, a)
     /\ messagesByRcl' = [messagesByRcl EXCEPT ![a] = m]
     /\ messages' = [messages EXCEPT ![m] = AfterPublish(AfterSetPublisher(o, p), "rcl")]
     /\ publishersByRcl' = [publishersByRcl EXCEPT ![h] = p]
     /\ publishers' = IF publishersByRcl[h] # Nil THEN publishers
                      ELSE [publishers EXCEPT ![p] = Stub(h)]
     /\ Continue
     /\ UNCHANGED <<nodes, nodePublishers, publishersByRmw, published>>

(* The end of rmw_publish: m, now with object o, leaves the temporary map and
   is filed under its timestamp and topic when the event has a timestamp.  The
   file is what rmw_take looks messages up in. *)
FilePublished(a, m, o, s, topic) ==
  /\ messagesByRcl' = Taken(messagesByRcl, a)
  /\ messages' = [messages EXCEPT ![m] = [AfterPublish(o, "rmw") EXCEPT !.stamp = s]]
  /\ published' = IF IsUnknown(s) THEN published
                  ELSE [published EXCEPT ![<<s, topic>>] = m]
  /\ Continue
  /\ UNCHANGED <<nodes, nodePublishers, publishersByRmw, messagesByRclcpp>>

(* rmw_publish.  The event names the rmw publisher only in newer ROS versions
   (r may be Unknown), and so for the timestamp s.  The publisher rcl_publish
   attached and the one registered for r must be the same, unless the former is
   a stub: then the latter takes over the message and the stub's rcl handle. *)
RmwPublish(a, r, s) ==
  LET queued == messagesByRcl[a]
      m == IF queued = Nil THEN NewMessage ELSE queued
      o == IF queued = Nil THEN DefaultMessage ELSE messages[m]
      byRmw == IF IsUnknown(r) THEN Nil ELSE publishersByRmw[r]
      attached == o.publisher
  IN
  /\ queued = Nil => FreeMessage
  /\ \/ /\ IsKnown(attached)
        /\ byRmw = Nil \/ byRmw = attached
        /\ FilePublished(a, m, o, s, publishers[attached].topic)
        /\ UNCHANGED <<publishers, publishersByRcl>>
     \/ /\ IsKnown(attached)
        /\ byRmw # Nil /\ byRmw # attached
        /\ IsStub(publishers[attached])
        /\ LET h == publishers[attached].rcl IN
           /\ publishersByRcl' = [publishersByRcl EXCEPT ![h] = byRmw]
           /\ publishers' = [publishers EXCEPT ![byRmw].rcl = h]
        /\ FilePublished(a, m, AfterSetPublisher(o, byRmw), s, publishers[byRmw].topic)
     \/ /\ IsKnown(attached)
        /\ byRmw # Nil /\ byRmw # attached
        /\ ~IsStub(publishers[attached])
        /\ FilePublished(a, m, o, s, Unknown)
        /\ UNCHANGED <<publishers, publishersByRcl>>
     \/ /\ IsUnknown(attached)
        /\ byRmw # Nil
        /\ FilePublished(a, m, AfterSetPublisher(o, byRmw), s, publishers[byRmw].topic)
        /\ UNCHANGED <<publishers, publishersByRcl>>
     \/ /\ IsUnknown(attached)
        /\ byRmw = Nil
        /\ FilePublished(a, m, o, s, Unknown)
        /\ UNCHANGED <<publishers, publishersByRcl>>

-----------------------------------------------------------------------------
Registration ==
  \/ \E n \in NodeHandle : RclNodeInit(n)
  \/ \E r \in RmwHandle, g \in Gid : RmwPublisherInit(r, g)
  \/ \E r \in RmwHandle, h \in RclHandle, t \in Topic, n \in NodeHandle :
       RclPublisherInit(r, h, t, n)

Publication ==
  \E a \in Pointer :
    \/ RclcppPublish(a)
    \/ \E h \in RclHandle : RclcppIntraPublish(a, h) \/ RclPublish(a, h)
    \/ \E r \in Maybe(RmwHandle), s \in Maybe(Stamp) : RmwPublish(a, r, s)

Next == outcome = "running" /\ (Registration \/ Publication)

Spec == Init /\ [][Next]_vars
-----------------------------------------------------------------------------
(* What holds of the processor whatever events it is fed. *)

Registered(p) == p \in Publisher /\ publishers[p] # Nil

Waiting(m) == \E a \in Pointer : m \in {messagesByRclcpp[a], messagesByRcl[a]}

(* References in the registries, in the nodes and in the messages denote
   existing objects. *)
NoDanglingReference ==
  /\ \A r \in RmwHandle : publishersByRmw[r] # Nil => Registered(publishersByRmw[r])
  /\ \A h \in RclHandle : publishersByRcl[h] # Nil => Registered(publishersByRcl[h])
  /\ \A n \in NodeHandle : \A p \in nodePublishers[n] : Registered(p)
  /\ \A a \in Pointer :
       /\ messagesByRclcpp[a] # Nil => messages[messagesByRclcpp[a]] # Nil
       /\ messagesByRcl[a] # Nil => messages[messagesByRcl[a]] # Nil
  /\ \A k \in Stamp \X TopicKey : published[k] # Nil => messages[published[k]] # Nil
  /\ \A m \in Message :
       messages[m] # Nil /\ IsKnown(messages[m].publisher) => Registered(messages[m].publisher)

(* A message object waits under one address of one temporary map, having passed
   exactly the layers that map stands for, and a filed one no longer waits: the
   assertions "rcl_publish_time already set" and "rmw_publish already called"
   of PublicationMessage cannot fail, whatever addresses are reused. *)
WaitsInOnePlace ==
  /\ \A a \in Pointer : messagesByRclcpp[a] # Nil =>
       /\ messages[messagesByRclcpp[a]].layers = {"rclcpp"}
       /\ \A b \in Pointer : messagesByRclcpp[b] = messagesByRclcpp[a] => a = b
  /\ \A a \in Pointer : messagesByRcl[a] # Nil =>
       /\ messages[messagesByRcl[a]].layers \in {{"rcl"}, {"rclcpp", "rcl"}}
       /\ \A b \in Pointer : messagesByRcl[b] = messagesByRcl[a] => a = b

(* rmw_publish unwraps the rcl handle of the publisher a waiting message
   carries.  It is known, because every publisher found through the rcl
   registry, stubs included, has an rcl handle and none ever loses it. *)
AttachedHasRclHandle ==
  /\ \A h \in RclHandle :
       publishersByRcl[h] # Nil => IsKnown(publishers[publishersByRcl[h]].rcl)
  /\ \A m \in Message :
       messages[m] # Nil /\ "rcl" \in messages[m].layers /\ "rmw" \notin messages[m].layers
         => /\ IsKnown(messages[m].publisher)
            /\ IsKnown(publishers[messages[m].publisher].rcl)

(* A message is filed under one key at most, with its own timestamp, and a key
   that names a topic names the topic of the publisher of the message: rmw_take
   never finds a message of another topic there. *)
FiledUnderItsTopic ==
  \A s \in Stamp, t \in TopicKey :
    LET m == published[<<s, t>>] IN
    m # Nil =>
      /\ messages[m].stamp = s
      /\ "rmw" \in messages[m].layers
      /\ IsKnown(t) => /\ IsKnown(messages[m].publisher)
                       /\ publishers[messages[m].publisher].topic = t
      /\ \A k \in Stamp \X TopicKey : published[k] = m => k = <<s, t>>

(* A publisher is dropped from the rmw registry only after it was marked
   removed: a live one is always found under its own rmw handle and no other. *)
LiveIsFoundByRmw ==
  /\ \A p \in Publisher :
       publishers[p] # Nil /\ ~publishers[p].removed /\ IsKnown(publishers[p].rmw)
         => publishersByRmw[publishers[p].rmw] = p
  /\ \A r \in RmwHandle :
       publishersByRmw[r] # Nil =>
         /\ publishers[publishersByRmw[r]].rmw \in {r, Unknown}
         /\ \A q \in RmwHandle : publishersByRmw[q] = publishersByRmw[r] => q = r

-----------------------------------------------------------------------------
(* What a step may never do. *)

(* Only rmw_publish, and only for a stub, moves a message to another publisher;
   once the message passed rmw its publisher is final. *)
OnlyStubsAreReplaced ==
  [][ \A m \in Message :
        /\ messages[m] # Nil
        /\ IsKnown(messages[m].publisher)
        /\ messages'[m].publisher # messages[m].publisher
        => /\ IsStub(publishers[messages[m].publisher])
           /\ "rmw" \notin messages[m].layers ]_vars
=============================================================================
