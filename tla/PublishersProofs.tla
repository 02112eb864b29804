-------------------------- MODULE PublishersProofs --------------------------
(***************************************************************************)
(* Proofs about Publishers, for every set of handles, topics, addresses,   *)
(* timestamps and objects, and about PublisherApp: the complete trace of   *)
(* an application is processed to its end and its publications are filed,  *)
(* if freed addresses are reused only in pairs (~AnyReuse; the run with    *)
(* AnyReuse shows why).                                                    *)
(*                                                                         *)
(* TypeOK is not inductive: an action updates the object a registry, a     *)
(* temporary map or a message refers to, and keeps its type only when the  *)
(* reference does not dangle.  RefsOK is TypeOK with the references        *)
(* restricted to the objects that exist, and is inductive.                 *)
(*                                                                         *)
(* The application only takes steps Publishers takes, so the invariants    *)
(* hold of it (Base).  TraceInv ties the registries and the messages on    *)
(* their way to the slots of the application.  It holds because an rcl     *)
(* address, once used, belongs to one rmw address for good (Owned), so the *)
(* registry of rcl handles never has another slot's publisher under the    *)
(* handle of a slot.                                                       *)
(***************************************************************************)
EXTENDS PublisherApp, TLAPS

(* The objects that exist. *)
Made == {p \in Publisher : publishers[p] # Nil}
MadeMessage == {m \in Message : messages[m] # Nil}

RegistryOK ==
  /\ nodes \in [NodeHandle -> {"absent", "unnamed", "named"}]
  /\ nodePublishers \in [NodeHandle -> SUBSET Made]
  /\ publishers \in [Publisher -> PublisherObject \cup {Nil}]
  /\ publishersByRmw \in [RmwHandle -> Made \cup {Nil}]
  /\ publishersByRcl \in [RclHandle -> Made \cup {Nil}]

TrafficOK ==
  /\ messages \in [Message -> MessageObject \cup {Nil}]
  /\ messagesByRclcpp \in [Pointer -> MadeMessage \cup {Nil}]
  /\ messagesByRcl \in [Pointer -> MadeMessage \cup {Nil}]
  /\ published \in [Stamp \X TopicKey -> MadeMessage \cup {Nil}]
  /\ \A m \in MadeMessage : messages[m].publisher \in Maybe(Made)

OutcomeOK == outcome \in {"running", "failed", "panicked"}

RefsOK == OutcomeOK /\ RegistryOK /\ TrafficOK

-----------------------------------------------------------------------------
(* References a `new' object is given are fresh. *)
LEMMA FreshPublisher ==
  ASSUME FreePublisher
  PROVE  NewPublisher \in Publisher /\ publishers[NewPublisher] = Nil
  BY DEF FreePublisher, NewPublisher

LEMMA FreshMessage ==
  ASSUME FreeMessage
  PROVE  NewMessage \in Message /\ messages[NewMessage] = Nil
  BY DEF FreeMessage, NewMessage

(* Nil is no reference and no object. *)
LEMMA NilIsNothing ==
  /\ Nil \notin Publisher
  /\ Nil \notin Message
  /\ Nil \notin PublisherObject
  /\ Nil \notin MessageObject
  BY PublishersAssumption

(* What the methods of Publisher make of an object is an object. *)
LEMMA DefaultPublisherType == DefaultPublisher \in PublisherObject
  BY DEF DefaultPublisher, PublisherObject, Maybe

LEMMA AfterRmwInitType ==
  ASSUME NEW o \in PublisherObject, NEW r \in RmwHandle, NEW g \in Gid
  PROVE  AfterRmwInit(o, r, g) \in PublisherObject
  BY DEF AfterRmwInit, PublisherObject, Maybe

LEMMA AfterRclInitType ==
  ASSUME NEW o \in PublisherObject,
         NEW h \in RclHandle, NEW t \in Topic, NEW n \in NodeHandle
  PROVE  AfterRclInit(o, h, t, n) \in PublisherObject
  BY DEF AfterRclInit, PublisherObject, Maybe

LEMMA AfterRemovalType ==
  ASSUME NEW o \in PublisherObject
  PROVE  AfterRemoval(o) \in PublisherObject
  BY DEF AfterRemoval, PublisherObject

LEMMA StubType ==
  ASSUME NEW h \in RclHandle
  PROVE  Stub(h) \in PublisherObject
  BY DefaultPublisherType DEF Stub, PublisherObject, Maybe

(* The same for PublicationMessage. *)
LEMMA DefaultMessageType == DefaultMessage \in MessageObject
  BY DEF DefaultMessage, MessageObject, Maybe

LEMMA AfterPublishType ==
  ASSUME NEW o \in MessageObject, NEW layer \in Layer
  PROVE  AfterPublish(o, layer) \in MessageObject /\ AfterPublish(o, layer).publisher = o.publisher
  BY DEF AfterPublish, MessageObject

LEMMA AfterSetPublisherType ==
  ASSUME NEW o \in MessageObject, NEW p \in Publisher
  PROVE  AfterSetPublisher(o, p) \in MessageObject /\ AfterSetPublisher(o, p).publisher = p
  BY DEF AfterSetPublisher, MessageObject, Maybe

LEMMA TakenType ==
  ASSUME NEW S, NEW map \in [Pointer -> S \cup {Nil}], NEW a \in Pointer
  PROVE  Taken(map, a) \in [Pointer -> S \cup {Nil}]
  BY DEF Taken

-----------------------------------------------------------------------------
(* Writing an object to the heap: objects that exist go on existing. *)
LEMMA PublisherWrite ==
  ASSUME NEW heap \in [Publisher -> PublisherObject \cup {Nil}],
         NEW p \in Publisher, NEW o \in PublisherObject
  PROVE  LET after == [heap EXCEPT ![p] = o] IN
         /\ after \in [Publisher -> PublisherObject \cup {Nil}]
         /\ after[p] # Nil
         /\ \A q \in Publisher : heap[q] # Nil => after[q] # Nil
  BY NilIsNothing

LEMMA MessageWrite ==
  ASSUME NEW m \in Message, NEW o \in MessageObject,
         messages \in [Message -> MessageObject \cup {Nil}],
         messages' = [messages EXCEPT ![m] = o]
  PROVE  /\ messages' \in [Message -> MessageObject \cup {Nil}]
         /\ m \in MadeMessage'
         /\ MadeMessage \subseteq MadeMessage'
  BY NilIsNothing DEF MadeMessage

(* The registry part when no object disappears and the changed entries refer to
   existing objects; the traffic part when only publishers change. *)
LEMMA TrafficKept ==
  ASSUME TrafficOK, UNCHANGED traffic, Made \subseteq Made'
  PROVE  TrafficOK'
<1>1. MadeMessage' = MadeMessage
  BY DEF traffic, MadeMessage
<1>. QED
  BY <1>1 DEF TrafficOK, traffic, Maybe

LEMMA RegistryWidens ==
  ASSUME RegistryOK, Made \subseteq Made'
  PROVE  /\ nodePublishers \in [NodeHandle -> SUBSET Made']
         /\ publishersByRmw \in [RmwHandle -> Made' \cup {Nil}]
         /\ publishersByRcl \in [RclHandle -> Made' \cup {Nil}]
<1>1. \A S, T : S \subseteq T => SUBSET S \subseteq SUBSET T
  OBVIOUS
<1>. QED
  BY <1>1 DEF RegistryOK

LEMMA HeapGrows ==
  ASSUME publishers \in [Publisher -> PublisherObject \cup {Nil}],
         \A q \in Publisher : publishers[q] # Nil => publishers'[q] # Nil
  PROVE  Made \subseteq Made'
  BY DEF Made

(* Writing one object, existing or new, to the heap of publishers. *)
LEMMA MadeGrows ==
  ASSUME RegistryOK, NEW p \in Publisher, NEW o \in PublisherObject,
         publishers' = [publishers EXCEPT ![p] = o]
  PROVE  /\ publishers' \in [Publisher -> PublisherObject \cup {Nil}]
         /\ p \in Made'
         /\ Made \subseteq Made'
<1>1. publishers \in [Publisher -> PublisherObject \cup {Nil}]
  BY DEF RegistryOK
<1>. QED
  BY <1>1, PublisherWrite, HeapGrows DEF Made

(* Marking one object removed and writing a new one. *)
LEMMA MadeGrowsTwice ==
  ASSUME RegistryOK, NEW p \in Publisher, NEW q \in Publisher,
         NEW o \in PublisherObject, NEW u \in PublisherObject,
         publishers' = [publishers EXCEPT ![p] = o, ![q] = u]
  PROVE  /\ publishers' \in [Publisher -> PublisherObject \cup {Nil}]
         /\ p \in Made' /\ q \in Made'
         /\ Made \subseteq Made'
<1>. DEFINE first == [publishers EXCEPT ![p] = o]
<1>1. publishers \in [Publisher -> PublisherObject \cup {Nil}]
  BY DEF RegistryOK
<1>2. /\ first \in [Publisher -> PublisherObject \cup {Nil}]
      /\ first[p] # Nil
      /\ \A x \in Publisher : publishers[x] # Nil => first[x] # Nil
  BY <1>1, PublisherWrite
<1>3. publishers' = [first EXCEPT ![q] = u]
  OBVIOUS
<1>. HIDE DEF first
<1>4. /\ publishers' \in [Publisher -> PublisherObject \cup {Nil}]
      /\ publishers'[q] # Nil
      /\ \A x \in Publisher : first[x] # Nil => publishers'[x] # Nil
  BY <1>2, <1>3, PublisherWrite
<1>. QED
  BY <1>1, <1>2, <1>4, HeapGrows DEF Made

(* The objects references of the registries denote. *)
LEMMA MadeObject ==
  ASSUME RegistryOK, NEW p \in Made
  PROVE  p \in Publisher /\ publishers[p] \in PublisherObject
  BY DEF RegistryOK, Made

LEMMA MadeMessageObject ==
  ASSUME TrafficOK, NEW m \in MadeMessage
  PROVE  m \in Message /\ messages[m] \in MessageObject
  BY DEF TrafficOK, MadeMessage

-----------------------------------------------------------------------------
(* One lemma per action: it keeps the references. *)
LEMMA StopKeepsRefs ==
  ASSUME RefsOK, Panic \/ Fail
  PROVE  RefsOK'
<1>1. OutcomeOK'
  BY DEF Panic, Fail, OutcomeOK
<1>2. RegistryOK'
  BY DEF Panic, Fail, registry, RefsOK, RegistryOK, Made
<1>3. TrafficOK'
  BY <1>2, TrafficKept DEF Panic, Fail, registry, RefsOK, Made
<1>. QED
  BY <1>1, <1>2, <1>3 DEF RefsOK

LEMMA RclNodeInitKeepsRefs ==
  ASSUME RefsOK, NEW n \in NodeHandle, RclNodeInit(n)
  PROVE  RefsOK'
<1>1. CASE Panic
  BY <1>1, StopKeepsRefs
<1>2. CASE nodes' = [nodes EXCEPT ![n] = "named"] /\ ~Panic
  <2>1. OutcomeOK'
    BY <1>2 DEF RclNodeInit, Continue, OutcomeOK, RefsOK
  <2>2. RegistryOK'
    BY <1>2 DEF RclNodeInit, RegistryOK, RefsOK, Made
  <2>3. TrafficOK'
    BY <1>2, TrafficKept DEF RclNodeInit, RefsOK, Made
  <2>. QED
    BY <2>1, <2>2, <2>3 DEF RefsOK
<1>. QED
  BY <1>1, <1>2 DEF RclNodeInit

LEMMA RmwPublisherInitKeepsRefs ==
  ASSUME RefsOK, NEW r \in RmwHandle, NEW g \in Gid, RmwPublisherInit(r, g)
  PROVE  RefsOK'
<1>. DEFINE p == publishersByRmw[r]
            q == NewPublisher
            new == AfterRmwInit(DefaultPublisher, r, g)
<1>0. RegistryOK /\ TrafficOK /\ OutcomeOK /\ p \in Made \cup {Nil}
  BY DEF RefsOK, RegistryOK
<1>1. new \in PublisherObject
  BY DefaultPublisherType, AfterRmwInitType
<1>. HIDE DEF new
<1>2. CASE p = Nil
  <2>1. /\ q \in Publisher
        /\ publishers' = [publishers EXCEPT ![q] = new]
        /\ publishersByRmw' = [publishersByRmw EXCEPT ![r] = q]
        /\ outcome' = outcome
        /\ UNCHANGED <<nodes, nodePublishers, publishersByRcl, traffic>>
    BY <1>2, FreshPublisher DEF RmwPublisherInit, Continue, new
  <2>2. /\ publishers' \in [Publisher -> PublisherObject \cup {Nil}]
        /\ q \in Made' /\ Made \subseteq Made'
    BY <1>0, <1>1, <2>1, MadeGrows
  <2>3. RegistryOK'
    BY <1>0, <2>1, <2>2, RegistryWidens DEF RegistryOK
  <2>. QED
    BY <1>0, <2>1, <2>2, <2>3, TrafficKept DEF RefsOK, OutcomeOK
<1>3. CASE Panic
  BY <1>3, StopKeepsRefs
<1>4. CASE /\ p # Nil
           /\ publishers' = [publishers EXCEPT ![p] = AfterRmwInit(@, r, g)]
           /\ outcome' = outcome
           /\ UNCHANGED <<nodes, nodePublishers, publishersByRmw, publishersByRcl, traffic>>
  <2>1. p \in Publisher /\ AfterRmwInit(publishers[p], r, g) \in PublisherObject
    BY <1>0, <1>4, MadeObject, AfterRmwInitType
  <2>2. /\ publishers' \in [Publisher -> PublisherObject \cup {Nil}]
        /\ Made \subseteq Made'
    BY <1>0, <1>4, <2>1, MadeGrows
  <2>3. RegistryOK'
    BY <1>0, <1>4, <2>2, RegistryWidens DEF RegistryOK
  <2>. QED
    BY <1>0, <1>4, <2>2, <2>3, TrafficKept DEF RefsOK, OutcomeOK
<1>5. CASE /\ p # Nil
           /\ FreePublisher
           /\ publishers' = [publishers EXCEPT ![p] = AfterRemoval(@), ![q] = new]
           /\ publishersByRmw' = [publishersByRmw EXCEPT ![r] = q]
           /\ outcome' = outcome
           /\ UNCHANGED <<nodes, nodePublishers, publishersByRcl, traffic>>
  <2>1. /\ p \in Publisher /\ AfterRemoval(publishers[p]) \in PublisherObject
        /\ q \in Publisher
    BY <1>0, <1>5, MadeObject, AfterRemovalType, FreshPublisher
  <2>2. publishers' = [publishers EXCEPT ![p] = AfterRemoval(publishers[p]), ![q] = new]
    BY <1>5
  <2>3. /\ publishers' \in [Publisher -> PublisherObject \cup {Nil}]
        /\ q \in Made' /\ Made \subseteq Made'
    BY <1>0, <1>1, <2>1, <2>2, MadeGrowsTwice
  <2>4. RegistryOK'
    BY <1>0, <1>5, <2>3, RegistryWidens DEF RegistryOK
  <2>. QED
    BY <1>0, <1>5, <2>3, <2>4, TrafficKept DEF RefsOK, OutcomeOK
<1>. QED
  BY <1>0, <1>2, <1>3, <1>4, <1>5 DEF RmwPublisherInit, Continue, new

(* A heap in which no object disappeared. *)
Extends(heap) ==
  /\ heap \in [Publisher -> PublisherObject \cup {Nil}]
  /\ \A q \in Publisher : publishers[q] # Nil => heap[q] # Nil

LEMMA ExtendsWrite ==
  ASSUME NEW heap, Extends(heap), NEW p \in Publisher, NEW o \in PublisherObject
  PROVE  LET after == [heap EXCEPT ![p] = o] IN
         /\ Extends(after)
         /\ after[p] # Nil
         /\ \A q \in Publisher : heap[q] # Nil => after[q] # Nil
  BY PublisherWrite DEF Extends

LEMMA RegisterKeepsRefs ==
  ASSUME RefsOK, NEW heap, Extends(heap),
         NEW p \in Publisher, heap[p] # Nil,
         NEW r \in RmwHandle, NEW h \in RclHandle, NEW n \in NodeHandle,
         RegisterByRcl(heap, p, h, n),
         \/ UNCHANGED publishersByRmw
         \/ publishersByRmw' = [publishersByRmw EXCEPT ![r] = p]
  PROVE  RefsOK'
<1>. DEFINE old == publishersByRcl[h]
<1>0. RegistryOK /\ TrafficOK /\ OutcomeOK /\ old \in Made \cup {Nil}
  BY DEF RefsOK, RegistryOK
<1>1. Extends(publishers') /\ publishers'[p] # Nil
  <2>1. CASE old = Nil
    BY <2>1 DEF RegisterByRcl
  <2>2. CASE old # Nil
    <3>1. old \in Publisher /\ heap[old] \in PublisherObject
      BY <1>0, <2>2 DEF Made, Extends
    <3>2. AfterRemoval(heap[old]) \in PublisherObject
      BY <3>1, AfterRemovalType
    <3>3. publishers' = [heap EXCEPT ![old] = AfterRemoval(heap[old])]
      BY <2>2 DEF RegisterByRcl
    <3>. DEFINE after == [heap EXCEPT ![old] = AfterRemoval(heap[old])]
    <3>4. /\ Extends(after)
          /\ \A q \in Publisher : heap[q] # Nil => after[q] # Nil
      BY <3>1, <3>2, ExtendsWrite
    <3>. QED
      BY <3>3, <3>4
  <2>. QED
    BY <2>1, <2>2
<1>2. p \in Made' /\ Made \subseteq Made'
  BY <1>1 DEF Made, Extends
<1>3. RegistryOK'
  <2>1. nodes' \in [NodeHandle -> {"absent", "unnamed", "named"}]
    BY <1>0 DEF RegisterByRcl, RegistryOK
  <2>2. nodePublishers' \in [NodeHandle -> SUBSET Made']
    <3>1. nodePublishers \in [NodeHandle -> SUBSET Made']
      BY <1>0, <1>2, RegistryWidens
    <3>2. nodePublishers' = [nodePublishers EXCEPT ![n] = nodePublishers[n] \cup {p}]
      BY DEF RegisterByRcl
    <3>3. nodePublishers[n] \cup {p} \in SUBSET Made'
      BY <1>2, <3>1
    <3>. QED
      BY <3>1, <3>2, <3>3
  <2>3. publishersByRmw' \in [RmwHandle -> Made' \cup {Nil}]
    BY <1>0, <1>2, RegistryWidens
  <2>4. publishersByRcl' \in [RclHandle -> Made' \cup {Nil}]
    BY <1>0, <1>2, RegistryWidens DEF RegisterByRcl
  <2>. QED
    BY <1>1, <2>1, <2>2, <2>3, <2>4 DEF RegistryOK, Extends
<1>. QED
  BY <1>0, <1>2, <1>3, TrafficKept DEF RegisterByRcl, Continue, RefsOK, OutcomeOK

LEMMA RclPublisherInitKeepsRefs ==
  ASSUME RefsOK, NEW r \in RmwHandle, NEW h \in RclHandle, NEW t \in Topic,
         NEW n \in NodeHandle, RclPublisherInit(r, h, t, n)
  PROVE  RefsOK'
<1>. DEFINE p == publishersByRmw[r]
            q == NewPublisher
<1>0. RegistryOK /\ p \in Made \cup {Nil} /\ Extends(publishers)
  BY DEF RefsOK, RegistryOK, Extends
<1>1. CASE Panic
  BY <1>1, StopKeepsRefs
<1>2. CASE p = Nil /\ ~Panic
  <2>. DEFINE o == [DefaultPublisher EXCEPT !.rmw = r]
              new == AfterRclInit(o, h, t, n)
  <2>1. new \in PublisherObject
    <3>1. o \in PublisherObject
      BY DefaultPublisherType DEF PublisherObject, Maybe
    <3>. QED
      BY <3>1, AfterRclInitType
  <2>. HIDE DEF new
  <2>2. /\ q \in Publisher
        /\ RegisterByRcl([publishers EXCEPT ![q] = new], q, h, n)
        /\ publishersByRmw' = [publishersByRmw EXCEPT ![r] = q]
    BY <1>2, FreshPublisher DEF RclPublisherInit, new
  <2>. QED
    BY <1>0, <2>1, <2>2, ExtendsWrite, RegisterKeepsRefs
<1>3. CASE /\ p # Nil
           /\ RegisterByRcl([publishers EXCEPT ![p] = AfterRclInit(@, h, t, n)], p, h, n)
           /\ UNCHANGED publishersByRmw
  <2>. DEFINE again == AfterRclInit(publishers[p], h, t, n)
  <2>1. p \in Publisher /\ again \in PublisherObject
    BY <1>0, <1>3, MadeObject, AfterRclInitType
  <2>2. RegisterByRcl([publishers EXCEPT ![p] = again], p, h, n)
    BY <1>3
  <2>. HIDE DEF again
  <2>. QED
    BY <1>0, <1>3, <2>1, <2>2, ExtendsWrite, RegisterKeepsRefs
<1>4. CASE /\ p # Nil
           /\ FreePublisher
           /\ RegisterByRcl([publishers EXCEPT
                               ![p] = AfterRemoval(@),
                               ![q] = AfterRclInit(DefaultPublisher, h, t, n)], q, h, n)
           /\ publishersByRmw' = [publishersByRmw EXCEPT ![r] = q]
  <2>. DEFINE gone == AfterRemoval(publishers[p])
              new == AfterRclInit(DefaultPublisher, h, t, n)
              first == [publishers EXCEPT ![p] = gone]
  <2>1. /\ p \in Publisher /\ gone \in PublisherObject
        /\ q \in Publisher /\ new \in PublisherObject
    BY <1>0, <1>4, MadeObject, AfterRemovalType, FreshPublisher, DefaultPublisherType, AfterRclInitType
  <2>2. RegisterByRcl([first EXCEPT ![q] = new], q, h, n)
    BY <1>4
  <2>. HIDE DEF gone, new
  <2>3. Extends(first)
    BY <1>0, <2>1, ExtendsWrite
  <2>. HIDE DEF first
  <2>. QED
    BY <1>4, <2>1, <2>2, <2>3, ExtendsWrite, RegisterKeepsRefs
<1>. QED
  BY <1>0, <1>1, <1>2, <1>3, <1>4 DEF RclPublisherInit

(* Writing one message object whose publisher exists. *)
LEMMA MessageStep ==
  ASSUME TrafficOK, NEW m \in Message, NEW o \in MessageObject,
         Made \subseteq Made', o.publisher \in Maybe(Made'),
         messages' = [messages EXCEPT ![m] = o]
  PROVE  /\ messages' \in [Message -> MessageObject \cup {Nil}]
         /\ m \in MadeMessage'
         /\ messagesByRclcpp \in [Pointer -> MadeMessage' \cup {Nil}]
         /\ messagesByRcl \in [Pointer -> MadeMessage' \cup {Nil}]
         /\ published \in [Stamp \X TopicKey -> MadeMessage' \cup {Nil}]
         /\ \A k \in MadeMessage' : messages'[k].publisher \in Maybe(Made')
<1>1. /\ messages' \in [Message -> MessageObject \cup {Nil}]
      /\ m \in MadeMessage'
      /\ MadeMessage \subseteq MadeMessage'
  BY MessageWrite DEF TrafficOK
<1>2. ASSUME NEW k \in MadeMessage' PROVE messages'[k].publisher \in Maybe(Made')
  <2>1. CASE k = m
    BY <2>1 DEF TrafficOK
  <2>2. CASE k # m
    <3>1. k \in MadeMessage /\ messages'[k] = messages[k]
      BY <2>2 DEF MadeMessage, TrafficOK
    <3>. QED
      BY <3>1 DEF TrafficOK, Maybe
  <2>. QED
    BY <2>1, <2>2
<1>. QED
  BY <1>1, <1>2 DEF TrafficOK

(* The registry when nothing of it changes. *)
LEMMA RegistryKept ==
  ASSUME RegistryOK, UNCHANGED registry
  PROVE  RegistryOK' /\ Made' = Made
  BY DEF registry, RegistryOK, Made

LEMMA RclcppPublishKeepsRefs ==
  ASSUME RefsOK, NEW a \in Pointer, RclcppPublish(a)
  PROVE  RefsOK'
<1>. DEFINE m == NewMessage
            o == AfterPublish(DefaultMessage, "rclcpp")
<1>0. RegistryOK' /\ Made' = Made
  BY RegistryKept DEF RefsOK, RclcppPublish
<1>1. m \in Message
  BY FreshMessage DEF RclcppPublish
<1>2. o \in MessageObject /\ o.publisher = Unknown
  BY DefaultMessageType, AfterPublishType DEF Layer, DefaultMessage
<1>3. /\ messages' = [messages EXCEPT ![m] = o]
      /\ messagesByRclcpp' = [messagesByRclcpp EXCEPT ![a] = m]
      /\ UNCHANGED <<outcome, messagesByRcl, published>>
  BY DEF RclcppPublish, Continue
<1>. HIDE DEF m, o
<1>4. TrafficOK'
  BY <1>0, <1>1, <1>2, <1>3, MessageStep DEF TrafficOK, RefsOK, Maybe
<1>. QED
  BY <1>0, <1>3, <1>4 DEF RefsOK, OutcomeOK

LEMMA RclcppIntraPublishKeepsRefs ==
  ASSUME RefsOK, NEW a \in Pointer, NEW h \in RclHandle, RclcppIntraPublish(a, h)
  PROVE  RefsOK'
<1>. DEFINE m == messagesByRclcpp[a]
            p == publishersByRcl[h]
            o == AfterSetPublisher(messages[m], p)
<1>1. CASE Panic \/ Fail
  BY <1>1, StopKeepsRefs
<1>2. CASE m # Nil /\ p # Nil /\ ~Panic /\ ~Fail
  <2>0. RegistryOK' /\ Made' = Made
    BY <1>2, RegistryKept DEF RefsOK, RclcppIntraPublish
  <2>1. m \in MadeMessage /\ p \in Made
    BY <1>2 DEF RefsOK, TrafficOK, RegistryOK
  <2>2. m \in Message /\ messages[m] \in MessageObject /\ p \in Publisher
    BY <2>1, MadeObject, MadeMessageObject DEF RefsOK
  <2>3. o \in MessageObject /\ o.publisher = p
    BY <2>2, AfterSetPublisherType
  <2>4. /\ messages' = [messages EXCEPT ![m] = o]
        /\ UNCHANGED <<outcome, messagesByRclcpp, messagesByRcl, published>>
    BY <1>2 DEF RclcppIntraPublish, Continue
  <2>. HIDE DEF m, o, p
  <2>5. TrafficOK'
    BY <2>0, <2>1, <2>2, <2>3, <2>4, MessageStep DEF TrafficOK, RefsOK, Maybe
  <2>. QED
    BY <2>0, <2>4, <2>5 DEF RefsOK, OutcomeOK
<1>. QED
  BY <1>1, <1>2 DEF RclcppIntraPublish

LEMMA RclPublishKeepsRefs ==
  ASSUME RefsOK, NEW a \in Pointer, NEW h \in RclHandle, RclPublish(a, h)
  PROVE  RefsOK'
<1>. DEFINE m == IF messagesByRclcpp[a] = Nil THEN NewMessage ELSE messagesByRclcpp[a]
            before == IF messagesByRclcpp[a] = Nil THEN DefaultMessage ELSE messages[m]
            p == IF publishersByRcl[h] = Nil THEN NewPublisher ELSE publishersByRcl[h]
            o == AfterPublish(AfterSetPublisher(before, p), "rcl")
<1>1. CASE Panic
  BY <1>1, StopKeepsRefs
<1>2. CASE ~Panic
  <2>1. /\ messagesByRclcpp[a] = Nil => FreeMessage
        /\ publishersByRcl[h] = Nil => FreePublisher
        /\ messagesByRclcpp' = Taken(messagesByRclcpp, a)
        /\ messagesByRcl' = [messagesByRcl EXCEPT ![a] = m]
        /\ messages' = [messages EXCEPT ![m] = o]
        /\ publishersByRcl' = [publishersByRcl EXCEPT ![h] = p]
        /\ publishers' = IF publishersByRcl[h] # Nil THEN publishers
                         ELSE [publishers EXCEPT ![p] = Stub(h)]
        /\ UNCHANGED <<outcome, nodes, nodePublishers, publishersByRmw, published>>
    BY <1>2 DEF RclPublish, Continue
  <2>2. RegistryOK /\ TrafficOK /\ OutcomeOK
    BY DEF RefsOK
  <2>3. m \in Message /\ before \in MessageObject
    BY <2>1, <2>2, FreshMessage, DefaultMessageType, MadeMessageObject DEF TrafficOK
  <2>4. /\ publishers' \in [Publisher -> PublisherObject \cup {Nil}]
        /\ p \in Made' /\ Made \subseteq Made'
    <3>1. CASE publishersByRcl[h] = Nil
      <4>1. p \in Publisher
        BY <2>1, <3>1, FreshPublisher
      <4>. QED
        BY <2>1, <2>2, <3>1, <4>1, StubType, MadeGrows
    <3>2. CASE publishersByRcl[h] # Nil
      BY <2>1, <2>2, <3>2 DEF RegistryOK, Made
    <3>. QED
      BY <3>1, <3>2
  <2>5. p \in Publisher
    BY <2>4 DEF Made
  <2>6. o \in MessageObject /\ o.publisher = p
    BY <2>3, <2>5, AfterSetPublisherType, AfterPublishType DEF Layer
  <2>. HIDE DEF m, before, p, o
  <2>7. RegistryOK'
    BY <2>1, <2>2, <2>4, RegistryWidens DEF RegistryOK
  <2>8. o.publisher \in Maybe(Made')
    BY <2>4, <2>6 DEF Maybe
  <2>9. TrafficOK'
    <3>1. /\ messages' \in [Message -> MessageObject \cup {Nil}]
          /\ m \in MadeMessage'
          /\ messagesByRclcpp \in [Pointer -> MadeMessage' \cup {Nil}]
          /\ messagesByRcl \in [Pointer -> MadeMessage' \cup {Nil}]
          /\ published \in [Stamp \X TopicKey -> MadeMessage' \cup {Nil}]
          /\ \A k \in MadeMessage' : messages'[k].publisher \in Maybe(Made')
      BY <2>1, <2>2, <2>3, <2>4, <2>6, <2>8, MessageStep
    <3>2. messagesByRclcpp' \in [Pointer -> MadeMessage' \cup {Nil}]
      BY <2>1, <3>1, TakenType
    <3>3. messagesByRcl' \in [Pointer -> MadeMessage' \cup {Nil}]
      BY <2>1, <3>1
    <3>. QED
      BY <2>1, <3>1, <3>2, <3>3 DEF TrafficOK
  <2>. QED
    BY <2>1, <2>2, <2>7, <2>9 DEF RefsOK, OutcomeOK
<1>. QED
  BY <1>1, <1>2

LEMMA FilePublishedKeepsRefs ==
  ASSUME RefsOK, NEW a \in Pointer, NEW m \in Message, NEW o \in MessageObject,
         NEW s \in Maybe(Stamp), NEW topic \in TopicKey,
         RegistryOK', Made \subseteq Made', o.publisher \in Maybe(Made'),
         FilePublished(a, m, o, s, topic)
  PROVE  RefsOK'
<1>. DEFINE filed == [AfterPublish(o, "rmw") EXCEPT !.stamp = s]
<1>0. TrafficOK /\ OutcomeOK
  BY DEF RefsOK
<1>1. filed \in MessageObject /\ filed.publisher = o.publisher
  <2>1. /\ AfterPublish(o, "rmw") \in MessageObject
        /\ AfterPublish(o, "rmw").publisher = o.publisher
    BY AfterPublishType DEF Layer
  <2>. QED
    BY <2>1 DEF MessageObject
<1>2. /\ messagesByRcl' = Taken(messagesByRcl, a)
      /\ messages' = [messages EXCEPT ![m] = filed]
      /\ published' = IF IsUnknown(s) THEN published
                      ELSE [published EXCEPT ![<<s, topic>>] = m]
      /\ UNCHANGED <<outcome, messagesByRclcpp>>
  BY DEF FilePublished, Continue
<1>. HIDE DEF filed
<1>3. /\ messages' \in [Message -> MessageObject \cup {Nil}]
      /\ m \in MadeMessage'
      /\ messagesByRclcpp \in [Pointer -> MadeMessage' \cup {Nil}]
      /\ messagesByRcl \in [Pointer -> MadeMessage' \cup {Nil}]
      /\ published \in [Stamp \X TopicKey -> MadeMessage' \cup {Nil}]
      /\ \A k \in MadeMessage' : messages'[k].publisher \in Maybe(Made')
  BY <1>0, <1>1, <1>2, MessageStep
<1>4. messagesByRcl' \in [Pointer -> MadeMessage' \cup {Nil}]
  BY <1>2, <1>3, TakenType
<1>5. published' \in [Stamp \X TopicKey -> MadeMessage' \cup {Nil}]
  BY <1>2, <1>3
<1>6. TrafficOK'
  BY <1>2, <1>3, <1>4, <1>5 DEF TrafficOK
<1>. QED
  BY <1>0, <1>2, <1>6 DEF RefsOK, OutcomeOK

LEMMA RmwPublishKeepsRefs ==
  ASSUME RefsOK, NEW a \in Pointer, NEW r \in Maybe(RmwHandle), NEW s \in Maybe(Stamp),
         RmwPublish(a, r, s)
  PROVE  RefsOK'
<1>. DEFINE queued == messagesByRcl[a]
            m == IF queued = Nil THEN NewMessage ELSE queued
            o == IF queued = Nil THEN DefaultMessage ELSE messages[m]
            byRmw == IF IsUnknown(r) THEN Nil ELSE publishersByRmw[r]
            attached == o.publisher
<1>0. RegistryOK /\ TrafficOK
  BY DEF RefsOK
<1>1. queued = Nil => FreeMessage
  BY DEF RmwPublish
<1>2. m \in Message /\ o \in MessageObject
  BY <1>0, <1>1, FreshMessage, DefaultMessageType, MadeMessageObject DEF TrafficOK
<1>3. attached \in Maybe(Made)
  <2>1. CASE queued = Nil
    BY <2>1 DEF DefaultMessage, Maybe
  <2>2. CASE queued # Nil
    BY <1>0, <2>2 DEF TrafficOK
  <2>. QED
    BY <2>1, <2>2
<1>4. byRmw \in Made \cup {Nil}
  BY <1>0 DEF RegistryOK, Maybe, IsUnknown
<1>5. /\ IsKnown(attached) => attached \in Made
      /\ \A p \in Made : publishers[p].topic \in TopicKey /\ publishers[p].rcl \in Maybe(RclHandle)
      /\ Unknown \in TopicKey
  BY <1>0, <1>3, MadeObject DEF PublisherObject, Maybe, TopicKey, IsKnown
<1>6. byRmw # Nil => /\ AfterSetPublisher(o, byRmw) \in MessageObject
                     /\ AfterSetPublisher(o, byRmw).publisher = byRmw
                     /\ byRmw \in Made
  BY <1>0, <1>2, <1>4, MadeObject, AfterSetPublisherType
<1>7. ASSUME UNCHANGED registry PROVE RegistryOK' /\ Made' = Made
  BY <1>0, <1>7, RegistryKept
<1>8. ASSUME NEW u \in MessageObject, NEW topic \in TopicKey,
             u.publisher \in Maybe(Made),
             FilePublished(a, m, u, s, topic), UNCHANGED <<publishers, publishersByRcl>>
      PROVE  RefsOK'
  <2>1. UNCHANGED registry
    BY <1>8 DEF FilePublished, registry
  <2>. QED
    BY <1>2, <1>7, <1>8, <2>1, FilePublishedKeepsRefs
<1>9. CASE /\ IsKnown(attached)
           /\ FilePublished(a, m, o, s, publishers[attached].topic)
           /\ UNCHANGED <<publishers, publishersByRcl>>
  BY <1>2, <1>3, <1>5, <1>8, <1>9
<1>10. CASE /\ byRmw # Nil
            /\ publishersByRcl' = [publishersByRcl EXCEPT ![publishers[attached].rcl] = byRmw]
            /\ publishers' = [publishers EXCEPT ![byRmw].rcl = publishers[attached].rcl]
            /\ FilePublished(a, m, AfterSetPublisher(o, byRmw), s, publishers[byRmw].topic)
            /\ IsKnown(attached)
  <2>. DEFINE named == [publishers[byRmw] EXCEPT !.rcl = publishers[attached].rcl]
  <2>1. byRmw \in Publisher /\ named \in PublisherObject
    BY <1>0, <1>5, <1>6, <1>10, MadeObject DEF PublisherObject
  <2>2. publishers' = [publishers EXCEPT ![byRmw] = named]
    BY <1>10
  <2>. HIDE DEF named
  <2>3. /\ publishers' \in [Publisher -> PublisherObject \cup {Nil}]
        /\ byRmw \in Made' /\ Made \subseteq Made'
    BY <1>0, <2>1, <2>2, MadeGrows
  <2>4. UNCHANGED <<nodes, nodePublishers, publishersByRmw>>
    BY <1>10 DEF FilePublished
  <2>5. RegistryOK'
    BY <1>0, <1>10, <2>3, <2>4, RegistryWidens DEF RegistryOK
  <2>6. AfterSetPublisher(o, byRmw).publisher \in Maybe(Made')
    BY <1>6, <1>10, <2>3 DEF Maybe
  <2>7. publishers[byRmw].topic \in TopicKey /\ AfterSetPublisher(o, byRmw) \in MessageObject
    BY <1>5, <1>6, <1>10
  <2>. HIDE DEF m, o, byRmw
  <2>. QED
    BY <1>2, <1>10, <2>3, <2>5, <2>6, <2>7, FilePublishedKeepsRefs
<1>11. CASE /\ FilePublished(a, m, o, s, Unknown)
            /\ UNCHANGED <<publishers, publishersByRcl>>
  BY <1>2, <1>3, <1>5, <1>8, <1>11
<1>12. CASE /\ byRmw # Nil
            /\ FilePublished(a, m, AfterSetPublisher(o, byRmw), s, publishers[byRmw].topic)
            /\ UNCHANGED <<publishers, publishersByRcl>>
  <2>1. AfterSetPublisher(o, byRmw).publisher \in Maybe(Made)
    BY <1>6, <1>12 DEF Maybe
  <2>. QED
    BY <1>5, <1>6, <1>8, <1>12, <2>1
<1>. QED
  BY <1>9, <1>10, <1>11, <1>12 DEF RmwPublish

-----------------------------------------------------------------------------
(* Every reference denotes an object that exists, always. *)
THEOREM RefsAreKept == Spec => []RefsOK
<1>1. Init => RefsOK
  BY DEF Init, RefsOK, OutcomeOK, RegistryOK, TrafficOK, Made, MadeMessage, Maybe
<1>2. RefsOK /\ [Next]_vars => RefsOK'
  <2> SUFFICES ASSUME RefsOK, [Next]_vars PROVE RefsOK'
    OBVIOUS
  <2>1. CASE UNCHANGED vars
    <3>1. RegistryOK' /\ Made' = Made
      BY <2>1, RegistryKept DEF vars, RefsOK
    <3>2. TrafficOK'
      BY <2>1, <3>1, TrafficKept DEF vars, RefsOK
    <3>. QED
      BY <2>1, <3>1, <3>2 DEF vars, RefsOK, OutcomeOK
  <2>2. CASE Next
    <3>1. CASE Registration
      BY <3>1, RclNodeInitKeepsRefs, RmwPublisherInitKeepsRefs, RclPublisherInitKeepsRefs
      DEF Registration
    <3>2. CASE Publication
      BY <3>2, RclcppPublishKeepsRefs, RclcppIntraPublishKeepsRefs, RclPublishKeepsRefs,
         RmwPublishKeepsRefs
      DEF Publication
    <3>. QED
      BY <2>2, <3>1, <3>2 DEF Next
  <2>. QED
    BY <2>1, <2>2
<1>. QED
  BY <1>1, <1>2, PTL DEF Spec

(* Type correctness of Publishers. *)
THEOREM TypeCorrect == Spec => []TypeOK
<1>1. RefsOK => TypeOK
  BY DEF RefsOK, OutcomeOK, RegistryOK, TrafficOK, TypeOK, Made, MadeMessage
<1>. QED
  BY <1>1, RefsAreKept, PTL

(* No reference of a registry, a node or a message dangles, so the model never
   reads an object that does not exist. *)
THEOREM NothingDangles == Spec => []NoDanglingReference
<1>1. RefsOK => NoDanglingReference
  <2> SUFFICES ASSUME RefsOK PROVE NoDanglingReference
    OBVIOUS
  <2>1. \A p \in Made : Registered(p)
    BY DEF Made, Registered
  <2>2. \A m \in MadeMessage : messages[m] # Nil
    BY DEF MadeMessage
  <2>3. ASSUME NEW m \in Message, messages[m] # Nil, IsKnown(messages[m].publisher)
        PROVE  Registered(messages[m].publisher)
    BY <2>1, <2>3 DEF RefsOK, TrafficOK, MadeMessage, Maybe, IsKnown
  <2>. QED
    BY <2>1, <2>2, <2>3 DEF RefsOK, RegistryOK, TrafficOK, NoDanglingReference
<1>. QED
  BY <1>1, RefsAreKept, PTL

-----------------------------------------------------------------------------
(* The layers a message passed, after each method. *)
LEMMA LayersAfter ==
  ASSUME NEW o \in MessageObject, NEW p, NEW layer
  PROVE  /\ AfterSetPublisher(o, p).layers = o.layers
         /\ AfterPublish(o, layer).layers = o.layers \cup {layer}
         /\ AfterPublish(AfterSetPublisher(o, p), layer).layers = o.layers \cup {layer}
  BY DEF AfterSetPublisher, AfterPublish, MessageObject

LEMMA OneMessageChanges ==
  ASSUME TrafficOK, NEW m \in Message, NEW o, messages' = [messages EXCEPT ![m] = o]
  PROVE  messages'[m] = o /\ \A k \in Message : k # m => messages'[k] = messages[k]
  BY DEF TrafficOK

(* A message that waits exists; a fresh one waits nowhere. *)
LEMMA WaitingIsMade ==
  ASSUME TrafficOK, NEW a \in Pointer
  PROVE  /\ messagesByRclcpp[a] # Nil => messagesByRclcpp[a] \in MadeMessage
         /\ messagesByRcl[a] # Nil => messagesByRcl[a] \in MadeMessage
  BY DEF TrafficOK

LEMMA TakenEntries ==
  ASSUME NEW S, NEW map \in [Pointer -> S \cup {Nil}], NEW a \in Pointer, NEW b \in Pointer
  PROVE  Taken(map, a)[b] = IF b = a THEN Nil ELSE map[b]
  BY DEF Taken

LEMMA RclcppPublishKeepsWaits ==
  ASSUME RefsOK, WaitsInOnePlace, NEW a \in Pointer, RclcppPublish(a)
  PROVE  WaitsInOnePlace'
<1>. DEFINE m == NewMessage
            o == AfterPublish(DefaultMessage, "rclcpp")
<1>0. TrafficOK
  BY DEF RefsOK
<1>1. m \in Message /\ m \notin MadeMessage /\ m # Nil
  BY FreshMessage, NilIsNothing DEF RclcppPublish, MadeMessage
<1>2. o.layers = {"rclcpp"}
  BY DefaultMessageType, LayersAfter DEF DefaultMessage
<1>3. /\ messages' = [messages EXCEPT ![m] = o]
      /\ messagesByRclcpp' = [messagesByRclcpp EXCEPT ![a] = m]
      /\ messagesByRcl' = messagesByRcl
  BY DEF RclcppPublish
<1>. HIDE DEF m, o
<1>4. messages'[m] = o /\ \A k \in Message : k # m => messages'[k] = messages[k]
  BY <1>0, <1>1, <1>3, OneMessageChanges
<1>5. \A b \in Pointer :
        /\ messagesByRclcpp'[b] = IF b = a THEN m ELSE messagesByRclcpp[b]
        /\ messagesByRclcpp[b] # Nil => messagesByRclcpp[b] \in Message \ {m}
        /\ messagesByRcl[b] # Nil => messagesByRcl[b] \in Message \ {m}
  BY <1>0, <1>1, <1>3, WaitingIsMade DEF TrafficOK, MadeMessage
<1>. QED
  BY <1>1, <1>2, <1>3, <1>4, <1>5 DEF WaitsInOnePlace

LEMMA RclcppIntraPublishKeepsWaits ==
  ASSUME RefsOK, WaitsInOnePlace, NEW a \in Pointer, NEW h \in RclHandle,
         RclcppIntraPublish(a, h)
  PROVE  WaitsInOnePlace'
<1>. DEFINE m == messagesByRclcpp[a]
            o == AfterSetPublisher(messages[m], publishersByRcl[h])
<1>0. TrafficOK
  BY DEF RefsOK
<1>1. CASE Panic \/ Fail
  BY <1>1 DEF Panic, Fail, traffic, WaitsInOnePlace
<1>2. CASE m # Nil /\ ~Panic /\ ~Fail
  <2>1. m \in Message /\ messages[m] \in MessageObject
    BY <1>0, <1>2, MadeMessageObject, WaitingIsMade
  <2>2. o.layers = messages[m].layers
    BY <2>1, LayersAfter
  <2>3. /\ messages' = [messages EXCEPT ![m] = o]
        /\ UNCHANGED <<messagesByRclcpp, messagesByRcl>>
    BY <1>2 DEF RclcppIntraPublish
  <2>. HIDE DEF m, o
  <2>4. messages'[m].layers = messages[m].layers
        /\ \A k \in Message : k # m => messages'[k] = messages[k]
    BY <1>0, <2>1, <2>2, <2>3, OneMessageChanges
  <2>5. \A b \in Pointer :
          /\ messagesByRclcpp[b] # Nil => messagesByRclcpp[b] \in Message
          /\ messagesByRcl[b] # Nil => messagesByRcl[b] \in Message
    BY <1>0, WaitingIsMade DEF MadeMessage
  <2>. QED
    BY <2>3, <2>4, <2>5 DEF WaitsInOnePlace
<1>. QED
  BY <1>1, <1>2 DEF RclcppIntraPublish

LEMMA RclPublishKeepsWaits ==
  ASSUME RefsOK, WaitsInOnePlace, NEW a \in Pointer, NEW h \in RclHandle, RclPublish(a, h)
  PROVE  WaitsInOnePlace'
<1>. DEFINE m == IF messagesByRclcpp[a] = Nil THEN NewMessage ELSE messagesByRclcpp[a]
            before == IF messagesByRclcpp[a] = Nil THEN DefaultMessage ELSE messages[m]
            p == IF publishersByRcl[h] = Nil THEN NewPublisher ELSE publishersByRcl[h]
            o == AfterPublish(AfterSetPublisher(before, p), "rcl")
<1>0. TrafficOK
  BY DEF RefsOK
<1>1. CASE Panic
  BY <1>1 DEF Panic, traffic, WaitsInOnePlace
<1>2. CASE ~Panic
  <2>1. /\ messagesByRclcpp[a] = Nil => FreeMessage
        /\ messagesByRclcpp' = Taken(messagesByRclcpp, a)
        /\ messagesByRcl' = [messagesByRcl EXCEPT ![a] = m]
        /\ messages' = [messages EXCEPT ![m] = o]
    BY <1>2 DEF RclPublish
  <2>2. m \in Message /\ m # Nil /\ before \in MessageObject
    BY <1>0, <2>1, FreshMessage, DefaultMessageType, MadeMessageObject, WaitingIsMade, NilIsNothing
  <2>3. before.layers \in {{}, {"rclcpp"}}
    BY DEF WaitsInOnePlace, DefaultMessage
  <2>4. o.layers \in {{"rcl"}, {"rclcpp", "rcl"}}
    BY <2>2, <2>3, LayersAfter
  <2>5. \A b \in Pointer :
          /\ messagesByRclcpp[b] = m => b = a
          /\ messagesByRcl[b] # m
    <3>1. CASE messagesByRclcpp[a] = Nil
      <4>1. m \notin MadeMessage
        BY <2>1, <3>1, FreshMessage DEF MadeMessage
      <4>. QED
        BY <1>0, <2>2, <4>1, WaitingIsMade
    <3>2. CASE messagesByRclcpp[a] # Nil
      BY <3>2 DEF WaitsInOnePlace
    <3>. QED
      BY <3>1, <3>2
  <2>. HIDE DEF m, before, p, o
  <2>6. messages'[m] = o /\ \A k \in Message : k # m => messages'[k] = messages[k]
    BY <1>0, <2>1, <2>2, OneMessageChanges
  <2>7. \A b \in Pointer :
          /\ messagesByRclcpp'[b] = IF b = a THEN Nil ELSE messagesByRclcpp[b]
          /\ messagesByRcl'[b] = IF b = a THEN m ELSE messagesByRcl[b]
          /\ messagesByRclcpp[b] # Nil => messagesByRclcpp[b] \in Message
          /\ messagesByRcl[b] # Nil => messagesByRcl[b] \in Message
    <3> SUFFICES ASSUME NEW b \in Pointer
        PROVE  /\ messagesByRclcpp'[b] = IF b = a THEN Nil ELSE messagesByRclcpp[b]
               /\ messagesByRcl'[b] = IF b = a THEN m ELSE messagesByRcl[b]
               /\ messagesByRclcpp[b] # Nil => messagesByRclcpp[b] \in Message
               /\ messagesByRcl[b] # Nil => messagesByRcl[b] \in Message
      OBVIOUS
    <3>1. messagesByRclcpp'[b] = IF b = a THEN Nil ELSE messagesByRclcpp[b]
      BY <1>0, <2>1, TakenEntries DEF TrafficOK
    <3>2. messagesByRcl'[b] = IF b = a THEN m ELSE messagesByRcl[b]
      BY <1>0, <2>1 DEF TrafficOK
    <3>. QED
      BY <1>0, <3>1, <3>2, WaitingIsMade DEF MadeMessage
  <2>8. ASSUME NEW b \in Pointer, messagesByRclcpp'[b] # Nil
        PROVE  /\ messages'[messagesByRclcpp'[b]].layers = {"rclcpp"}
               /\ \A c \in Pointer : messagesByRclcpp'[c] = messagesByRclcpp'[b] => b = c
    <3>1. messagesByRclcpp'[b] = messagesByRclcpp[b] /\ messagesByRclcpp[b] # m
      BY <2>5, <2>7, <2>8
    <3>2. messages'[messagesByRclcpp[b]] = messages[messagesByRclcpp[b]]
      BY <2>6, <2>7, <2>8, <3>1
    <3>. QED
      BY <2>7, <2>8, <3>1, <3>2 DEF WaitsInOnePlace
  <2>9. ASSUME NEW b \in Pointer, messagesByRcl'[b] # Nil
        PROVE  /\ messages'[messagesByRcl'[b]].layers \in {{"rcl"}, {"rclcpp", "rcl"}}
               /\ \A c \in Pointer : messagesByRcl'[c] = messagesByRcl'[b] => b = c
    <3>1. CASE b = a
      BY <2>4, <2>5, <2>6, <2>7, <3>1
    <3>2. CASE b # a
      <4>1. messagesByRcl'[b] = messagesByRcl[b] /\ messagesByRcl[b] # m
        BY <2>5, <2>7, <3>2
      <4>2. messages'[messagesByRcl[b]] = messages[messagesByRcl[b]]
        BY <2>6, <2>7, <2>9, <4>1
      <4>. QED
        BY <2>5, <2>7, <2>9, <4>1, <4>2 DEF WaitsInOnePlace
    <3>. QED
      BY <3>1, <3>2
  <2>. QED
    BY <2>8, <2>9 DEF WaitsInOnePlace
<1>. QED
  BY <1>1, <1>2

LEMMA RmwPublishKeepsWaits ==
  ASSUME RefsOK, WaitsInOnePlace, NEW a \in Pointer,
         NEW r \in Maybe(RmwHandle), NEW s \in Maybe(Stamp), RmwPublish(a, r, s)
  PROVE  WaitsInOnePlace'
<1>. DEFINE queued == messagesByRcl[a]
            m == IF queued = Nil THEN NewMessage ELSE queued
<1>0. TrafficOK
  BY DEF RefsOK
<1>1. queued = Nil => FreeMessage
  BY DEF RmwPublish
<1>2. m \in Message /\ m # Nil
  BY <1>0, <1>1, FreshMessage, MadeMessageObject, WaitingIsMade, NilIsNothing
<1>3. /\ messagesByRcl' = Taken(messagesByRcl, a)
      /\ messagesByRclcpp' = messagesByRclcpp
      /\ \E o : messages' = [messages EXCEPT ![m] = o]
  BY DEF RmwPublish, FilePublished
<1>4. \A b \in Pointer : messagesByRclcpp[b] # m /\ (messagesByRcl[b] = m => b = a)
  <2>1. CASE queued = Nil
    <3>1. m \notin MadeMessage
      BY <1>1, <2>1, FreshMessage DEF MadeMessage
    <3>. QED
      BY <1>0, <1>2, <3>1, WaitingIsMade
  <2>2. CASE queued # Nil
    BY <2>2 DEF WaitsInOnePlace
  <2>. QED
    BY <2>1, <2>2
<1>. HIDE DEF m
<1>5. \A k \in Message : k # m => messages'[k] = messages[k]
  BY <1>0, <1>2, <1>3, OneMessageChanges
<1>6. \A b \in Pointer :
        /\ messagesByRcl'[b] = IF b = a THEN Nil ELSE messagesByRcl[b]
        /\ messagesByRclcpp[b] # Nil => messagesByRclcpp[b] \in Message
        /\ messagesByRcl[b] # Nil => messagesByRcl[b] \in Message
  <2>1. \A b \in Pointer : messagesByRcl'[b] = IF b = a THEN Nil ELSE messagesByRcl[b]
    BY <1>0, <1>3, TakenEntries DEF TrafficOK
  <2>. QED
    BY <1>0, <2>1, WaitingIsMade DEF MadeMessage
<1>. QED
  BY <1>2, <1>3, <1>4, <1>5, <1>6 DEF WaitsInOnePlace

(* A published message waits under one address of one temporary map and has
   passed exactly the layers that map stands for: the assertions of
   PublicationMessage that a layer publishes it once cannot fail, whatever
   addresses are reused and whatever events are missing. *)
THEOREM MessagesWaitInOnePlace == Spec => []WaitsInOnePlace
<1>1. Init => WaitsInOnePlace
  BY DEF Init, WaitsInOnePlace
<1>2. RefsOK /\ WaitsInOnePlace /\ [Next]_vars => WaitsInOnePlace'
  <2> SUFFICES ASSUME RefsOK, WaitsInOnePlace, [Next]_vars PROVE WaitsInOnePlace'
    OBVIOUS
  <2>1. CASE UNCHANGED traffic
    BY <2>1 DEF traffic, WaitsInOnePlace
  <2>2. CASE UNCHANGED vars
    BY <2>1, <2>2 DEF vars
  <2>3. CASE Registration
    <3>1. ASSUME NEW n \in NodeHandle, RclNodeInit(n) PROVE UNCHANGED traffic
      BY <3>1 DEF RclNodeInit, Panic
    <3>2. ASSUME NEW r \in RmwHandle, NEW g \in Gid, RmwPublisherInit(r, g)
          PROVE  UNCHANGED traffic
      BY <3>2 DEF RmwPublisherInit, Panic
    <3>3. ASSUME NEW r \in RmwHandle, NEW h \in RclHandle, NEW t \in Topic,
                 NEW n \in NodeHandle, RclPublisherInit(r, h, t, n)
          PROVE  UNCHANGED traffic
      BY <3>3 DEF RclPublisherInit, RegisterByRcl, Panic
    <3>. QED
      BY <2>1, <2>3, <3>1, <3>2, <3>3 DEF Registration
  <2>4. CASE Publication
    BY <2>4, RclcppPublishKeepsWaits, RclcppIntraPublishKeepsWaits, RclPublishKeepsWaits,
       RmwPublishKeepsWaits
    DEF Publication
  <2>. QED
    BY <2>2, <2>3, <2>4 DEF Next
<1>. QED
  BY <1>1, <1>2, RefsAreKept, PTL DEF Spec

-----------------------------------------------------------------------------
(* The rcl handle of a publisher, after each method. *)
LEMMA RclAfter ==
  ASSUME NEW o \in PublisherObject, NEW r, NEW g, NEW h, NEW t, NEW n
  PROVE  /\ AfterRmwInit(o, r, g).rcl = o.rcl
         /\ AfterRclInit(o, h, t, n).rcl = h
         /\ AfterRemoval(o).rcl = o.rcl
         /\ Stub(h).rcl = h
  BY DefaultPublisherType
  DEF AfterRmwInit, AfterRclInit, AfterRemoval, Stub, DefaultPublisher, PublisherObject

LEMMA HandleIsKnown ==
  ASSUME NEW h \in RclHandle
  PROVE  IsKnown(h)
  BY PublishersAssumption DEF IsKnown

(* No publisher loses its rcl handle. *)
KeepsRcl(heap) ==
  \A p \in Made : IsKnown(publishers[p].rcl) => IsKnown(heap[p].rcl)

(* Writing an object that keeps the handle, or a new one. *)
LEMMA KeepsRclWrite ==
  ASSUME NEW heap, Extends(heap), KeepsRcl(heap), NEW p \in Publisher, NEW o,
         IsKnown(heap[p].rcl) /\ heap[p] # Nil => IsKnown(o.rcl)
  PROVE  LET after == [heap EXCEPT ![p] = o] IN
         /\ KeepsRcl(after)
         /\ after[p] = o
         /\ \A q \in Publisher : q # p => after[q] = heap[q]
  BY DEF KeepsRcl, Extends, Made

(* Which publishers wait for rmw_publish is a matter of the messages only. *)
LEMMA AttachedKept ==
  ASSUME RefsOK, AttachedHasRclHandle, KeepsRcl(publishers'), UNCHANGED messages,
         \A h \in RclHandle : publishersByRcl'[h] # Nil =>
            IsKnown(publishers'[publishersByRcl'[h]].rcl)
  PROVE  AttachedHasRclHandle'
<1>. SUFFICES ASSUME NEW m \in Message, messages[m] # Nil,
                     "rcl" \in messages[m].layers, "rmw" \notin messages[m].layers
              PROVE  /\ IsKnown(messages[m].publisher)
                     /\ IsKnown(publishers'[messages[m].publisher].rcl)
  BY DEF AttachedHasRclHandle
<1>1. /\ IsKnown(messages[m].publisher)
      /\ IsKnown(publishers[messages[m].publisher].rcl)
  BY DEF AttachedHasRclHandle
<1>2. messages[m].publisher \in Made
  BY <1>1 DEF RefsOK, TrafficOK, MadeMessage, Maybe, IsKnown
<1>. QED
  BY <1>1, <1>2 DEF KeepsRcl

LEMMA StopKeepsAttached ==
  ASSUME AttachedHasRclHandle, UNCHANGED <<registry, traffic>>
  PROVE  AttachedHasRclHandle'
  BY DEF registry, traffic, AttachedHasRclHandle

LEMMA RmwPublisherInitKeepsAttached ==
  ASSUME RefsOK, AttachedHasRclHandle, NEW r \in RmwHandle, NEW g \in Gid,
         RmwPublisherInit(r, g)
  PROVE  AttachedHasRclHandle'
<1>. DEFINE p == publishersByRmw[r]
            q == NewPublisher
            new == AfterRmwInit(DefaultPublisher, r, g)
<1>0. RegistryOK /\ p \in Made \cup {Nil} /\ Extends(publishers) /\ KeepsRcl(publishers)
  BY DEF RefsOK, RegistryOK, Extends, KeepsRcl
<1>1. KeepsRcl(publishers') \/ UNCHANGED <<registry, traffic>>
  <2>1. CASE /\ FreePublisher
             /\ publishers' = [publishers EXCEPT ![q] = new]
    BY <1>0, <2>1, FreshPublisher DEF KeepsRcl, Made, RegistryOK
  <2>2. CASE /\ p # Nil
             /\ publishers' = [publishers EXCEPT ![p] = AfterRmwInit(@, r, g)]
    <3>1. p \in Publisher /\ AfterRmwInit(publishers[p], r, g).rcl = publishers[p].rcl
      BY <1>0, <2>2, MadeObject, RclAfter
    <3>. QED
      BY <1>0, <2>2, <3>1 DEF KeepsRcl, Made, RegistryOK
  <2>3. CASE /\ p # Nil
             /\ FreePublisher
             /\ publishers' = [publishers EXCEPT ![p] = AfterRemoval(@), ![q] = new]
    <3>1. p \in Publisher /\ AfterRemoval(publishers[p]).rcl = publishers[p].rcl
      BY <1>0, <2>3, MadeObject, RclAfter
    <3>. QED
      BY <1>0, <2>3, <3>1, FreshPublisher DEF KeepsRcl, Made, RegistryOK
  <2>. QED
    BY <2>1, <2>2, <2>3 DEF RmwPublisherInit, Panic
<1>2. \A h \in RclHandle : publishersByRcl[h] # Nil => publishersByRcl[h] \in Made
  BY <1>0 DEF RegistryOK
<1>3. CASE UNCHANGED <<registry, traffic>>
  BY <1>3, StopKeepsAttached
<1>4. CASE KeepsRcl(publishers') /\ ~UNCHANGED <<registry, traffic>>
  <2>1. UNCHANGED <<messages, publishersByRcl>>
    BY <1>4 DEF RmwPublisherInit, Panic, traffic
  <2>2. \A h \in RclHandle : publishersByRcl'[h] # Nil =>
          IsKnown(publishers'[publishersByRcl'[h]].rcl)
    BY <1>2, <1>4, <2>1 DEF AttachedHasRclHandle, KeepsRcl
  <2>. QED
    BY <1>4, <2>1, <2>2, AttachedKept
<1>. QED
  BY <1>1, <1>3, <1>4

LEMMA RegisterKeepsAttached ==
  ASSUME RefsOK, AttachedHasRclHandle, NEW heap, Extends(heap), KeepsRcl(heap),
         NEW p \in Publisher, heap[p] # Nil, IsKnown(heap[p].rcl),
         NEW h \in RclHandle, NEW n \in NodeHandle, RegisterByRcl(heap, p, h, n)
  PROVE  AttachedHasRclHandle'
<1>. DEFINE old == publishersByRcl[h]
<1>0. \A x \in RclHandle : publishersByRcl[x] # Nil => publishersByRcl[x] \in Made
  BY DEF RefsOK, RegistryOK
<1>1. \A q \in Publisher : heap[q] # Nil => publishers'[q].rcl = heap[q].rcl
  <2>1. CASE old = Nil
    BY <2>1 DEF RegisterByRcl
  <2>2. CASE old # Nil
    <3>1. old \in Publisher /\ heap[old] \in PublisherObject
      BY <1>0, <2>2 DEF Made, Extends
    <3>2. publishers' = [heap EXCEPT ![old] = AfterRemoval(heap[old])]
      BY <2>2 DEF RegisterByRcl
    <3>3. AfterRemoval(heap[old]).rcl = heap[old].rcl
      BY <3>1, RclAfter
    <3>. QED
      BY <3>1, <3>2, <3>3 DEF Extends
  <2>. QED
    BY <2>1, <2>2
<1>2. KeepsRcl(publishers')
  BY <1>1 DEF KeepsRcl, Extends, Made
<1>3. UNCHANGED messages /\ publishersByRcl' = [publishersByRcl EXCEPT ![h] = p]
  BY DEF RegisterByRcl, traffic
<1>4. ASSUME NEW x \in RclHandle, publishersByRcl'[x] # Nil
      PROVE  IsKnown(publishers'[publishersByRcl'[x]].rcl)
  <2>1. CASE x = h
    BY <1>1, <1>3, <2>1 DEF RefsOK, RegistryOK
  <2>2. CASE x # h
    <3>1. publishersByRcl'[x] = publishersByRcl[x]
      BY <1>3, <2>2 DEF RefsOK, RegistryOK
    <3>. QED
      BY <1>0, <1>2, <1>4, <3>1 DEF AttachedHasRclHandle, KeepsRcl
  <2>. QED
    BY <2>1, <2>2
<1>. QED
  BY <1>2, <1>3, <1>4, AttachedKept

LEMMA RclPublisherInitKeepsAttached ==
  ASSUME RefsOK, AttachedHasRclHandle, NEW r \in RmwHandle, NEW h \in RclHandle,
         NEW t \in Topic, NEW n \in NodeHandle, RclPublisherInit(r, h, t, n)
  PROVE  AttachedHasRclHandle'
<1>. DEFINE p == publishersByRmw[r]
            q == NewPublisher
<1>0. RegistryOK /\ p \in Made \cup {Nil} /\ Extends(publishers) /\ KeepsRcl(publishers)
  BY DEF RefsOK, RegistryOK, Extends, KeepsRcl
<1>1. CASE Panic
  BY <1>1, StopKeepsAttached DEF Panic
<1>2. ASSUME NEW heap, Extends(heap), KeepsRcl(heap),
             NEW w \in Publisher, NEW o \in PublisherObject,
             RegisterByRcl([heap EXCEPT ![w] = AfterRclInit(o, h, t, n)], w, h, n)
      PROVE  AttachedHasRclHandle'
  <2>. DEFINE new == AfterRclInit(o, h, t, n)
              after == [heap EXCEPT ![w] = new]
  <2>1. new \in PublisherObject /\ IsKnown(new.rcl)
    BY AfterRclInitType, RclAfter, HandleIsKnown
  <2>2. RegisterByRcl(after, w, h, n)
    BY <1>2
  <2>. HIDE DEF new
  <2>3. Extends(after) /\ KeepsRcl(after) /\ after[w] = new /\ after[w] # Nil
    <3>1. Extends(after) /\ after[w] # Nil
      BY <1>2, <2>1, ExtendsWrite
    <3>2. KeepsRcl(after) /\ after[w] = new
      BY <1>2, <2>1 DEF KeepsRcl, Extends, Made
    <3>. QED
      BY <3>1, <3>2
  <2>. HIDE DEF after
  <2>. QED
    BY <2>1, <2>2, <2>3, RegisterKeepsAttached
<1>3. CASE p = Nil /\ ~Panic
  <2>. DEFINE o == [DefaultPublisher EXCEPT !.rmw = r]
  <2>1. o \in PublisherObject
    BY DefaultPublisherType DEF PublisherObject, Maybe
  <2>2. /\ q \in Publisher
        /\ RegisterByRcl([publishers EXCEPT ![q] = AfterRclInit(o, h, t, n)], q, h, n)
    BY <1>3, FreshPublisher DEF RclPublisherInit
  <2>. QED
    BY <1>0, <1>2, <2>1, <2>2
<1>4. CASE /\ p # Nil
           /\ RegisterByRcl([publishers EXCEPT ![p] = AfterRclInit(@, h, t, n)], p, h, n)
  <2>1. p \in Publisher /\ publishers[p] \in PublisherObject
    BY <1>0, <1>4, MadeObject
  <2>2. RegisterByRcl([publishers EXCEPT ![p] = AfterRclInit(publishers[p], h, t, n)], p, h, n)
    BY <1>4
  <2>. QED
    BY <1>0, <1>2, <2>1, <2>2
<1>5. CASE /\ p # Nil
           /\ FreePublisher
           /\ RegisterByRcl([publishers EXCEPT
                               ![p] = AfterRemoval(@),
                               ![q] = AfterRclInit(DefaultPublisher, h, t, n)], q, h, n)
  <2>. DEFINE gone == AfterRemoval(publishers[p])
              first == [publishers EXCEPT ![p] = gone]
  <2>1. /\ p \in Publisher /\ gone \in PublisherObject /\ gone.rcl = publishers[p].rcl
        /\ q \in Publisher /\ DefaultPublisher \in PublisherObject
    BY <1>0, <1>5, MadeObject, AfterRemovalType, RclAfter, FreshPublisher, DefaultPublisherType
  <2>2. RegisterByRcl([first EXCEPT ![q] = AfterRclInit(DefaultPublisher, h, t, n)], q, h, n)
    BY <1>5
  <2>. HIDE DEF gone
  <2>3. Extends(first) /\ KeepsRcl(first)
    BY <1>0, <2>1, ExtendsWrite, KeepsRclWrite
  <2>. HIDE DEF first
  <2>. QED
    BY <1>2, <2>1, <2>2, <2>3
<1>. QED
  BY <1>0, <1>1, <1>3, <1>4, <1>5 DEF RclPublisherInit

(* Writing a message: it is enough that this one has its publisher, whose rcl
   handle is known, unless it passed rmw. *)
LEMMA AttachedStep ==
  ASSUME RefsOK, AttachedHasRclHandle, KeepsRcl(publishers'),
         NEW m \in Message, NEW o, messages' = [messages EXCEPT ![m] = o],
         "rcl" \in o.layers /\ "rmw" \notin o.layers =>
            IsKnown(o.publisher) /\ IsKnown(publishers'[o.publisher].rcl),
         \A h \in RclHandle : publishersByRcl'[h] # Nil =>
            IsKnown(publishers'[publishersByRcl'[h]].rcl)
  PROVE  AttachedHasRclHandle'
<1>. SUFFICES ASSUME NEW k \in Message, messages'[k] # Nil,
                     "rcl" \in messages'[k].layers, "rmw" \notin messages'[k].layers
              PROVE  /\ IsKnown(messages'[k].publisher)
                     /\ IsKnown(publishers'[messages'[k].publisher].rcl)
  BY DEF AttachedHasRclHandle
<1>0. messages'[m] = o /\ \A x \in Message : x # m => messages'[x] = messages[x]
  BY OneMessageChanges DEF RefsOK
<1>1. CASE k = m
  BY <1>0, <1>1
<1>2. CASE k # m
  <2>1. messages'[k] = messages[k]
    BY <1>0, <1>2
  <2>2. /\ IsKnown(messages[k].publisher)
        /\ IsKnown(publishers[messages[k].publisher].rcl)
    BY <2>1 DEF AttachedHasRclHandle
  <2>3. messages[k].publisher \in Made
    BY <2>1, <2>2 DEF RefsOK, TrafficOK, MadeMessage, Maybe, IsKnown
  <2>. QED
    BY <2>1, <2>2, <2>3 DEF KeepsRcl
<1>. QED
  BY <1>1, <1>2

LEMMA RclcppPublishKeepsAttached ==
  ASSUME RefsOK, AttachedHasRclHandle, NEW a \in Pointer, RclcppPublish(a)
  PROVE  AttachedHasRclHandle'
<1>. DEFINE o == AfterPublish(DefaultMessage, "rclcpp")
<1>1. NewMessage \in Message
  BY FreshMessage DEF RclcppPublish
<1>2. o.layers = {"rclcpp"}
  BY DefaultMessageType, LayersAfter DEF DefaultMessage
<1>3. /\ messages' = [messages EXCEPT ![NewMessage] = o]
      /\ UNCHANGED <<publishers, publishersByRcl>>
  BY DEF RclcppPublish, registry
<1>4. KeepsRcl(publishers')
  BY <1>3 DEF KeepsRcl
<1>. HIDE DEF o
<1>5. \A h \in RclHandle : publishersByRcl'[h] # Nil =>
        IsKnown(publishers'[publishersByRcl'[h]].rcl)
  BY <1>3 DEF AttachedHasRclHandle
<1>. QED
  BY <1>1, <1>2, <1>3, <1>4, <1>5, AttachedStep

LEMMA RclcppIntraPublishKeepsAttached ==
  ASSUME RefsOK, WaitsInOnePlace, AttachedHasRclHandle,
         NEW a \in Pointer, NEW h \in RclHandle, RclcppIntraPublish(a, h)
  PROVE  AttachedHasRclHandle'
<1>. DEFINE m == messagesByRclcpp[a]
            o == AfterSetPublisher(messages[m], publishersByRcl[h])
<1>1. CASE Panic \/ Fail
  BY <1>1, StopKeepsAttached DEF Panic, Fail
<1>2. CASE m # Nil /\ ~Panic /\ ~Fail
  <2>1. m \in Message /\ messages[m] \in MessageObject
    BY <1>2, MadeMessageObject, WaitingIsMade DEF RefsOK
  <2>2. o.layers = {"rclcpp"}
    <3>1. messages[m].layers = {"rclcpp"}
      BY <1>2 DEF WaitsInOnePlace
    <3>. QED
      BY <2>1, <3>1, LayersAfter
  <2>3. /\ messages' = [messages EXCEPT ![m] = o]
        /\ UNCHANGED <<publishers, publishersByRcl>>
    BY <1>2 DEF RclcppIntraPublish, registry
  <2>4. KeepsRcl(publishers')
    BY <2>3 DEF KeepsRcl
  <2>. HIDE DEF m, o
  <2>5. \A x \in RclHandle : publishersByRcl'[x] # Nil =>
          IsKnown(publishers'[publishersByRcl'[x]].rcl)
    BY <2>3 DEF AttachedHasRclHandle
  <2>. QED
    BY <2>1, <2>2, <2>3, <2>4, <2>5, AttachedStep
<1>. QED
  BY <1>1, <1>2 DEF RclcppIntraPublish

LEMMA RclPublishKeepsAttached ==
  ASSUME RefsOK, AttachedHasRclHandle, NEW a \in Pointer, NEW h \in RclHandle,
         RclPublish(a, h)
  PROVE  AttachedHasRclHandle'
<1>. DEFINE m == IF messagesByRclcpp[a] = Nil THEN NewMessage ELSE messagesByRclcpp[a]
            before == IF messagesByRclcpp[a] = Nil THEN DefaultMessage ELSE messages[m]
            p == IF publishersByRcl[h] = Nil THEN NewPublisher ELSE publishersByRcl[h]
            o == AfterPublish(AfterSetPublisher(before, p), "rcl")
<1>0. RegistryOK /\ TrafficOK
  BY DEF RefsOK
<1>1. CASE Panic
  BY <1>1, StopKeepsAttached DEF Panic
<1>2. CASE ~Panic
  <2>1. /\ messagesByRclcpp[a] = Nil => FreeMessage
        /\ publishersByRcl[h] = Nil => FreePublisher
        /\ messages' = [messages EXCEPT ![m] = o]
        /\ publishersByRcl' = [publishersByRcl EXCEPT ![h] = p]
        /\ publishers' = IF publishersByRcl[h] # Nil THEN publishers
                         ELSE [publishers EXCEPT ![p] = Stub(h)]
    BY <1>2 DEF RclPublish
  <2>2. m \in Message /\ before \in MessageObject
    BY <1>0, <2>1, FreshMessage, DefaultMessageType, MadeMessageObject DEF TrafficOK
  <2>3. KeepsRcl(publishers') /\ p \in Publisher /\ IsKnown(publishers'[p].rcl)
    <3>1. CASE publishersByRcl[h] = Nil
      <4>1. p \in Publisher /\ p \notin Made
        BY <2>1, <3>1, FreshPublisher DEF Made
      <4>2. IsKnown(Stub(h).rcl)
        BY DefaultPublisherType, RclAfter, HandleIsKnown
      <4>. QED
        BY <1>0, <2>1, <3>1, <4>1, <4>2 DEF KeepsRcl, RegistryOK, Made
    <3>2. CASE publishersByRcl[h] # Nil
      BY <1>0, <2>1, <3>2 DEF KeepsRcl, RegistryOK, Made, AttachedHasRclHandle
    <3>. QED
      BY <3>1, <3>2
  <2>4. o.publisher = p
    BY <2>2, <2>3, AfterSetPublisherType, AfterPublishType DEF Layer
  <2>5. IsKnown(p)
    BY <2>3, PublishersAssumption DEF IsKnown
  <2>. HIDE DEF m, before, p, o
  <2>6. ASSUME NEW x \in RclHandle, publishersByRcl'[x] # Nil
        PROVE  IsKnown(publishers'[publishersByRcl'[x]].rcl)
    <3>1. CASE x = h
      BY <1>0, <2>1, <2>3, <3>1 DEF RegistryOK
    <3>2. CASE x # h
      <4>1. publishersByRcl'[x] = publishersByRcl[x] /\ publishersByRcl[x] \in Made
        BY <1>0, <2>1, <2>6, <3>2 DEF RegistryOK
      <4>. QED
        BY <2>3, <2>6, <4>1 DEF KeepsRcl, AttachedHasRclHandle
    <3>. QED
      BY <3>1, <3>2
  <2>. QED
    BY <2>1, <2>2, <2>3, <2>4, <2>5, <2>6, AttachedStep
<1>. QED
  BY <1>1, <1>2

LEMMA RmwPublishKeepsAttached ==
  ASSUME RefsOK, WaitsInOnePlace, AttachedHasRclHandle, NEW a \in Pointer,
         NEW r \in Maybe(RmwHandle), NEW s \in Maybe(Stamp), RmwPublish(a, r, s)
  PROVE  AttachedHasRclHandle'
<1>. DEFINE queued == messagesByRcl[a]
            m == IF queued = Nil THEN NewMessage ELSE queued
            o == IF queued = Nil THEN DefaultMessage ELSE messages[m]
            byRmw == IF IsUnknown(r) THEN Nil ELSE publishersByRmw[r]
            attached == o.publisher
            filed(u) == [AfterPublish(u, "rmw") EXCEPT !.stamp = s]
<1>0. RegistryOK /\ TrafficOK /\ KeepsRcl(publishers)
  BY DEF RefsOK, KeepsRcl
<1>1. queued = Nil => FreeMessage
  BY DEF RmwPublish
<1>2. m \in Message /\ o \in MessageObject
  BY <1>0, <1>1, FreshMessage, DefaultMessageType, MadeMessageObject DEF TrafficOK
<1>3. byRmw \in Made \cup {Nil}
  BY <1>0 DEF RegistryOK, Maybe, IsUnknown
<1>4. \E u \in MessageObject : messages' = [messages EXCEPT ![m] = filed(u)]
  <2>1. byRmw # Nil => AfterSetPublisher(o, byRmw) \in MessageObject
    BY <1>0, <1>2, <1>3, MadeObject, AfterSetPublisherType
  <2>. QED
    BY <1>2, <2>1 DEF RmwPublish, FilePublished
<1>5. PICK u \in MessageObject : messages' = [messages EXCEPT ![m] = filed(u)]
  BY <1>4
<1>6. "rmw" \in filed(u).layers
  <2>1. AfterPublish(u, "rmw") \in MessageObject /\ "rmw" \in AfterPublish(u, "rmw").layers
    BY AfterPublishType, LayersAfter DEF Layer
  <2>. QED
    BY <2>1 DEF MessageObject
<1>7. \A h \in RclHandle : publishersByRcl[h] # Nil => publishersByRcl[h] \in Made
  BY <1>0 DEF RegistryOK
<1>8. CASE UNCHANGED <<publishers, publishersByRcl>>
  <2>1. KeepsRcl(publishers')
    BY <1>8 DEF KeepsRcl
  <2>2. \A h \in RclHandle : publishersByRcl'[h] # Nil =>
          IsKnown(publishers'[publishersByRcl'[h]].rcl)
    BY <1>8 DEF AttachedHasRclHandle
  <2>. HIDE DEF m, filed
  <2>. QED
    BY <1>2, <1>5, <1>6, <2>1, <2>2, AttachedStep
<1>9. CASE /\ IsKnown(attached)
           /\ byRmw # Nil
           /\ publishersByRcl' = [publishersByRcl EXCEPT ![publishers[attached].rcl] = byRmw]
           /\ publishers' = [publishers EXCEPT ![byRmw].rcl = publishers[attached].rcl]
  <2>. DEFINE k == publishers[attached].rcl
              named == [publishers[byRmw] EXCEPT !.rcl = k]
  <2>1. queued # Nil
    BY <1>9 DEF DefaultMessage, IsKnown
  <2>2. queued \in MadeMessage /\ "rcl" \in messages[queued].layers
        /\ "rmw" \notin messages[queued].layers
    BY <1>0, <2>1, WaitingIsMade DEF WaitsInOnePlace
  <2>3. IsKnown(k)
    BY <2>1, <2>2 DEF AttachedHasRclHandle, MadeMessage
  <2>4. byRmw \in Publisher /\ named.rcl = k
    BY <1>0, <1>3, <1>9, MadeObject DEF PublisherObject
  <2>5. publishers' = [publishers EXCEPT ![byRmw] = named]
    BY <1>9
  <2>. HIDE DEF m, o, byRmw, attached, k, named, filed
  <2>6. /\ publishers'[byRmw] = named
        /\ \A x \in Publisher : x # byRmw => publishers'[x] = publishers[x]
    BY <1>0, <2>4, <2>5 DEF RegistryOK
  <2>7. KeepsRcl(publishers')
    BY <2>3, <2>4, <2>6 DEF KeepsRcl, Made
  <2>8. ASSUME NEW h \in RclHandle, publishersByRcl'[h] # Nil
        PROVE  IsKnown(publishers'[publishersByRcl'[h]].rcl)
    <3>1. publishersByRcl'[h] \in {byRmw, publishersByRcl[h]}
      BY <1>0, <1>9 DEF RegistryOK
    <3>2. CASE publishersByRcl'[h] = byRmw
      BY <2>3, <2>4, <2>6, <3>2
    <3>3. CASE publishersByRcl'[h] = publishersByRcl[h]
      BY <1>7, <2>7, <2>8, <3>3 DEF AttachedHasRclHandle, KeepsRcl
    <3>. QED
      BY <3>1, <3>2, <3>3
  <2>. QED
    BY <1>2, <1>5, <1>6, <2>7, <2>8, AttachedStep
<1>. QED
  BY <1>8, <1>9 DEF RmwPublish

(* rmw_publish finds an rcl handle at the publisher of every message that waits
   for it, so the unwrap there cannot fail, whatever events are missing. *)
THEOREM AttachedAlwaysHasRclHandle == Spec => []AttachedHasRclHandle
<1>1. Init => AttachedHasRclHandle
  BY DEF Init, AttachedHasRclHandle
<1>2. RefsOK /\ WaitsInOnePlace /\ AttachedHasRclHandle /\ [Next]_vars => AttachedHasRclHandle'
  <2> SUFFICES ASSUME RefsOK, WaitsInOnePlace, AttachedHasRclHandle, [Next]_vars
               PROVE  AttachedHasRclHandle'
    OBVIOUS
  <2>1. CASE UNCHANGED vars
    BY <2>1, StopKeepsAttached DEF vars
  <2>2. ASSUME NEW n \in NodeHandle, RclNodeInit(n) PROVE AttachedHasRclHandle'
    BY <2>2 DEF RclNodeInit, Panic, registry, traffic, AttachedHasRclHandle
  <2>3. CASE Registration
    BY <2>2, <2>3, RmwPublisherInitKeepsAttached, RclPublisherInitKeepsAttached
    DEF Registration
  <2>4. CASE Publication
    BY <2>4, RclcppPublishKeepsAttached, RclcppIntraPublishKeepsAttached,
       RclPublishKeepsAttached, RmwPublishKeepsAttached
    DEF Publication
  <2>. QED
    BY <2>1, <2>3, <2>4 DEF Next
<1>. QED
  BY <1>1, <1>2, RefsAreKept, MessagesWaitInOnePlace, PTL DEF Spec
-----------------------------------------------------------------------------
(* LiveIsFoundByRmw as a relation between a heap of publishers and the rmw
   registry: an action is a series of writes, each of which keeps it. *)
Heap == [Publisher -> PublisherObject \cup {Nil}]

LiveIn(heap, registered) ==
  /\ \A p \in Publisher :
       heap[p] # Nil /\ ~heap[p].removed /\ IsKnown(heap[p].rmw)
         => registered[heap[p].rmw] = p
  /\ \A r \in RmwHandle : registered[r] # Nil =>
       /\ registered[r] \in Publisher
       /\ heap[registered[r]] # Nil
       /\ heap[registered[r]].rmw \in {r, Unknown}
       /\ \A q \in RmwHandle : registered[q] = registered[r] => q = r

LEMMA LiveMeansFound ==
  ASSUME RefsOK
  PROVE  LiveIsFoundByRmw <=> LiveIn(publishers, publishersByRmw)
<1>1. \A r \in RmwHandle : publishersByRmw[r] # Nil =>
        publishersByRmw[r] \in Publisher /\ publishers[publishersByRmw[r]] # Nil
  BY DEF RefsOK, RegistryOK, Made
<1>. QED
  BY <1>1 DEF LiveIsFoundByRmw, LiveIn

LEMMA LiveMeansFoundNext ==
  ASSUME RefsOK'
  PROVE  LiveIsFoundByRmw' <=> LiveIn(publishers', publishersByRmw')
<1>1. \A r \in RmwHandle : publishersByRmw'[r] # Nil =>
        publishersByRmw'[r] \in Publisher /\ publishers'[publishersByRmw'[r]] # Nil
  BY DEF RefsOK, RegistryOK, Made
<1>. QED
  BY <1>1 DEF LiveIsFoundByRmw, LiveIn

(* An object that keeps its rmw handle and does not come back to life, or a new
   one without handle. *)
LEMMA LiveRewrite ==
  ASSUME NEW heap \in Heap, NEW registered, LiveIn(heap, registered),
         NEW p \in Publisher, NEW o \in PublisherObject,
         IF heap[p] = Nil THEN o.rmw = Unknown
         ELSE o.rmw = heap[p].rmw /\ (heap[p].removed => o.removed)
  PROVE  LiveIn([heap EXCEPT ![p] = o], registered)
<1>. DEFINE after == [heap EXCEPT ![p] = o]
<1>1. after[p] = o /\ \A q \in Publisher : q # p => after[q] = heap[q]
  BY DEF Heap
<1>2. o # Nil
  BY NilIsNothing
<1>. HIDE DEF after
<1>3. ASSUME NEW q \in Publisher, after[q] # Nil, ~after[q].removed, IsKnown(after[q].rmw)
      PROVE  registered[after[q].rmw] = q
  <2>1. CASE q = p
    <3>1. heap[p] # Nil
      BY <1>1, <1>3, <2>1 DEF IsKnown
    <3>2. ~heap[p].removed /\ heap[p].rmw = o.rmw /\ IsKnown(heap[p].rmw)
      BY <1>1, <1>3, <2>1, <3>1
    <3>. QED
      BY <1>1, <2>1, <3>1, <3>2 DEF LiveIn
  <2>2. CASE q # p
    BY <1>1, <1>3, <2>2 DEF LiveIn
  <2>. QED
    BY <2>1, <2>2
<1>4. ASSUME NEW r \in RmwHandle, registered[r] # Nil
      PROVE  /\ registered[r] \in Publisher
             /\ after[registered[r]] # Nil
             /\ after[registered[r]].rmw \in {r, Unknown}
             /\ \A q \in RmwHandle : registered[q] = registered[r] => q = r
  <2>1. /\ registered[r] \in Publisher
        /\ heap[registered[r]] # Nil
        /\ heap[registered[r]].rmw \in {r, Unknown}
        /\ \A q \in RmwHandle : registered[q] = registered[r] => q = r
    BY <1>4 DEF LiveIn
  <2>2. CASE registered[r] = p
    BY <1>1, <1>2, <2>1, <2>2
  <2>3. CASE registered[r] # p
    BY <1>1, <2>1, <2>3
  <2>. QED
    BY <2>1, <2>2, <2>3
<1>5. LiveIn(after, registered)
  BY <1>3, <1>4 DEF LiveIn
<1>. QED
  BY <1>5 DEF after

(* An object that takes the handle r over from a removed one, or is new at r or
   there already. *)
LEMMA LiveWrite ==
  ASSUME NEW heap \in Heap, NEW r \in RmwHandle,
         NEW registered \in [RmwHandle -> Publisher \cup {Nil}], LiveIn(heap, registered),
         NEW p \in Publisher, NEW o \in PublisherObject, o.rmw \in {r, Unknown},
         heap[p] = Nil \/ registered[r] = p,
         registered[r] = Nil \/ registered[r] = p \/ heap[registered[r]].removed
  PROVE  LiveIn([heap EXCEPT ![p] = o], [registered EXCEPT ![r] = p])
<1>. DEFINE after == [heap EXCEPT ![p] = o]
            found == [registered EXCEPT ![r] = p]
<1>1. after[p] = o /\ \A q \in Publisher : q # p => after[q] = heap[q]
  BY DEF Heap
<1>2. found[r] = p /\ \A k \in RmwHandle : k # r => found[k] = registered[k]
  OBVIOUS
<1>3. o # Nil /\ p # Nil
  BY NilIsNothing
<1>4. \A k \in RmwHandle : k # r => registered[k] # p
  BY <1>3 DEF LiveIn
<1>5. \A q \in Publisher : heap[q] # Nil => heap[q].rmw \in Maybe(RmwHandle)
  BY DEF Heap, PublisherObject
<1>. HIDE DEF after, found
<1>6. ASSUME NEW q \in Publisher, after[q] # Nil, ~after[q].removed, IsKnown(after[q].rmw)
      PROVE  found[after[q].rmw] = q
  <2>1. CASE q = p
    BY <1>1, <1>2, <1>6, <2>1 DEF IsKnown
  <2>2. CASE q # p
    <3>1. /\ heap[q] # Nil /\ ~heap[q].removed /\ IsKnown(heap[q].rmw)
          /\ registered[heap[q].rmw] = q
          /\ after[q].rmw = heap[q].rmw
      BY <1>1, <1>6, <2>2 DEF LiveIn
    <3>2. heap[q].rmw \in RmwHandle
      BY <1>5, <3>1 DEF IsKnown, Maybe
    <3>3. heap[q].rmw # r
      BY <2>2, <3>1, NilIsNothing
    <3>. QED
      BY <1>2, <3>1, <3>2, <3>3
  <2>. QED
    BY <2>1, <2>2
<1>7. ASSUME NEW k \in RmwHandle, found[k] # Nil
      PROVE  /\ found[k] \in Publisher
             /\ after[found[k]] # Nil
             /\ after[found[k]].rmw \in {k, Unknown}
             /\ \A q \in RmwHandle : found[q] = found[k] => q = k
  <2>1. CASE k = r
    BY <1>1, <1>2, <1>3, <1>4, <2>1
  <2>2. CASE k # r
    <3>1. /\ found[k] = registered[k] /\ registered[k] # p
          /\ registered[k] \in Publisher
          /\ heap[registered[k]] # Nil
          /\ heap[registered[k]].rmw \in {k, Unknown}
          /\ \A q \in RmwHandle : registered[q] = registered[k] => q = k
      BY <1>2, <1>4, <1>7, <2>2 DEF LiveIn
    <3>. QED
      BY <1>1, <1>2, <3>1
  <2>. QED
    BY <2>1, <2>2
<1>8. LiveIn(after, found)
  BY <1>6, <1>7 DEF LiveIn
<1>. QED
  BY <1>8 DEF after, found

(* The rmw handle and the mark of an object, after each method. *)
LEMMA RmwAfterRmwInit ==
  ASSUME NEW o \in PublisherObject, NEW r, NEW g
  PROVE  AfterRmwInit(o, r, g).rmw = r
  BY DEF AfterRmwInit, PublisherObject

LEMMA RmwAfterRclInit ==
  ASSUME NEW o \in PublisherObject, NEW h, NEW t, NEW n
  PROVE  AfterRclInit(o, h, t, n).rmw = o.rmw /\ AfterRclInit(o, h, t, n).removed = o.removed
  BY DEF AfterRclInit, PublisherObject

LEMMA RmwAfterRemoval ==
  ASSUME NEW o \in PublisherObject
  PROVE  AfterRemoval(o).rmw = o.rmw /\ AfterRemoval(o).removed
  BY DEF AfterRemoval, PublisherObject

LEMMA StopKeepsLive ==
  ASSUME LiveIsFoundByRmw, UNCHANGED <<publishers, publishersByRmw>>
  PROVE  LiveIsFoundByRmw'
  BY DEF LiveIsFoundByRmw

(* Marking the object p removed and writing a new one that takes its handle. *)
LEMMA LiveReplace ==
  ASSUME NEW heap \in Heap, NEW r \in RmwHandle,
         NEW registered \in [RmwHandle -> Publisher \cup {Nil}], LiveIn(heap, registered),
         registered[r] # Nil,
         NEW q \in Publisher, heap[q] = Nil,
         NEW o \in PublisherObject, o.rmw \in {r, Unknown}
  PROVE  LiveIn([heap EXCEPT ![registered[r]] = AfterRemoval(@), ![q] = o],
                [registered EXCEPT ![r] = q])
<1>. DEFINE p == registered[r]
            gone == AfterRemoval(heap[p])
            first == [heap EXCEPT ![p] = gone]
<1>1. p \in Publisher /\ heap[p] # Nil /\ heap[p] \in PublisherObject
  BY DEF LiveIn, Heap
<1>2. gone \in PublisherObject /\ gone.rmw = heap[p].rmw /\ gone.removed
  BY <1>1, AfterRemovalType, RmwAfterRemoval
<1>. HIDE DEF gone
<1>3. first \in Heap /\ first[p] = gone /\ first[q] = Nil
  BY <1>1, <1>2 DEF Heap
<1>4. LiveIn(first, registered)
  BY <1>1, <1>2, LiveRewrite
<1>. HIDE DEF first
<1>5. LiveIn([first EXCEPT ![q] = o], [registered EXCEPT ![r] = q])
  BY <1>2, <1>3, <1>4, LiveWrite
<1>6. [first EXCEPT ![q] = o] = [heap EXCEPT ![p] = AfterRemoval(@), ![q] = o]
  BY DEF first, gone
<1>. QED
  BY <1>5, <1>6

LEMMA RmwPublisherInitKeepsLive ==
  ASSUME RefsOK, LiveIsFoundByRmw, NEW r \in RmwHandle, NEW g \in Gid, RmwPublisherInit(r, g),
         RefsOK'
  PROVE  LiveIsFoundByRmw'
<1>. DEFINE p == publishersByRmw[r]
            q == NewPublisher
            new == AfterRmwInit(DefaultPublisher, r, g)
<1>0. /\ publishers \in Heap /\ publishersByRmw \in [RmwHandle -> Publisher \cup {Nil}]
      /\ p \in Made \cup {Nil} /\ RegistryOK
  BY DEF RefsOK, RegistryOK, Heap, Made
<1>1. LiveIn(publishers, publishersByRmw)
  BY LiveMeansFound
<1>2. new \in PublisherObject /\ new.rmw = r
  BY DefaultPublisherType, AfterRmwInitType, RmwAfterRmwInit
<1>3. LiveIsFoundByRmw' <=> LiveIn(publishers', publishersByRmw')
  BY LiveMeansFoundNext
<1>. HIDE DEF new
<1>4. CASE Panic
  BY <1>4, StopKeepsLive DEF Panic, registry
<1>5. CASE /\ p = Nil
           /\ FreePublisher
           /\ publishers' = [publishers EXCEPT ![q] = new]
           /\ publishersByRmw' = [publishersByRmw EXCEPT ![r] = q]
  BY <1>0, <1>1, <1>2, <1>3, <1>5, FreshPublisher, LiveWrite
<1>6. CASE /\ p # Nil
           /\ publishers' = [publishers EXCEPT ![p] = AfterRmwInit(@, r, g)]
           /\ UNCHANGED publishersByRmw
  <2>. DEFINE o == AfterRmwInit(publishers[p], r, g)
  <2>1. p \in Publisher /\ o \in PublisherObject /\ o.rmw = r
    BY <1>0, <1>6, MadeObject, AfterRmwInitType, RmwAfterRmwInit
  <2>2. /\ publishers' = [publishers EXCEPT ![p] = o]
        /\ publishersByRmw' = [publishersByRmw EXCEPT ![r] = p]
    BY <1>0, <1>6
  <2>. HIDE DEF o
  <2>. QED
    BY <1>0, <1>1, <1>3, <2>1, <2>2, LiveWrite
<1>7. CASE /\ p # Nil
           /\ FreePublisher
           /\ publishers' = [publishers EXCEPT ![p] = AfterRemoval(@), ![q] = new]
           /\ publishersByRmw' = [publishersByRmw EXCEPT ![r] = q]
  BY <1>0, <1>1, <1>2, <1>3, <1>7, FreshPublisher, LiveReplace
<1>. QED
  BY <1>4, <1>5, <1>6, <1>7 DEF RmwPublisherInit, new

(* What rcl_publisher_init wrote before it marks the former publisher of the
   rcl handle decides. *)
LEMMA RegisterKeepsLive ==
  ASSUME RefsOK', NEW heap, Extends(heap), LiveIn(heap, publishersByRmw'), RefsOK,
         NEW p \in Publisher, NEW h \in RclHandle, NEW n \in NodeHandle,
         RegisterByRcl(heap, p, h, n)
  PROVE  LiveIsFoundByRmw'
<1>. DEFINE old == publishersByRcl[h]
<1>1. LiveIsFoundByRmw' <=> LiveIn(publishers', publishersByRmw')
  BY LiveMeansFoundNext
<1>2. CASE old = Nil
  BY <1>1, <1>2 DEF RegisterByRcl
<1>3. CASE old # Nil
  <2>. DEFINE gone == AfterRemoval(heap[old])
  <2>1. old \in Publisher /\ heap[old] # Nil /\ heap[old] \in PublisherObject /\ heap \in Heap
    BY <1>3 DEF Made, Extends, RefsOK, RegistryOK, Heap
  <2>2. gone \in PublisherObject /\ gone.rmw = heap[old].rmw /\ gone.removed
    BY <2>1, AfterRemovalType, RmwAfterRemoval
  <2>3. publishers' = [heap EXCEPT ![old] = gone]
    BY <1>3 DEF RegisterByRcl
  <2>. HIDE DEF gone
  <2>. QED
    BY <1>1, <2>1, <2>2, <2>3, LiveRewrite
<1>. QED
  BY <1>2, <1>3

LEMMA RclPublisherInitKeepsLive ==
  ASSUME RefsOK, LiveIsFoundByRmw, NEW r \in RmwHandle, NEW h \in RclHandle,
         NEW t \in Topic, NEW n \in NodeHandle, RclPublisherInit(r, h, t, n), RefsOK'
  PROVE  LiveIsFoundByRmw'
<1>. DEFINE p == publishersByRmw[r]
            q == NewPublisher
<1>0. /\ publishers \in Heap /\ publishersByRmw \in [RmwHandle -> Publisher \cup {Nil}]
      /\ p \in Made \cup {Nil} /\ RegistryOK /\ Extends(publishers)
  BY DEF RefsOK, RegistryOK, Heap, Made, Extends
<1>1. LiveIn(publishers, publishersByRmw)
  BY LiveMeansFound
<1>2. CASE Panic
  BY <1>2, StopKeepsLive DEF Panic, registry
<1>3. CASE /\ p = Nil
           /\ FreePublisher
           /\ RegisterByRcl(
                [publishers EXCEPT
                   ![q] = AfterRclInit([DefaultPublisher EXCEPT !.rmw = r], h, t, n)], q, h, n)
           /\ publishersByRmw' = [publishersByRmw EXCEPT ![r] = q]
  <2>. DEFINE o == [DefaultPublisher EXCEPT !.rmw = r]
              new == AfterRclInit(o, h, t, n)
              heap == [publishers EXCEPT ![q] = new]
  <2>1. o \in PublisherObject /\ o.rmw = r
    BY DefaultPublisherType DEF PublisherObject, Maybe
  <2>2. RegisterByRcl(heap, q, h, n)
    BY <1>3
  <2>3. q \in Publisher /\ publishers[q] = Nil
    BY <1>3, FreshPublisher
  <2>. HIDE DEF o
  <2>4. new \in PublisherObject /\ new.rmw = r
    BY <2>1, AfterRclInitType, RmwAfterRclInit
  <2>. HIDE DEF new
  <2>5. Extends(heap) /\ LiveIn(heap, publishersByRmw')
    BY <1>0, <1>1, <1>3, <2>3, <2>4, ExtendsWrite, LiveWrite
  <2>. HIDE DEF heap
  <2>. QED
    BY <2>2, <2>3, <2>5, RegisterKeepsLive
<1>4. CASE /\ p # Nil
           /\ RegisterByRcl([publishers EXCEPT ![p] = AfterRclInit(@, h, t, n)], p, h, n)
           /\ UNCHANGED publishersByRmw
  <2>. DEFINE new == AfterRclInit(publishers[p], h, t, n)
              heap == [publishers EXCEPT ![p] = new]
  <2>1. p \in Publisher /\ publishers[p] # Nil /\ publishers[p] \in PublisherObject
    BY <1>0, <1>4, MadeObject DEF Made
  <2>2. /\ new \in PublisherObject /\ new.rmw = publishers[p].rmw
        /\ new.removed = publishers[p].removed
    BY <2>1, AfterRclInitType, RmwAfterRclInit
  <2>3. RegisterByRcl(heap, p, h, n)
    BY <1>4
  <2>. HIDE DEF new
  <2>4. Extends(heap) /\ LiveIn(heap, publishersByRmw')
    BY <1>0, <1>1, <1>4, <2>1, <2>2, ExtendsWrite, LiveRewrite
  <2>. HIDE DEF heap
  <2>. QED
    BY <2>1, <2>3, <2>4, RegisterKeepsLive
<1>5. CASE /\ p # Nil
           /\ FreePublisher
           /\ RegisterByRcl([publishers EXCEPT
                               ![p] = AfterRemoval(@),
                               ![q] = AfterRclInit(DefaultPublisher, h, t, n)], q, h, n)
           /\ publishersByRmw' = [publishersByRmw EXCEPT ![r] = q]
  <2>. DEFINE new == AfterRclInit(DefaultPublisher, h, t, n)
              gone == AfterRemoval(publishers[p])
              first == [publishers EXCEPT ![p] = gone]
              heap == [publishers EXCEPT ![p] = AfterRemoval(@), ![q] = new]
  <2>1. new \in PublisherObject /\ new.rmw = Unknown
    BY DefaultPublisherType, AfterRclInitType, RmwAfterRclInit DEF DefaultPublisher
  <2>2. q \in Publisher /\ publishers[q] = Nil
    BY <1>5, FreshPublisher
  <2>3. RegisterByRcl(heap, q, h, n)
    BY <1>5
  <2>4. p \in Publisher /\ gone \in PublisherObject
    BY <1>0, <1>5, MadeObject, AfterRemovalType
  <2>. HIDE DEF new
  <2>5. LiveIn(heap, publishersByRmw')
    BY <1>0, <1>1, <1>5, <2>1, <2>2, LiveReplace
  <2>6. heap = [first EXCEPT ![q] = new]
    OBVIOUS
  <2>. HIDE DEF gone, heap
  <2>7. Extends(first)
    BY <1>0, <2>4, ExtendsWrite
  <2>. HIDE DEF first
  <2>8. Extends(heap)
    BY <2>1, <2>2, <2>6, <2>7, ExtendsWrite
  <2>. QED
    BY <2>2, <2>3, <2>5, <2>8, RegisterKeepsLive
<1>. QED
  BY <1>2, <1>3, <1>4, <1>5 DEF RclPublisherInit

LEMMA RclPublishKeepsLive ==
  ASSUME RefsOK, LiveIsFoundByRmw, NEW a \in Pointer, NEW h \in RclHandle,
         RclPublish(a, h), RefsOK'
  PROVE  LiveIsFoundByRmw'
<1>1. CASE Panic
  BY <1>1, StopKeepsLive DEF Panic, registry
<1>2. CASE UNCHANGED <<publishers, publishersByRmw>>
  BY <1>2, StopKeepsLive
<1>3. CASE /\ FreePublisher
           /\ publishers' = [publishers EXCEPT ![NewPublisher] = Stub(h)]
           /\ UNCHANGED publishersByRmw
  <2>1. Stub(h) \in PublisherObject /\ Stub(h).rmw = Unknown
    BY StubType DEF Stub, DefaultPublisher
  <2>2. NewPublisher \in Publisher /\ publishers[NewPublisher] = Nil /\ publishers \in Heap
    BY <1>3, FreshPublisher DEF RefsOK, RegistryOK, Heap
  <2>3. LiveIn(publishers', publishersByRmw')
    BY <1>3, <2>1, <2>2, LiveMeansFound, LiveRewrite
  <2>. QED
    BY <2>3, LiveMeansFoundNext
<1>. QED
  BY <1>1, <1>2, <1>3 DEF RclPublish

LEMMA RmwPublishKeepsLive ==
  ASSUME RefsOK, LiveIsFoundByRmw, NEW a \in Pointer,
         NEW r \in Maybe(RmwHandle), NEW s \in Maybe(Stamp), RmwPublish(a, r, s), RefsOK'
  PROVE  LiveIsFoundByRmw'
<1>. DEFINE queued == messagesByRcl[a]
            m == IF queued = Nil THEN NewMessage ELSE queued
            u == IF queued = Nil THEN DefaultMessage ELSE messages[m]
            byRmw == IF IsUnknown(r) THEN Nil ELSE publishersByRmw[r]
            h == publishers[u.publisher].rcl
            o == [publishers[byRmw] EXCEPT !.rcl = h]
<1>0. RegistryOK /\ UNCHANGED publishersByRmw
  BY DEF RefsOK, RmwPublish, FilePublished
<1>1. CASE UNCHANGED publishers
  BY <1>0, <1>1, StopKeepsLive
<1>2. CASE /\ IsKnown(u.publisher)
           /\ byRmw # Nil
           /\ publishers' = [publishers EXCEPT ![byRmw].rcl = h]
  <2>1. byRmw \in Made
    BY <1>0, <1>2 DEF RegistryOK, Maybe, IsUnknown
  <2>2. /\ byRmw \in Publisher /\ publishers[byRmw] \in PublisherObject
        /\ publishers[byRmw] # Nil /\ publishers \in Heap
    BY <1>0, <2>1, MadeObject DEF Made, Heap, RegistryOK
  <2>3. u.publisher \in Made
    <3>1. queued # Nil
      BY <1>2 DEF DefaultMessage, IsKnown
    <3>. QED
      BY <1>2, <3>1, WaitingIsMade DEF RefsOK, TrafficOK, Maybe, IsKnown
  <2>4. h \in Maybe(RclHandle)
    BY <1>0, <2>3, MadeObject DEF PublisherObject
  <2>5. publishers' = [publishers EXCEPT ![byRmw] = o]
    BY <1>2
  <2>. HIDE DEF h, byRmw
  <2>6. /\ o \in PublisherObject
        /\ o.rmw = publishers[byRmw].rmw /\ o.removed = publishers[byRmw].removed
    BY <2>2, <2>4 DEF PublisherObject
  <2>. HIDE DEF o
  <2>7. LiveIn(publishers', publishersByRmw')
    BY <1>0, <2>2, <2>5, <2>6, LiveMeansFound, LiveRewrite
  <2>. QED
    BY <2>7, LiveMeansFoundNext
<1>. QED
  BY <1>1, <1>2 DEF RmwPublish

(* A publisher that was not marked removed is found under its own rmw handle,
   and a handle never finds two owners: no order of initialisation, deletion
   and re-use of addresses hides a live publisher from the events that name it. *)
THEOREM LiveAlwaysFoundByRmw == Spec => []LiveIsFoundByRmw
<1>1. Init => LiveIsFoundByRmw
  BY DEF Init, LiveIsFoundByRmw
<1>2. RefsOK /\ RefsOK' /\ LiveIsFoundByRmw /\ [Next]_vars => LiveIsFoundByRmw'
  <2> SUFFICES ASSUME RefsOK, RefsOK', LiveIsFoundByRmw, [Next]_vars
               PROVE  LiveIsFoundByRmw'
    OBVIOUS
  <2>1. CASE UNCHANGED vars
    BY <2>1, StopKeepsLive DEF vars, registry
  <2>2. CASE UNCHANGED registry
    BY <2>2, StopKeepsLive DEF registry
  <2>3. ASSUME NEW n \in NodeHandle, RclNodeInit(n) PROVE LiveIsFoundByRmw'
    BY <2>3, StopKeepsLive DEF RclNodeInit, Panic, registry
  <2>4. CASE Registration
    BY <2>3, <2>4, RmwPublisherInitKeepsLive, RclPublisherInitKeepsLive DEF Registration
  <2>5. ASSUME NEW a \in Pointer, NEW h \in RclHandle, RclcppIntraPublish(a, h)
        PROVE  LiveIsFoundByRmw'
    BY <2>2, <2>5 DEF RclcppIntraPublish, Fail, Panic
  <2>6. CASE Publication
    BY <2>2, <2>5, <2>6, RclPublishKeepsLive, RmwPublishKeepsLive
    DEF Publication, RclcppPublish
  <2>. QED
    BY <2>1, <2>4, <2>6 DEF Next
<1>. QED
  BY <1>1, <1>2, RefsAreKept, PTL DEF Spec
-----------------------------------------------------------------------------
(* The topic of a publisher comes with its rcl handle in rcl_publisher_init,
   which happens once: no known topic changes afterwards. *)
TopicHasRcl(heap) ==
  \A p \in Publisher : heap[p] # Nil /\ IsKnown(heap[p].topic) => IsKnown(heap[p].rcl)

KeepsTopics(before, heap) ==
  \A p \in Publisher : before[p] # Nil =>
    heap[p] # Nil /\ (IsKnown(before[p].topic) => heap[p].topic = before[p].topic)

LEMMA TopicWrite ==
  ASSUME NEW heap \in Heap, TopicHasRcl(heap),
         NEW before, KeepsTopics(before, heap),
         NEW p \in Publisher, NEW o \in PublisherObject,
         IsKnown(o.topic) => IsKnown(o.rcl),
         heap[p] # Nil /\ IsKnown(heap[p].topic) => o.topic = heap[p].topic
  PROVE  /\ [heap EXCEPT ![p] = o] \in Heap
         /\ TopicHasRcl([heap EXCEPT ![p] = o])
         /\ KeepsTopics(before, [heap EXCEPT ![p] = o])
<1>. DEFINE after == [heap EXCEPT ![p] = o]
<1>1. after \in Heap /\ after[p] = o /\ \A q \in Publisher : q # p => after[q] = heap[q]
  BY DEF Heap
<1>2. o # Nil
  BY NilIsNothing
<1>. HIDE DEF after
<1>3. TopicHasRcl(after)
  BY <1>1 DEF TopicHasRcl
<1>4. ASSUME NEW q \in Publisher, before[q] # Nil
      PROVE  after[q] # Nil /\ (IsKnown(before[q].topic) => after[q].topic = before[q].topic)
  <2>1. heap[q] # Nil /\ (IsKnown(before[q].topic) => heap[q].topic = before[q].topic)
    BY <1>4 DEF KeepsTopics
  <2>2. CASE q = p
    <3>1. IsKnown(before[p].topic) => IsKnown(heap[p].topic) /\ o.topic = before[p].topic
      BY <2>1, <2>2
    <3>. QED
      BY <1>1, <1>2, <2>2, <3>1
  <2>3. CASE q # p
    BY <1>1, <2>1, <2>3
  <2>. QED
    BY <2>2, <2>3
<1>5. KeepsTopics(before, after)
  BY <1>4 DEF KeepsTopics
<1>. QED
  BY <1>1, <1>3, <1>5 DEF after

(* The topic of an object, after each method. *)
LEMMA TopicAfterRmwInit ==
  ASSUME NEW o \in PublisherObject, NEW r, NEW g
  PROVE  AfterRmwInit(o, r, g).topic = o.topic /\ AfterRmwInit(o, r, g).rcl = o.rcl
  BY DEF AfterRmwInit, PublisherObject

LEMMA TopicAfterRemoval ==
  ASSUME NEW o \in PublisherObject
  PROVE  AfterRemoval(o).topic = o.topic /\ AfterRemoval(o).rcl = o.rcl
  BY DEF AfterRemoval, PublisherObject

LEMMA TopicAfterRclInit ==
  ASSUME NEW o \in PublisherObject, NEW h \in RclHandle, NEW t, NEW n
  PROVE  IsKnown(AfterRclInit(o, h, t, n).rcl)
  BY HandleIsKnown DEF AfterRclInit, PublisherObject

(* Marking an object removed keeps its topic. *)
LEMMA TopicMark ==
  ASSUME NEW heap \in Heap, TopicHasRcl(heap), NEW before, KeepsTopics(before, heap),
         NEW p \in Publisher, heap[p] # Nil
  PROVE  /\ [heap EXCEPT ![p] = AfterRemoval(@)] \in Heap
         /\ TopicHasRcl([heap EXCEPT ![p] = AfterRemoval(@)])
         /\ KeepsTopics(before, [heap EXCEPT ![p] = AfterRemoval(@)])
<1>. DEFINE gone == AfterRemoval(heap[p])
<1>1. heap[p] \in PublisherObject
  BY DEF Heap
<1>2. gone \in PublisherObject /\ gone.topic = heap[p].topic /\ gone.rcl = heap[p].rcl
  BY <1>1, AfterRemovalType, TopicAfterRemoval
<1>3. [heap EXCEPT ![p] = AfterRemoval(@)] = [heap EXCEPT ![p] = gone]
  OBVIOUS
<1>. HIDE DEF gone
<1>4. IsKnown(gone.topic) => IsKnown(gone.rcl)
  BY <1>2 DEF TopicHasRcl
<1>. QED
  BY <1>2, <1>3, <1>4, TopicWrite

(* What a step makes of the heap of publishers. *)
TopicsKept == TopicHasRcl(publishers') /\ KeepsTopics(publishers, publishers')

LEMMA SameTopics ==
  ASSUME TopicHasRcl(publishers), UNCHANGED publishers
  PROVE  TopicsKept
  BY DEF TopicHasRcl, TopicsKept, KeepsTopics

LEMMA RmwPublisherInitKeepsTopics ==
  ASSUME RefsOK, TopicHasRcl(publishers), NEW r \in RmwHandle, NEW g \in Gid,
         RmwPublisherInit(r, g)
  PROVE  TopicsKept
<1>. DEFINE p == publishersByRmw[r]
            q == NewPublisher
            new == AfterRmwInit(DefaultPublisher, r, g)
<1>0. /\ publishers \in Heap /\ p \in Made \cup {Nil} /\ RegistryOK
      /\ KeepsTopics(publishers, publishers)
  BY DEF RefsOK, RegistryOK, Heap, KeepsTopics
<1>1. new \in PublisherObject /\ ~IsKnown(new.topic)
  <2>1. ~IsKnown(DefaultPublisher.topic)
    BY DEF DefaultPublisher, IsKnown
  <2>. QED
    BY <2>1, DefaultPublisherType, AfterRmwInitType, TopicAfterRmwInit
<1>. HIDE DEF new
<1>2. CASE UNCHANGED publishers
  BY <1>2, SameTopics
<1>3. CASE FreePublisher /\ publishers' = [publishers EXCEPT ![q] = new]
  BY <1>0, <1>1, <1>3, FreshPublisher, TopicWrite DEF TopicsKept
<1>4. CASE /\ p # Nil
           /\ publishers' = [publishers EXCEPT ![p] = AfterRmwInit(@, r, g)]
  <2>. DEFINE o == AfterRmwInit(publishers[p], r, g)
  <2>1. p \in Publisher /\ publishers[p] # Nil /\ publishers[p] \in PublisherObject
    BY <1>0, <1>4, MadeObject DEF Made
  <2>2. o \in PublisherObject /\ o.topic = publishers[p].topic /\ o.rcl = publishers[p].rcl
    BY <2>1, AfterRmwInitType, TopicAfterRmwInit
  <2>3. publishers' = [publishers EXCEPT ![p] = o]
    BY <1>4
  <2>4. IsKnown(o.topic) => IsKnown(o.rcl)
    BY <2>1, <2>2 DEF TopicHasRcl
  <2>. HIDE DEF o
  <2>. QED
    BY <1>0, <2>1, <2>2, <2>3, <2>4, TopicWrite DEF TopicsKept
<1>5. CASE /\ p # Nil
           /\ FreePublisher
           /\ publishers' = [publishers EXCEPT ![p] = AfterRemoval(@), ![q] = new]
  <2>. DEFINE first == [publishers EXCEPT ![p] = AfterRemoval(@)]
  <2>1. p \in Publisher /\ publishers[p] # Nil /\ q \in Publisher /\ publishers[q] = Nil
    BY <1>0, <1>5, FreshPublisher DEF Made
  <2>2. first \in Heap /\ TopicHasRcl(first) /\ KeepsTopics(publishers, first)
    BY <1>0, <2>1, TopicMark
  <2>3. first[q] = Nil /\ publishers' = [first EXCEPT ![q] = new]
    BY <1>0, <1>5, <2>1
  <2>. HIDE DEF first
  <2>. QED
    BY <1>1, <2>1, <2>2, <2>3, TopicWrite DEF TopicsKept
<1>. QED
  BY <1>2, <1>3, <1>4, <1>5 DEF RmwPublisherInit, Panic, registry, new

LEMMA RegisterKeepsTopics ==
  ASSUME RefsOK, NEW heap \in Heap, TopicHasRcl(heap), KeepsTopics(publishers, heap),
         NEW p \in Publisher, NEW h \in RclHandle, NEW n \in NodeHandle,
         RegisterByRcl(heap, p, h, n)
  PROVE  TopicsKept
<1>. DEFINE old == publishersByRcl[h]
<1>1. CASE old = Nil
  BY <1>1 DEF RegisterByRcl, TopicsKept
<1>2. CASE old # Nil
  <2>1. old \in Publisher /\ heap[old] # Nil
    BY <1>2 DEF RefsOK, RegistryOK, Made, KeepsTopics
  <2>2. publishers' = [heap EXCEPT ![old] = AfterRemoval(@)]
    BY <1>2 DEF RegisterByRcl
  <2>. QED
    BY <2>1, <2>2, TopicMark DEF TopicsKept
<1>. QED
  BY <1>1, <1>2

LEMMA RclPublisherInitKeepsTopics ==
  ASSUME RefsOK, TopicHasRcl(publishers), NEW r \in RmwHandle, NEW h \in RclHandle,
         NEW t \in Topic, NEW n \in NodeHandle, RclPublisherInit(r, h, t, n)
  PROVE  TopicsKept
<1>. DEFINE p == publishersByRmw[r]
            q == NewPublisher
<1>0. /\ publishers \in Heap /\ p \in Made \cup {Nil} /\ RegistryOK
      /\ KeepsTopics(publishers, publishers)
  BY DEF RefsOK, RegistryOK, Heap, KeepsTopics
<1>1. ASSUME NEW heap \in Heap, TopicHasRcl(heap), KeepsTopics(publishers, heap),
             NEW w \in Publisher, NEW o \in PublisherObject,
             heap[w] # Nil => ~IsKnown(heap[w].topic),
             RegisterByRcl([heap EXCEPT ![w] = AfterRclInit(o, h, t, n)], w, h, n)
      PROVE  TopicsKept
  <2>. DEFINE new == AfterRclInit(o, h, t, n)
              after == [heap EXCEPT ![w] = new]
  <2>1. new \in PublisherObject /\ IsKnown(new.rcl)
    BY AfterRclInitType, TopicAfterRclInit
  <2>2. RegisterByRcl(after, w, h, n)
    BY <1>1
  <2>. HIDE DEF new
  <2>3. after \in Heap /\ TopicHasRcl(after) /\ KeepsTopics(publishers, after)
    BY <1>1, <2>1, TopicWrite
  <2>. HIDE DEF after
  <2>. QED
    BY <2>2, <2>3, RegisterKeepsTopics
<1>2. CASE UNCHANGED publishers
  BY <1>2, SameTopics
<1>3. CASE /\ FreePublisher
           /\ RegisterByRcl(
                [publishers EXCEPT
                   ![q] = AfterRclInit([DefaultPublisher EXCEPT !.rmw = r], h, t, n)], q, h, n)
  <2>. DEFINE o == [DefaultPublisher EXCEPT !.rmw = r]
  <2>1. o \in PublisherObject
    BY DefaultPublisherType DEF PublisherObject, Maybe
  <2>2. RegisterByRcl([publishers EXCEPT ![q] = AfterRclInit(o, h, t, n)], q, h, n)
    BY <1>3
  <2>. HIDE DEF o
  <2>. QED
    BY <1>0, <1>1, <1>3, <2>1, <2>2, FreshPublisher
<1>4. CASE /\ p # Nil
           /\ AcceptsRclInit(publishers[p])
           /\ RegisterByRcl([publishers EXCEPT ![p] = AfterRclInit(@, h, t, n)], p, h, n)
  <2>1. p \in Publisher /\ publishers[p] # Nil /\ publishers[p] \in PublisherObject
    BY <1>0, <1>4, MadeObject DEF Made
  <2>2. ~IsKnown(publishers[p].topic)
    BY <1>4, <2>1 DEF AcceptsRclInit, TopicHasRcl, IsKnown, IsUnknown
  <2>3. RegisterByRcl([publishers EXCEPT ![p] = AfterRclInit(publishers[p], h, t, n)], p, h, n)
    BY <1>4
  <2>. QED
    BY <1>0, <1>1, <2>1, <2>2, <2>3
<1>5. CASE /\ p # Nil
           /\ FreePublisher
           /\ RegisterByRcl([publishers EXCEPT
                               ![p] = AfterRemoval(@),
                               ![q] = AfterRclInit(DefaultPublisher, h, t, n)], q, h, n)
  <2>. DEFINE first == [publishers EXCEPT ![p] = AfterRemoval(@)]
  <2>1. p \in Publisher /\ publishers[p] # Nil /\ q \in Publisher /\ publishers[q] = Nil
    BY <1>0, <1>5, FreshPublisher DEF Made
  <2>2. first \in Heap /\ TopicHasRcl(first) /\ KeepsTopics(publishers, first)
    BY <1>0, <2>1, TopicMark
  <2>3. first[q] = Nil
    BY <1>0, <2>1
  <2>4. RegisterByRcl([first EXCEPT ![q] = AfterRclInit(DefaultPublisher, h, t, n)], q, h, n)
    BY <1>5
  <2>. HIDE DEF first
  <2>. QED
    BY <1>1, <2>1, <2>2, <2>3, <2>4, DefaultPublisherType
<1>. QED
  BY <1>2, <1>3, <1>4, <1>5 DEF RclPublisherInit, Panic, registry

LEMMA RclPublishKeepsTopics ==
  ASSUME RefsOK, TopicHasRcl(publishers), NEW a \in Pointer, NEW h \in RclHandle,
         RclPublish(a, h)
  PROVE  TopicsKept
<1>1. CASE UNCHANGED publishers
  BY <1>1, SameTopics
<1>2. CASE FreePublisher /\ publishers' = [publishers EXCEPT ![NewPublisher] = Stub(h)]
  <2>1. Stub(h) \in PublisherObject /\ ~IsKnown(Stub(h).topic)
    BY StubType DEF Stub, DefaultPublisher, IsKnown
  <2>2. publishers \in Heap /\ KeepsTopics(publishers, publishers)
    BY DEF RefsOK, RegistryOK, Heap, KeepsTopics
  <2>. QED
    BY <1>2, <2>1, <2>2, FreshPublisher, TopicWrite DEF TopicsKept
<1>. QED
  BY <1>1, <1>2 DEF RclPublish, Panic, registry

-----------------------------------------------------------------------------
(* rmw_publish: who attached the message, who is registered for the event, and
   what is filed. *)
Queued(a, m, o) ==
  /\ messagesByRcl[a] = Nil => FreeMessage
  /\ m = IF messagesByRcl[a] = Nil THEN NewMessage ELSE messagesByRcl[a]
  /\ o = IF messagesByRcl[a] = Nil THEN DefaultMessage ELSE messages[m]

(* A message on its way to rmw_publish was not filed. *)
LEMMA QueuedIsUnfiled ==
  ASSUME RefsOK, WaitsInOnePlace, AttachedHasRclHandle,
         NEW a \in Pointer, NEW m, NEW o, Queued(a, m, o)
  PROVE  /\ m \in Message /\ o \in MessageObject
         /\ m \in MadeMessage => "rmw" \notin messages[m].layers
         /\ IsKnown(o.publisher) =>
              /\ o.publisher \in Made
              /\ IsKnown(publishers[o.publisher].rcl)
<1>1. CASE messagesByRcl[a] = Nil
  BY <1>1, FreshMessage, DefaultMessageType DEF Queued, MadeMessage, DefaultMessage, IsKnown
<1>2. CASE messagesByRcl[a] # Nil
  <2>1. m \in MadeMessage /\ m = messagesByRcl[a] /\ o = messages[m]
    BY <1>2, WaitingIsMade DEF Queued, RefsOK
  <2>2. m \in Message /\ o \in MessageObject
    BY <2>1, MadeMessageObject DEF RefsOK
  <2>3. "rcl" \in messages[m].layers /\ "rmw" \notin messages[m].layers
    BY <1>2, <2>1 DEF WaitsInOnePlace
  <2>4. IsKnown(o.publisher) => o.publisher \in Made
    BY <2>1 DEF RefsOK, TrafficOK, Maybe, IsKnown
  <2>5. IsKnown(publishers[o.publisher].rcl)
    BY <2>1, <2>2, <2>3 DEF AttachedHasRclHandle, MadeMessage
  <2>. QED
    BY <2>2, <2>3, <2>4, <2>5
<1>. QED
  BY <1>1, <1>2

(* Filing a message that was not filed, under the topic of its publisher. *)
LEMMA FilePublishedKeepsFiled ==
  ASSUME RefsOK, FiledUnderItsTopic, KeepsTopics(publishers, publishers'),
         NEW a \in Pointer, NEW m \in Message, NEW o \in MessageObject,
         m \in MadeMessage => "rmw" \notin messages[m].layers,
         NEW s \in Maybe(Stamp), NEW topic \in TopicKey,
         IsKnown(topic) => IsKnown(o.publisher) /\ publishers'[o.publisher].topic = topic,
         FilePublished(a, m, o, s, topic)
  PROVE  FiledUnderItsTopic'
<1>. DEFINE u == AfterPublish(o, "rmw")
            filed == [u EXCEPT !.stamp = s]
            Key == Stamp \X TopicKey
<1>0. /\ TrafficOK
      /\ published \in [Key -> MadeMessage \cup {Nil}]
      /\ \A k \in MadeMessage : messages[k].publisher \in Maybe(Made)
  BY DEF RefsOK, TrafficOK
<1>1. u \in MessageObject /\ u.publisher = o.publisher /\ "rmw" \in u.layers
  BY AfterPublishType, LayersAfter DEF Layer
<1>2. filed.stamp = s /\ filed.publisher = o.publisher /\ "rmw" \in filed.layers
  <2>. HIDE DEF u
  <2>. QED
    BY <1>1 DEF MessageObject
<1>3. messages' = [messages EXCEPT ![m] = filed]
  BY DEF FilePublished
<1>4. published' = IF IsUnknown(s) THEN published ELSE [published EXCEPT ![<<s, topic>>] = m]
  BY DEF FilePublished
<1>. HIDE DEF u, filed
<1>5. messages'[m] = filed /\ \A k \in Message : k # m => messages'[k] = messages[k]
  BY <1>0, <1>3, OneMessageChanges
(* Whoever is filed before the step is another message, and stays filed. *)
<1>6. ASSUME NEW x \in Stamp, NEW t \in TopicKey, published[<<x, t>>] # Nil
      PROVE  /\ published[<<x, t>>] # m
             /\ messages'[published[<<x, t>>]].stamp = x
             /\ "rmw" \in messages'[published[<<x, t>>]].layers
             /\ IsKnown(t) =>
                  /\ IsKnown(messages'[published[<<x, t>>]].publisher)
                  /\ publishers'[messages'[published[<<x, t>>]].publisher].topic = t
             /\ \A k \in Key : published[k] = published[<<x, t>>] => k = <<x, t>>
  <2>. DEFINE w == published[<<x, t>>]
  <2>1. w \in MadeMessage
    BY <1>0, <1>6
  <2>2. /\ messages[w].stamp = x
        /\ "rmw" \in messages[w].layers
        /\ IsKnown(t) => /\ IsKnown(messages[w].publisher)
                         /\ publishers[messages[w].publisher].topic = t
        /\ \A k \in Key : published[k] = w => k = <<x, t>>
    BY <1>6 DEF FiledUnderItsTopic
  <2>. HIDE DEF w
  <2>3. w # m /\ messages'[w] = messages[w]
    BY <1>5, <2>1, <2>2 DEF MadeMessage
  <2>4. IsKnown(t) => publishers'[messages[w].publisher].topic = t
    <3>1. IsKnown(messages[w].publisher) =>
             messages[w].publisher \in Publisher /\ publishers[messages[w].publisher] # Nil
      BY <1>0, <2>1 DEF Made, Maybe, IsKnown
    <3>. QED
      BY <2>2, <3>1 DEF KeepsTopics
  <2>. QED
    BY <2>2, <2>3, <2>4 DEF w
<1>7. SUFFICES ASSUME NEW x \in Stamp, NEW t \in TopicKey, published'[<<x, t>>] # Nil
               PROVE  /\ messages'[published'[<<x, t>>]].stamp = x
                      /\ "rmw" \in messages'[published'[<<x, t>>]].layers
                      /\ IsKnown(t) =>
                           /\ IsKnown(messages'[published'[<<x, t>>]].publisher)
                           /\ publishers'[messages'[published'[<<x, t>>]].publisher].topic = t
                      /\ \A k \in Key :
                           published'[k] = published'[<<x, t>>] => k = <<x, t>>
  BY DEF FiledUnderItsTopic
<1>8. CASE IsUnknown(s)
  BY <1>4, <1>6, <1>7, <1>8
<1>9. CASE ~IsUnknown(s)
  <2>1. s \in Stamp /\ <<s, topic>> \in Key
    BY <1>9 DEF IsUnknown, Maybe
  <2>2. published'[<<s, topic>>] = m /\ \A k \in Key : k # <<s, topic>> => published'[k] = published[k]
    BY <1>0, <1>4, <1>9, <2>1
  <2>3. \A k \in Key : published[k] # m
    <3>1. m # Nil
      BY NilIsNothing
    <3>2. \A k \in Key : k = <<k[1], k[2]>> /\ k[1] \in Stamp /\ k[2] \in TopicKey
      OBVIOUS
    <3>. QED
      BY <1>6, <3>1, <3>2
  <2>4. CASE <<x, t>> = <<s, topic>>
    <3>1. x = s /\ t = topic
      BY <2>4
    <3>2. \A k \in Key : published'[k] = m => k = <<s, topic>>
      BY <2>2, <2>3
    <3>. QED
      BY <1>2, <1>5, <2>2, <3>1, <3>2
  <2>5. CASE <<x, t>> # <<s, topic>>
    <3>1. published'[<<x, t>>] = published[<<x, t>>]
      BY <2>2, <2>5
    <3>2. published[<<x, t>>] # m
      BY <2>3
    <3>3. \A k \in Key : published'[k] = published'[<<x, t>>] => published[k] = published[<<x, t>>]
      BY <2>2, <3>1, <3>2
    <3>. QED
      BY <1>6, <1>7, <3>1, <3>3
  <2>. QED
    BY <2>4, <2>5
<1>. QED
  BY <1>8, <1>9

LEMMA RmwPublishKeepsFiled ==
  ASSUME RefsOK, WaitsInOnePlace, AttachedHasRclHandle, TopicHasRcl(publishers),
         FiledUnderItsTopic, NEW a \in Pointer, NEW r \in Maybe(RmwHandle),
         NEW s \in Maybe(Stamp), RmwPublish(a, r, s)
  PROVE  TopicsKept /\ FiledUnderItsTopic'
<1>. DEFINE queued == messagesByRcl[a]
            m == IF queued = Nil THEN NewMessage ELSE queued
            o == IF queued = Nil THEN DefaultMessage ELSE messages[m]
            byRmw == IF IsUnknown(r) THEN Nil ELSE publishersByRmw[r]
            attached == o.publisher
            h == publishers[attached].rcl
            named == [publishers[byRmw] EXCEPT !.rcl = h]
            adopted == AfterSetPublisher(o, byRmw)
<1>0. RegistryOK /\ publishers \in Heap /\ KeepsTopics(publishers, publishers)
  BY DEF RefsOK, RegistryOK, Heap, KeepsTopics
<1>1. Queued(a, m, o)
  BY DEF Queued, RmwPublish
<1>2. byRmw # Nil => byRmw \in Made
  BY <1>0 DEF RegistryOK, Maybe, IsUnknown
<1>3. \/ /\ IsKnown(attached)
         /\ FilePublished(a, m, o, s, publishers[attached].topic)
         /\ UNCHANGED publishers
      \/ /\ IsKnown(attached) /\ byRmw # Nil
         /\ publishers' = [publishers EXCEPT ![byRmw] = named]
         /\ FilePublished(a, m, adopted, s, publishers[byRmw].topic)
      \/ /\ byRmw # Nil
         /\ FilePublished(a, m, adopted, s, publishers[byRmw].topic)
         /\ UNCHANGED publishers
      \/ FilePublished(a, m, o, s, Unknown) /\ UNCHANGED publishers
  BY DEF RmwPublish
<1>. HIDE DEF queued, m, o, byRmw
<1>4. /\ m \in Message /\ o \in MessageObject
      /\ m \in MadeMessage => "rmw" \notin messages[m].layers
      /\ IsKnown(attached) => attached \in Made /\ IsKnown(h)
  BY <1>1, QueuedIsUnfiled
<1>5. ASSUME NEW p \in Made
      PROVE  p \in Publisher /\ IsKnown(p) /\ publishers[p].topic \in TopicKey
  <2>1. p \in Publisher /\ publishers[p] \in PublisherObject
    BY <1>0, <1>5, MadeObject
  <2>. QED
    BY <2>1, PublishersAssumption DEF PublisherObject, TopicKey, IsKnown
<1>6. byRmw # Nil => /\ adopted \in MessageObject /\ adopted.publisher = byRmw
                     /\ IsKnown(adopted.publisher)
  BY <1>2, <1>4, <1>5, AfterSetPublisherType
<1>. HIDE DEF adopted
<1>7. UNCHANGED publishers => TopicsKept
  BY SameTopics
<1>8. CASE IsKnown(attached) /\ FilePublished(a, m, o, s, publishers[attached].topic)
           /\ UNCHANGED publishers
  BY <1>4, <1>5, <1>7, <1>8, FilePublishedKeepsFiled DEF TopicsKept
<1>9. CASE /\ IsKnown(attached) /\ byRmw # Nil
           /\ publishers' = [publishers EXCEPT ![byRmw] = named]
           /\ FilePublished(a, m, adopted, s, publishers[byRmw].topic)
  <2>1. /\ byRmw \in Publisher /\ publishers[byRmw] \in PublisherObject
        /\ publishers[byRmw].topic \in TopicKey /\ h \in Maybe(RclHandle) /\ IsKnown(h)
    <3>1. attached \in Made /\ IsKnown(h) /\ publishers[attached] \in PublisherObject
      BY <1>0, <1>4, <1>9, MadeObject
    <3>. QED
      BY <1>0, <1>2, <1>5, <1>9, <3>1, MadeObject DEF PublisherObject
  <2>. HIDE DEF h
  <2>2. named \in PublisherObject /\ named.topic = publishers[byRmw].topic /\ named.rcl = h
    BY <2>1 DEF PublisherObject
  <2>. HIDE DEF named
  <2>3. TopicsKept
    BY <1>0, <1>9, <2>1, <2>2, TopicWrite DEF TopicsKept
  <2>4. publishers'[byRmw].topic = publishers[byRmw].topic
    BY <1>0, <1>9, <2>1, <2>2 DEF Heap
  <2>. QED
    BY <1>4, <1>6, <1>9, <2>1, <2>3, <2>4, FilePublishedKeepsFiled DEF TopicsKept
<1>10. CASE /\ byRmw # Nil
            /\ FilePublished(a, m, adopted, s, publishers[byRmw].topic)
            /\ UNCHANGED publishers
  BY <1>2, <1>4, <1>5, <1>6, <1>7, <1>10, FilePublishedKeepsFiled DEF TopicsKept
<1>11. CASE FilePublished(a, m, o, s, Unknown) /\ UNCHANGED publishers
  <2>1. Unknown \in TopicKey /\ ~IsKnown(Unknown)
    BY DEF TopicKey, Maybe, IsKnown
  <2>. QED
    BY <1>4, <1>7, <1>11, <2>1, FilePublishedKeepsFiled DEF TopicsKept
<1>. QED
  BY <1>3, <1>8, <1>9, <1>10, <1>11

(* The other events touch no filed message. *)
LEMMA FiledKept ==
  ASSUME RefsOK, FiledUnderItsTopic, KeepsTopics(publishers, publishers'),
         UNCHANGED published,
         \A m \in MadeMessage : "rmw" \in messages[m].layers => messages'[m] = messages[m]
  PROVE  FiledUnderItsTopic'
<1>. DEFINE Key == Stamp \X TopicKey
<1>1. SUFFICES ASSUME NEW x \in Stamp, NEW t \in TopicKey, published'[<<x, t>>] # Nil
               PROVE  /\ messages'[published'[<<x, t>>]].stamp = x
                      /\ "rmw" \in messages'[published'[<<x, t>>]].layers
                      /\ IsKnown(t) =>
                           /\ IsKnown(messages'[published'[<<x, t>>]].publisher)
                           /\ publishers'[messages'[published'[<<x, t>>]].publisher].topic = t
                      /\ \A k \in Key :
                           published'[k] = published'[<<x, t>>] => k = <<x, t>>
  BY DEF FiledUnderItsTopic
<1>. DEFINE w == published[<<x, t>>]
<1>2. w \in MadeMessage /\ messages[w].publisher \in Maybe(Made)
  BY <1>1 DEF RefsOK, TrafficOK
<1>3. /\ messages[w].stamp = x
      /\ "rmw" \in messages[w].layers
      /\ IsKnown(t) => /\ IsKnown(messages[w].publisher)
                       /\ publishers[messages[w].publisher].topic = t
      /\ \A k \in Key : published[k] = w => k = <<x, t>>
  BY <1>1 DEF FiledUnderItsTopic
<1>. HIDE DEF w
<1>4. messages'[w] = messages[w]
  BY <1>2, <1>3
<1>5. IsKnown(t) => publishers'[messages[w].publisher].topic = t
  BY <1>2, <1>3 DEF KeepsTopics, Made, Maybe, IsKnown
<1>. QED
  BY <1>3, <1>4, <1>5 DEF w

LEMMA UnfiledMessageChanges ==
  ASSUME RefsOK, FiledUnderItsTopic, TopicsKept, UNCHANGED published,
         NEW m \in Message, NEW o, messages' = [messages EXCEPT ![m] = o],
         m \in MadeMessage => "rmw" \notin messages[m].layers
  PROVE  FiledUnderItsTopic'
<1>1. \A k \in Message : k # m => messages'[k] = messages[k]
  BY OneMessageChanges DEF RefsOK
<1>. QED
  BY <1>1, FiledKept DEF MadeMessage, TopicsKept

LEMMA EarlierLayersKeepFiled ==
  ASSUME RefsOK, WaitsInOnePlace, FiledUnderItsTopic, TopicsKept, NEW a \in Pointer,
         \/ RclcppPublish(a)
         \/ \E h \in RclHandle : RclcppIntraPublish(a, h) \/ RclPublish(a, h)
  PROVE  FiledUnderItsTopic'
<1>1. CASE UNCHANGED traffic
  BY <1>1, FiledKept DEF traffic, TopicsKept
<1>2. CASE UNCHANGED published /\ FreeMessage /\ \E o : messages' = [messages EXCEPT ![NewMessage] = o]
  BY <1>2, FreshMessage, UnfiledMessageChanges DEF MadeMessage
<1>3. CASE /\ UNCHANGED published /\ messagesByRclcpp[a] # Nil
           /\ \E o : messages' = [messages EXCEPT ![messagesByRclcpp[a]] = o]
  <2>1. messagesByRclcpp[a] \in Message /\ "rmw" \notin messages[messagesByRclcpp[a]].layers
    BY <1>3, WaitingIsMade DEF WaitsInOnePlace, RefsOK, MadeMessage
  <2>. QED
    BY <1>3, <2>1, UnfiledMessageChanges
<1>4. CASE RclcppPublish(a)
  BY <1>2, <1>4 DEF RclcppPublish
<1>5. ASSUME NEW h \in RclHandle, RclcppIntraPublish(a, h) PROVE FiledUnderItsTopic'
  <2>1. \/ UNCHANGED traffic
        \/ /\ UNCHANGED published /\ messagesByRclcpp[a] # Nil
           /\ \E o : messages' = [messages EXCEPT ![messagesByRclcpp[a]] = o]
    BY <1>5 DEF RclcppIntraPublish, Panic, Fail
  <2>. QED
    BY <1>1, <1>3, <2>1
<1>6. ASSUME NEW h \in RclHandle, RclPublish(a, h) PROVE FiledUnderItsTopic'
  <2>1. CASE messagesByRclcpp[a] = Nil
    BY <1>1, <1>2, <1>6, <2>1 DEF RclPublish, Panic
  <2>2. CASE messagesByRclcpp[a] # Nil
    BY <1>1, <1>3, <1>6, <2>2 DEF RclPublish, Panic
  <2>. QED
    BY <2>1, <2>2
<1>. QED
  BY <1>4, <1>5, <1>6

(* rmw_take never finds, under a timestamp and a topic, a message that was
   published with another timestamp or on another topic, and finds no message
   under two keys: neither a late initialisation nor a stub that is replaced
   changes the topic of what was filed. *)
THEOREM AlwaysFiledUnderItsTopic == Spec => []FiledUnderItsTopic
<1>. DEFINE Inv == TopicHasRcl(publishers) /\ FiledUnderItsTopic
<1>1. Init => Inv
  BY DEF Init, TopicHasRcl, FiledUnderItsTopic
<1>2. RefsOK /\ WaitsInOnePlace /\ AttachedHasRclHandle /\ Inv /\ [Next]_vars => Inv'
  <2> SUFFICES ASSUME RefsOK, WaitsInOnePlace, AttachedHasRclHandle,
                      TopicHasRcl(publishers), FiledUnderItsTopic, [Next]_vars
               PROVE  TopicsKept /\ FiledUnderItsTopic'
    BY DEF TopicsKept
  <2>1. TopicsKept /\ UNCHANGED traffic => FiledUnderItsTopic'
    BY FiledKept DEF traffic, TopicsKept
  <2>2. CASE UNCHANGED vars
    BY <2>1, <2>2, SameTopics DEF vars, registry
  <2>3. ASSUME NEW n \in NodeHandle, RclNodeInit(n)
        PROVE  TopicsKept /\ FiledUnderItsTopic'
    BY <2>1, <2>3, SameTopics DEF RclNodeInit, Panic, registry
  <2>4. ASSUME NEW r \in RmwHandle, NEW g \in Gid, RmwPublisherInit(r, g)
        PROVE  TopicsKept /\ FiledUnderItsTopic'
    <3>1. UNCHANGED traffic
      BY <2>4 DEF RmwPublisherInit, Panic
    <3>. QED
      BY <2>1, <2>4, <3>1, RmwPublisherInitKeepsTopics
  <2>5. ASSUME NEW r \in RmwHandle, NEW h \in RclHandle, NEW t \in Topic,
               NEW n \in NodeHandle, RclPublisherInit(r, h, t, n)
        PROVE  TopicsKept /\ FiledUnderItsTopic'
    <3>1. UNCHANGED traffic
      BY <2>5 DEF RclPublisherInit, RegisterByRcl, Panic
    <3>. QED
      BY <2>1, <2>5, <3>1, RclPublisherInitKeepsTopics
  <2>6. CASE Registration
    BY <2>3, <2>4, <2>5, <2>6 DEF Registration
  <2>7. ASSUME NEW a \in Pointer, NEW h \in RclHandle, RclPublish(a, h)
        PROVE  TopicsKept /\ FiledUnderItsTopic'
    BY <2>7, RclPublishKeepsTopics, EarlierLayersKeepFiled
  <2>8. ASSUME NEW a \in Pointer, NEW h \in RclHandle, RclcppIntraPublish(a, h)
        PROVE  TopicsKept /\ FiledUnderItsTopic'
    <3>1. UNCHANGED publishers
      BY <2>8 DEF RclcppIntraPublish, Panic, Fail, registry
    <3>. QED
      BY <2>8, <3>1, SameTopics, EarlierLayersKeepFiled
  <2>9. ASSUME NEW a \in Pointer, RclcppPublish(a)
        PROVE  TopicsKept /\ FiledUnderItsTopic'
    <3>1. UNCHANGED publishers
      BY <2>9 DEF RclcppPublish, registry
    <3>. QED
      BY <2>9, <3>1, SameTopics, EarlierLayersKeepFiled
  <2>10. CASE Publication
    BY <2>7, <2>8, <2>9, <2>10, RmwPublishKeepsFiled DEF Publication
  <2>. QED
    BY <2>2, <2>6, <2>10 DEF Next
<1>3. Inv => FiledUnderItsTopic
  OBVIOUS
<1>. QED
  BY <1>1, <1>2, <1>3, RefsAreKept, MessagesWaitInOnePlace, AttachedAlwaysHasRclHandle,
     PTL DEF Spec

-----------------------------------------------------------------------------
(* A step that writes one message keeps the publishers of the others. *)
StubsOnly ==
  \A m \in Message :
    /\ messages[m] # Nil
    /\ IsKnown(messages[m].publisher)
    /\ messages'[m].publisher # messages[m].publisher
    => /\ IsStub(publishers[messages[m].publisher])
       /\ "rmw" \notin messages[m].layers

LEMMA StubsOnlyWrite ==
  ASSUME RefsOK, NEW m \in Message, NEW o, messages' = [messages EXCEPT ![m] = o],
         /\ messages[m] # Nil
         /\ IsKnown(messages[m].publisher)
         /\ o.publisher # messages[m].publisher
         => /\ IsStub(publishers[messages[m].publisher])
            /\ "rmw" \notin messages[m].layers
  PROVE  StubsOnly
<1>1. messages'[m] = o /\ \A k \in Message : k # m => messages'[k] = messages[k]
  BY OneMessageChanges DEF RefsOK
<1>. QED
  BY <1>1 DEF StubsOnly

LEMMA RclPublishReplacesStubsOnly ==
  ASSUME RefsOK, NEW a \in Pointer, NEW h \in RclHandle, RclPublish(a, h)
  PROVE  StubsOnly
<1>. DEFINE m == IF messagesByRclcpp[a] = Nil THEN NewMessage ELSE messagesByRclcpp[a]
            before == IF messagesByRclcpp[a] = Nil THEN DefaultMessage ELSE messages[m]
            p == IF publishersByRcl[h] = Nil THEN NewPublisher ELSE publishersByRcl[h]
            o == AfterPublish(AfterSetPublisher(before, p), "rcl")
<1>1. CASE Panic
  BY <1>1 DEF Panic, traffic, StubsOnly
<1>2. CASE ~Panic
  <2>1. /\ messagesByRclcpp[a] = Nil => FreeMessage
        /\ messages' = [messages EXCEPT ![m] = o]
        /\ AcceptsPublisher(before)
    BY <1>2 DEF RclPublish
  <2>2. m \in Message /\ (messages[m] # Nil => ~IsKnown(messages[m].publisher))
    BY <2>1, FreshMessage, WaitingIsMade
    DEF RefsOK, MadeMessage, AcceptsPublisher, IsUnknown, IsKnown
  <2>. HIDE DEF m, o
  <2>. QED
    BY <2>1, <2>2, StubsOnlyWrite
<1>. QED
  BY <1>1, <1>2

LEMMA RclcppIntraPublishReplacesStubsOnly ==
  ASSUME RefsOK, NEW a \in Pointer, NEW h \in RclHandle, RclcppIntraPublish(a, h)
  PROVE  StubsOnly
<1>. DEFINE m == messagesByRclcpp[a]
            o == AfterSetPublisher(messages[m], publishersByRcl[h])
<1>1. CASE Panic \/ Fail
  BY <1>1 DEF Panic, Fail, traffic, StubsOnly
<1>2. CASE ~Panic /\ ~Fail
  <2>1. /\ m # Nil
        /\ messages' = [messages EXCEPT ![m] = o]
        /\ AcceptsPublisher(messages[m])
    BY <1>2 DEF RclcppIntraPublish
  <2>2. m \in Message /\ ~IsKnown(messages[m].publisher)
    BY <2>1, WaitingIsMade DEF RefsOK, MadeMessage, AcceptsPublisher, IsUnknown, IsKnown
  <2>. HIDE DEF m, o
  <2>. QED
    BY <2>1, <2>2, StubsOnlyWrite
<1>. QED
  BY <1>1, <1>2

LEMMA RmwPublishReplacesStubsOnly ==
  ASSUME RefsOK, WaitsInOnePlace, AttachedHasRclHandle, NEW a \in Pointer,
         NEW r \in Maybe(RmwHandle), NEW s \in Maybe(Stamp), RmwPublish(a, r, s)
  PROVE  StubsOnly
<1>. DEFINE queued == messagesByRcl[a]
            m == IF queued = Nil THEN NewMessage ELSE queued
            o == IF queued = Nil THEN DefaultMessage ELSE messages[m]
            byRmw == IF IsUnknown(r) THEN Nil ELSE publishersByRmw[r]
            filed(u) == [AfterPublish(u, "rmw") EXCEPT !.stamp = s]
<1>1. Queued(a, m, o)
  BY DEF Queued, RmwPublish
<1>2. \/ messages' = [messages EXCEPT ![m] = filed(o)]
      \/ /\ IsKnown(o.publisher) => IsStub(publishers[o.publisher])
         /\ messages' = [messages EXCEPT ![m] = filed(AfterSetPublisher(o, byRmw))]
  BY DEF RmwPublish, FilePublished, IsKnown, IsUnknown
<1>3. messages[m] # Nil => o = messages[m]
  BY FreshMessage DEF RmwPublish
<1>. HIDE DEF queued, m, o, byRmw
<1>4. /\ m \in Message /\ o \in MessageObject
      /\ messages[m] # Nil => "rmw" \notin messages[m].layers
  BY <1>1, QueuedIsUnfiled DEF MadeMessage
<1>5. filed(o).publisher = o.publisher
  <2>. DEFINE u == AfterPublish(o, "rmw")
  <2>1. u \in MessageObject /\ u.publisher = o.publisher
    BY <1>4, AfterPublishType DEF Layer
  <2>. HIDE DEF u
  <2>2. [u EXCEPT !.stamp = s].publisher = u.publisher
    BY <2>1 DEF MessageObject
  <2>. QED
    BY <2>1, <2>2 DEF u
<1>. HIDE DEF filed
<1>6. CASE messages' = [messages EXCEPT ![m] = filed(o)]
  BY <1>3, <1>4, <1>5, <1>6, StubsOnlyWrite
<1>7. CASE /\ IsKnown(o.publisher) => IsStub(publishers[o.publisher])
           /\ messages' = [messages EXCEPT ![m] = filed(AfterSetPublisher(o, byRmw))]
  BY <1>3, <1>4, <1>7, StubsOnlyWrite
<1>. QED
  BY <1>2, <1>6, <1>7

(* Once a message has a publisher only rmw_publish gives it another, and only in
   place of a stub; once it passed rmw its publisher is final, so the edges and
   latencies computed from it do not depend on later events. *)
THEOREM OnlyStubsAreEverReplaced == Spec => OnlyStubsAreReplaced
<1>1. RefsOK /\ WaitsInOnePlace /\ AttachedHasRclHandle /\ [Next]_vars => [StubsOnly]_vars
  <2> SUFFICES ASSUME RefsOK, WaitsInOnePlace, AttachedHasRclHandle, Next
               PROVE  StubsOnly
    OBVIOUS
  <2>1. UNCHANGED messages => StubsOnly
    BY DEF StubsOnly
  <2>2. CASE Registration
    <3>1. ASSUME NEW n \in NodeHandle, RclNodeInit(n) PROVE UNCHANGED traffic
      BY <3>1 DEF RclNodeInit, Panic
    <3>2. ASSUME NEW r \in RmwHandle, NEW g \in Gid, RmwPublisherInit(r, g)
          PROVE  UNCHANGED traffic
      BY <3>2 DEF RmwPublisherInit, Panic
    <3>3. ASSUME NEW r \in RmwHandle, NEW h \in RclHandle, NEW t \in Topic,
                 NEW n \in NodeHandle, RclPublisherInit(r, h, t, n)
          PROVE  UNCHANGED traffic
      BY <3>3 DEF RclPublisherInit, RegisterByRcl, Panic
    <3>4. UNCHANGED traffic
      BY <2>2, <3>1, <3>2, <3>3 DEF Registration
    <3>. QED
      BY <2>1, <3>4 DEF traffic
  <2>3. ASSUME NEW a \in Pointer, RclcppPublish(a) PROVE StubsOnly
    BY <2>3, FreshMessage, StubsOnlyWrite DEF RclcppPublish
  <2>4. CASE Publication
    BY <2>3, <2>4, RclPublishReplacesStubsOnly, RclcppIntraPublishReplacesStubsOnly,
       RmwPublishReplacesStubsOnly DEF Publication
  <2>. QED
    BY <2>2, <2>4 DEF Next
<1>. QED
  BY <1>1, RefsAreKept, MessagesWaitInOnePlace, AttachedAlwaysHasRclHandle, PTL
  DEF Spec, OnlyStubsAreReplaced, StubsOnly

-----------------------------------------------------------------------------
(* The application. *)

AppTypeOK ==
  /\ slots \in [Slot -> SlotObject \cup {Nil}]
  /\ used \subseteq RmwHandle \X RclHandle
  /\ usedGids \subseteq Gid
  /\ sending \in [Pointer -> SendingObject \cup {Nil}]

(* An rcl address belonged to publishers at one rmw address only, and an rmw
   address belongs to one slot at a time. *)
Owned == \A u, v \in used : u[2] = v[2] => u[1] = v[1]

Apart == \A x, y \in Slot : Live(x) /\ Live(y) /\ slots[x].r = slots[y].r => x = y

(* The rmw registry has publishers that were initialised under their address and
   not marked removed, of live and of former slots. *)
ByRmwOK(r) ==
  publishersByRmw[r] # Nil =>
    /\ publishers[publishersByRmw[r]].rmw = r
    /\ publishers[publishersByRmw[r]].gid \in usedGids
    /\ ~publishers[publishersByRmw[r]].removed

(* The rcl registry has stubs under their address, and publishers of the rmw
   address that belongs to the rcl one. *)
ByRclOK(h) ==
  publishersByRcl[h] # Nil =>
    \/ /\ IsStub(publishers[publishersByRcl[h]])
       /\ publishers[publishersByRcl[h]].rcl = h
    \/ /\ IsKnown(publishers[publishersByRcl[h]].gid)
       /\ <<publishers[publishersByRcl[h]].rmw, h>> \in used

(* What the registries have of a slot. *)
ByRmwOf(x) == publishersByRmw[slots[x].r]
ByRclOf(x) == publishersByRcl[slots[x].h]

SlotOK(x) ==
  Live(x) =>
    /\ <<slots[x].r, slots[x].h>> \in used
    /\ ByRmwOf(x) # Nil
    /\ slots[x].phase = "created" => IsUnknown(publishers[ByRmwOf(x)].rcl)
    /\ slots[x].phase = "ready" =>
         /\ publishers[ByRmwOf(x)].topic = slots[x].topic
         /\ ByRclOf(x) # ByRmwOf(x) =>
              /\ slots[x].topic = Rosout
              /\ ByRclOf(x) # Nil => IsStub(publishers[ByRclOf(x)])

(* What is on its way at an address: a message past rcl carries the publisher of
   its slot, or a stub for a former rcl address of the slot. *)
Carried(a) == messages[messagesByRcl[a]].publisher

SendingOK(a) ==
  /\ messagesByRclcpp[a] # Nil <=> sending[a] # Nil /\ sending[a].layer = "rclcpp"
  /\ messagesByRcl[a] # Nil <=> sending[a] # Nil /\ sending[a].layer = "rcl"
  /\ sending[a] # Nil => Ready(sending[a].slot)
  /\ messagesByRclcpp[a] # Nil => IsUnknown(messages[messagesByRclcpp[a]].publisher)
  /\ messagesByRcl[a] # Nil =>
       /\ IsKnown(Carried(a))
       /\ \/ Carried(a) = ByRmwOf(sending[a].slot)
          \/ /\ IsStub(publishers[Carried(a)])
             /\ <<slots[sending[a].slot].r, publishers[Carried(a)].rcl>> \in used

TraceInv ==
  /\ Owned /\ Apart
  /\ \A r \in RmwHandle : ByRmwOK(r)
  /\ \A h \in RclHandle : ByRclOK(h)
  /\ \A x \in Slot : SlotOK(x)
  /\ \A a \in Pointer : SendingOK(a)

(* What PublishersProofs and the types add to it. *)
Base == AppTypeOK /\ RefsOK /\ WaitsInOnePlace /\ AttachedHasRclHandle

-----------------------------------------------------------------------------
(* The variables of the application keep their types. *)
LEMMA LiveSlot ==
  ASSUME AppTypeOK, NEW x \in Slot, Live(x)
  PROVE  /\ slots[x] \in SlotObject
         /\ slots[x].r \in RmwHandle /\ slots[x].h \in RclHandle /\ slots[x].topic \in Topic
         /\ slots[x].phase \in {"created", "ready"}
  BY DEF AppTypeOK, Live, SlotObject

LEMMA LiveSending ==
  ASSUME AppTypeOK, NEW a \in Pointer, sending[a] # Nil
  PROVE  sending[a] \in SendingObject /\ sending[a].slot \in Slot
  BY DEF AppTypeOK, SendingObject

LEMMA NilIsNoSlot == Nil \notin SlotObject /\ Nil \notin SendingObject
  BY PublisherAppAssumption

LEMMA CreateRmwKeepsType ==
  ASSUME AppTypeOK, NEW x \in Slot, NEW r \in RmwHandle, NEW h \in RclHandle, NEW t \in Topic,
         NEW g \in Gid, CreateRmw(x, r, h, t, g)
  PROVE  AppTypeOK'
<1>. DEFINE o == [r |-> r, h |-> h, topic |-> t, phase |-> "created"]
<1>1. o \in SlotObject
  BY DEF SlotObject
<1>2. slots' = [slots EXCEPT ![x] = o]
  BY DEF CreateRmw
<1>. HIDE DEF o
<1>3. slots' \in [Slot -> SlotObject \cup {Nil}]
  BY <1>1, <1>2 DEF AppTypeOK
<1>. QED
  BY <1>3 DEF AppTypeOK, CreateRmw

LEMMA CreateRclKeepsType ==
  ASSUME AppTypeOK, NEW x \in Slot, NEW n \in NodeHandle, CreateRcl(x, n)
  PROVE  AppTypeOK'
<1>. DEFINE o == [slots[x] EXCEPT !.phase = "ready"]
<1>1. o \in SlotObject
  BY LiveSlot DEF CreateRcl, SlotObject
<1>2. slots' = [slots EXCEPT ![x] = o]
  BY DEF CreateRcl
<1>. HIDE DEF o
<1>3. slots' \in [Slot -> SlotObject \cup {Nil}]
  BY <1>1, <1>2 DEF AppTypeOK
<1>. QED
  BY <1>3 DEF AppTypeOK, CreateRcl

LEMMA RelocateKeepsType ==
  ASSUME AppTypeOK, NEW x \in Slot, NEW h \in RclHandle, Relocate(x, h)
  PROVE  AppTypeOK'
<1>. DEFINE o == [slots[x] EXCEPT !.h = h]
<1>0. Live(x)
  BY DEF Relocate, Ready
<1>1. o \in SlotObject /\ slots[x].r \in RmwHandle
  BY <1>0, LiveSlot DEF SlotObject
<1>2. slots' = [slots EXCEPT ![x] = o]
  BY DEF Relocate
<1>. HIDE DEF o
<1>3. slots' \in [Slot -> SlotObject \cup {Nil}]
  BY <1>1, <1>2 DEF AppTypeOK
<1>. QED
  BY <1>1, <1>3 DEF AppTypeOK, Relocate

LEMMA SendingKeepsType ==
  ASSUME AppTypeOK, UNCHANGED <<slots, used, usedGids>>, NEW a \in Pointer,
         NEW o \in SendingObject \cup {Nil}, sending' = [sending EXCEPT ![a] = o]
  PROVE  AppTypeOK'
  BY DEF AppTypeOK

LEMMA PublishKeepsType ==
  ASSUME AppTypeOK, NEW x \in Slot, NEW a \in Pointer,
         \/ PublishRclcpp(x, a)
         \/ PublishRcl(x, a)
         \/ \E s \in Stamp : PublishRmw(x, a, s)
  PROVE  AppTypeOK'
<1>1. \A l \in {"rclcpp", "rcl"} : [slot |-> x, layer |-> l] \in SendingObject
  BY DEF SendingObject
<1>2. CASE PublishRclcpp(x, a)
  BY <1>1, <1>2, SendingKeepsType DEF PublishRclcpp
<1>3. CASE PublishRcl(x, a)
  BY <1>1, <1>3, SendingKeepsType DEF PublishRcl
<1>4. ASSUME NEW s \in Stamp, PublishRmw(x, a, s) PROVE AppTypeOK'
  BY <1>4, SendingKeepsType DEF PublishRmw
<1>. QED
  BY <1>2, <1>3, <1>4

LEMMA AppStepKeepsType == AppTypeOK /\ [AppNext]_allVars => AppTypeOK'
<1>. SUFFICES ASSUME AppTypeOK, [AppNext]_allVars PROVE AppTypeOK'
  OBVIOUS
<1>1. CASE UNCHANGED slotVars
  BY <1>1 DEF slotVars, AppTypeOK
<1>2. CASE UNCHANGED allVars
  BY <1>1, <1>2 DEF allVars, appVars
<1>3. ASSUME NEW n \in NodeHandle, NameNode(n) PROVE AppTypeOK'
  BY <1>1, <1>3 DEF NameNode
<1>4. ASSUME NEW x \in Slot, Destroy(x) PROVE AppTypeOK'
  BY <1>4 DEF Destroy, AppTypeOK
<1>5. CASE Application
  BY <1>3, <1>4, <1>5, CreateRmwKeepsType, CreateRclKeepsType, RelocateKeepsType,
     PublishKeepsType DEF Application
<1>. QED
  BY <1>1, <1>2, <1>5 DEF AppNext

-----------------------------------------------------------------------------
(* A step of the application is one of the processor, or none. *)
LEMMA AppStepIsStep ==
  ASSUME AppTypeOK, [AppNext]_allVars
  PROVE  [Next]_vars
<1>1. CASE UNCHANGED allVars
  BY <1>1 DEF allVars
<1>2. CASE outcome = "running" /\ (Registration \/ Publication)
  BY <1>2 DEF Next
<1>3. ASSUME NEW n \in NodeHandle, NameNode(n) PROVE Registration
  BY <1>3 DEF NameNode, Registration
<1>4. ASSUME NEW x \in Slot, NEW r \in RmwHandle, NEW h \in RclHandle, NEW t \in Topic,
             NEW g \in Gid, CreateRmw(x, r, h, t, g)
      PROVE  Registration
  BY <1>4 DEF CreateRmw, Registration
<1>5. ASSUME NEW x \in Slot, NEW n \in NodeHandle, CreateRcl(x, n) PROVE Registration
  BY <1>5, LiveSlot DEF CreateRcl, Registration
<1>6. ASSUME NEW x \in Slot, Destroy(x) \/ \E h \in RclHandle : Relocate(x, h)
      PROVE  UNCHANGED vars
  BY <1>6 DEF Destroy, Relocate
<1>7. ASSUME NEW x \in Slot, NEW a \in Pointer, PublishRclcpp(x, a) PROVE Publication
  BY <1>7 DEF PublishRclcpp, Publication
<1>8. ASSUME NEW x \in Slot, NEW a \in Pointer, PublishRcl(x, a) PROVE Publication
  BY <1>8, LiveSlot DEF PublishRcl, Publication, Ready
<1>9. ASSUME NEW x \in Slot, NEW a \in Pointer, NEW s \in Stamp, PublishRmw(x, a, s)
      PROVE  Publication
  BY <1>9, LiveSlot DEF PublishRmw, Publication, Maybe
<1>10. CASE outcome = "running" /\ Application
  BY <1>3, <1>4, <1>5, <1>6, <1>7, <1>8, <1>9, <1>10 DEF Application, Next
<1>. QED
  BY <1>1, <1>2, <1>10 DEF AppNext

LEMMA AppTypeKept == AppSpec => []AppTypeOK
<1>1. AppInit => AppTypeOK
  BY DEF AppInit, AppTypeOK
<1>. QED
  BY <1>1, AppStepKeepsType, PTL DEF AppSpec

(* An application only takes steps the processor takes for any events: what
   PublishersProofs shows of every stream holds of its traces. *)
THEOREM AppIsStream == AppSpec => Spec
<1>1. AppInit => Init
  BY DEF AppInit
<1>. QED
  BY <1>1, AppStepIsStep, AppTypeKept, PTL DEF AppSpec, Spec
-----------------------------------------------------------------------------
(* The publishers the registries have, and the one a message past rcl carries. *)
LEMMA RmwEntry ==
  ASSUME Base, TraceInv, NEW r \in RmwHandle, publishersByRmw[r] # Nil
  PROVE  /\ publishersByRmw[r] \in Publisher
         /\ publishers[publishersByRmw[r]] # Nil
         /\ publishers[publishersByRmw[r]] \in PublisherObject
         /\ publishers[publishersByRmw[r]].rmw = r
         /\ publishers[publishersByRmw[r]].gid \in usedGids
         /\ publishers[publishersByRmw[r]].gid # Unknown
         /\ ~publishers[publishersByRmw[r]].removed
         /\ ~IsStub(publishers[publishersByRmw[r]])
<1>1. publishersByRmw[r] \in Made
  BY DEF Base, RefsOK, RegistryOK
<1>2. /\ publishersByRmw[r] \in Publisher
      /\ publishers[publishersByRmw[r]] # Nil
      /\ publishers[publishersByRmw[r]] \in PublisherObject
  BY <1>1, MadeObject DEF Base, RefsOK, Made
<1>3. ByRmwOK(r)
  BY DEF TraceInv
<1>4. Unknown \notin usedGids
  BY PublishersAssumption DEF Base, AppTypeOK
<1>. QED
  BY <1>2, <1>3, <1>4 DEF ByRmwOK, IsStub, IsUnknown

LEMMA RclEntry ==
  ASSUME Base, NEW h \in RclHandle, publishersByRcl[h] # Nil
  PROVE  /\ publishersByRcl[h] \in Publisher
         /\ publishers[publishersByRcl[h]] # Nil
         /\ publishers[publishersByRcl[h]] \in PublisherObject
         /\ publishers[publishersByRcl[h]].rcl \in RclHandle
<1>1. publishersByRcl[h] \in Made
  BY DEF Base, RefsOK, RegistryOK
<1>2. /\ publishersByRcl[h] \in Publisher
      /\ publishers[publishersByRcl[h]] # Nil
      /\ publishers[publishersByRcl[h]] \in PublisherObject
  BY <1>1, MadeObject DEF Base, RefsOK, Made
<1>3. publishers[publishersByRcl[h]].rcl # Unknown
  BY DEF Base, AttachedHasRclHandle, IsKnown
<1>. QED
  BY <1>2, <1>3 DEF PublisherObject, Maybe

LEMMA CarriedEntry ==
  ASSUME Base, NEW a \in Pointer, messagesByRcl[a] # Nil
  PROVE  /\ messagesByRcl[a] \in Message
         /\ messages[messagesByRcl[a]] # Nil
         /\ messages[messagesByRcl[a]] \in MessageObject
         /\ "rcl" \in messages[messagesByRcl[a]].layers
         /\ "rmw" \notin messages[messagesByRcl[a]].layers
         /\ Carried(a) \in Publisher
         /\ publishers[Carried(a)] # Nil
         /\ publishers[Carried(a)] \in PublisherObject
         /\ publishers[Carried(a)].rcl \in RclHandle
<1>. DEFINE m == messagesByRcl[a]
<1>1. m \in MadeMessage
  BY DEF Base, RefsOK, TrafficOK
<1>2. m \in Message /\ messages[m] # Nil /\ messages[m] \in MessageObject
  BY <1>1, MadeMessageObject DEF Base, RefsOK, MadeMessage
<1>3. messages[m].layers \in {{"rcl"}, {"rclcpp", "rcl"}}
  BY DEF Base, WaitsInOnePlace
<1>4. messages[m].publisher # Unknown /\ publishers[messages[m].publisher].rcl # Unknown
  BY <1>2, <1>3 DEF Base, AttachedHasRclHandle, IsKnown
<1>5. messages[m].publisher \in Made
  BY <1>1, <1>4 DEF Base, RefsOK, TrafficOK, Maybe
<1>6. /\ Carried(a) \in Publisher
      /\ publishers[Carried(a)] # Nil
      /\ publishers[Carried(a)] \in PublisherObject
  BY <1>5, MadeObject DEF Base, RefsOK, Made, Carried
<1>. QED
  BY <1>2, <1>3, <1>4, <1>6 DEF PublisherObject, Maybe, Carried

LEMMA RclcppEntry ==
  ASSUME Base, NEW a \in Pointer, messagesByRclcpp[a] # Nil
  PROVE  /\ messagesByRclcpp[a] \in Message
         /\ messages[messagesByRclcpp[a]] # Nil
         /\ messages[messagesByRclcpp[a]] \in MessageObject
         /\ messages[messagesByRclcpp[a]].layers = {"rclcpp"}
<1>1. messagesByRclcpp[a] \in MadeMessage
  BY DEF Base, RefsOK, TrafficOK
<1>. QED
  BY <1>1, MadeMessageObject DEF Base, RefsOK, MadeMessage, WaitsInOnePlace

-----------------------------------------------------------------------------
(* No step of an application changes the gid or the rmw handle of a publisher
   that exists, and a stub stays what it is. *)
Persist ==
  \A q \in Publisher : publishers[q] # Nil =>
    /\ publishers'[q] # Nil
    /\ publishers'[q].gid = publishers[q].gid
    /\ publishers'[q].rmw = publishers[q].rmw
    /\ IsStub(publishers[q]) =>
         IsStub(publishers'[q]) /\ publishers'[q].rcl = publishers[q].rcl

LEMMA ByRclKept ==
  ASSUME Base, TraceInv, Persist, used \subseteq used',
         NEW h \in RclHandle, publishersByRcl'[h] = publishersByRcl[h]
  PROVE  ByRclOK(h)'
<1>1. ByRclOK(h)
  BY DEF TraceInv
<1>. QED
  BY <1>1, RclEntry DEF ByRclOK, Persist

LEMMA SlotKept ==
  ASSUME Base, TraceInv, Persist, used \subseteq used',
         NEW x \in Slot, slots'[x] = slots[x],
         Live(x) =>
           /\ publishersByRmw'[slots[x].r] = publishersByRmw[slots[x].r]
           /\ publishersByRcl'[slots[x].h] = publishersByRcl[slots[x].h]
           /\ publishers'[ByRmwOf(x)].topic = publishers[ByRmwOf(x)].topic
           /\ publishers'[ByRmwOf(x)].rcl = publishers[ByRmwOf(x)].rcl
  PROVE  SlotOK(x)'
<1>1. SlotOK(x)
  BY DEF TraceInv
<1>2. Live(x)' <=> Live(x)
  BY DEF Live
<1>3. Live(x) => ByRmwOf(x)' = ByRmwOf(x) /\ ByRclOf(x)' = ByRclOf(x)
  BY DEF ByRmwOf, ByRclOf
<1>4. Live(x) /\ ByRclOf(x) # Nil /\ IsStub(publishers[ByRclOf(x)])
        => IsStub(publishers'[ByRclOf(x)])
  BY LiveSlot, RclEntry DEF Base, ByRclOf, Persist
<1>. QED
  BY <1>1, <1>2, <1>3, <1>4 DEF SlotOK

LEMMA SendingKept ==
  ASSUME Base, TraceInv, Persist, used \subseteq used',
         NEW a \in Pointer, sending'[a] = sending[a],
         messagesByRclcpp'[a] = messagesByRclcpp[a],
         messagesByRcl'[a] = messagesByRcl[a],
         messagesByRclcpp[a] # Nil
           => messages'[messagesByRclcpp[a]].publisher = messages[messagesByRclcpp[a]].publisher,
         messagesByRcl[a] # Nil => messages'[messagesByRcl[a]].publisher = Carried(a),
         sending[a] # Nil =>
           /\ Ready(sending[a].slot)'
           /\ slots'[sending[a].slot].r = slots[sending[a].slot].r
           /\ ByRmwOf(sending[a].slot)' = ByRmwOf(sending[a].slot)
  PROVE  SendingOK(a)'
<1>1. SendingOK(a)
  BY DEF TraceInv
<1>2. messagesByRcl[a] # Nil => Carried(a)' = Carried(a)
  BY DEF Carried
<1>3. messagesByRcl[a] # Nil /\ IsStub(publishers[Carried(a)])
        => IsStub(publishers'[Carried(a)]) /\ publishers'[Carried(a)].rcl = publishers[Carried(a)].rcl
  BY CarriedEntry DEF Persist
<1>. QED
  BY <1>1, <1>2, <1>3 DEF SendingOK

-----------------------------------------------------------------------------
(* The steps that leave the registries of publishers and the messages alone. *)
Still ==
  UNCHANGED <<publishers, publishersByRmw, publishersByRcl, messages, messagesByRclcpp, messagesByRcl>>

LEMMA StillPersists ==
  ASSUME publishers' = publishers
  PROVE  Persist
  BY DEF Persist

LEMMA StillKeepsRmw ==
  ASSUME TraceInv, Still, usedGids \subseteq usedGids', NEW r \in RmwHandle
  PROVE  ByRmwOK(r)'
<1>1. ByRmwOK(r)
  BY DEF TraceInv
<1>. QED
  BY <1>1 DEF Still, ByRmwOK

LEMMA StillKeepsSending ==
  ASSUME Base, TraceInv, Still, used \subseteq used', sending' = sending,
         NEW a \in Pointer,
         sending[a] # Nil => /\ Ready(sending[a].slot)'
                             /\ slots'[sending[a].slot].r = slots[sending[a].slot].r
  PROVE  SendingOK(a)'
<1>1. sending[a] # Nil => ByRmwOf(sending[a].slot)' = ByRmwOf(sending[a].slot)
  BY DEF Still, ByRmwOf
<1>2. messages' = messages /\ messagesByRclcpp' = messagesByRclcpp /\ messagesByRcl' = messagesByRcl
  BY DEF Still
<1>3. Persist
  BY StillPersists DEF Still
<1>. QED
  BY <1>1, <1>2, <1>3, SendingKept DEF Carried

LEMMA NothingMoves ==
  ASSUME Base, TraceInv, Still, UNCHANGED slotVars
  PROVE  TraceInv'
<1>0. Persist /\ UNCHANGED <<slots, used, usedGids, sending>>
  BY StillPersists DEF Still, slotVars
<1>1. Owned' /\ Apart'
  BY <1>0 DEF TraceInv, Owned, Apart, Live
<1>2. ASSUME NEW r \in RmwHandle PROVE ByRmwOK(r)'
  BY <1>0, StillKeepsRmw
<1>3. ASSUME NEW h \in RclHandle PROVE ByRclOK(h)'
  BY <1>0, ByRclKept DEF Still
<1>4. ASSUME NEW x \in Slot PROVE SlotOK(x)'
  BY <1>0, SlotKept DEF Still
<1>5. ASSUME NEW a \in Pointer PROVE SendingOK(a)'
  <2>1. SendingOK(a)
    BY DEF TraceInv
  <2>. QED
    BY <1>0, <2>1, StillKeepsSending DEF SendingOK, Ready, Live
<1>. QED
  BY <1>1, <1>2, <1>3, <1>4, <1>5 DEF TraceInv

LEMMA DestroyKeepsTrace ==
  ASSUME Base, TraceInv, NEW x \in Slot, Destroy(x)
  PROVE  TraceInv'
<1>0. /\ Persist /\ Still /\ UNCHANGED <<used, usedGids, sending>>
      /\ slots'[x] = Nil
      /\ \A y \in Slot : y # x => slots'[y] = slots[y]
  BY StillPersists DEF Destroy, Still, vars, registry, traffic, Base, AppTypeOK
<1>1. Owned'
  BY <1>0 DEF TraceInv, Owned
<1>2. Apart'
  BY <1>0 DEF TraceInv, Apart, Live
<1>3. ASSUME NEW r \in RmwHandle PROVE ByRmwOK(r)'
  BY <1>0, StillKeepsRmw
<1>4. ASSUME NEW h \in RclHandle PROVE ByRclOK(h)'
  BY <1>0, ByRclKept DEF Still
<1>5. ASSUME NEW y \in Slot PROVE SlotOK(y)'
  <2>1. CASE y = x
    BY <1>0, <2>1 DEF SlotOK, Live
  <2>2. CASE y # x
    BY <1>0, <2>2, SlotKept DEF Still
  <2>. QED
    BY <2>1, <2>2
<1>6. ASSUME NEW a \in Pointer PROVE SendingOK(a)'
  <2>1. SendingOK(a)
    BY DEF TraceInv
  <2>2. sending[a] # Nil => sending[a].slot \in Slot /\ sending[a].slot # x
    BY LiveSending DEF Base, Destroy
  <2>3. sending[a] # Nil => slots'[sending[a].slot] = slots[sending[a].slot]
    BY <1>0, <2>2
  <2>. QED
    BY <1>0, <2>1, <2>3, StillKeepsSending DEF SendingOK, Ready, Live
<1>. QED
  BY <1>1, <1>2, <1>3, <1>4, <1>5, <1>6 DEF TraceInv

(* The new rcl address belonged to nobody: the registry has a stub there at most. *)
LEMMA RelocateKeepsTrace ==
  ASSUME Base, TraceInv, ~AnyReuse, NEW x \in Slot, NEW h \in RclHandle, Relocate(x, h)
  PROVE  TraceInv'
<1>. DEFINE o == [slots[x] EXCEPT !.h = h]
<1>1. Ready(x) /\ Live(x) /\ slots[x].topic = Rosout /\ \A u \in used : u[2] # h
  BY DEF Relocate, Ready
<1>2. /\ o \in SlotObject /\ o # Nil
      /\ o.r = slots[x].r /\ o.h = h /\ o.topic = slots[x].topic /\ o.phase = "ready"
  BY <1>1, LiveSlot, NilIsNoSlot DEF Base, Ready, SlotObject
<1>3. /\ Persist /\ Still /\ UNCHANGED <<usedGids, sending>>
      /\ used' = used \cup {<<slots[x].r, h>>}
      /\ slots' = [slots EXCEPT ![x] = o]
  BY StillPersists DEF Relocate, Still, vars, registry, traffic
<1>. HIDE DEF o
<1>4. slots'[x] = o /\ \A y \in Slot : y # x => slots'[y] = slots[y]
  BY <1>3 DEF Base, AppTypeOK
<1>5. \A y \in Slot : /\ Live(y)' <=> Live(y)
                      /\ Ready(y)' <=> Ready(y)
                      /\ Live(y) => slots'[y].r = slots[y].r
  BY <1>1, <1>2, <1>4 DEF Live, Ready
<1>6. Owned'
  BY <1>1, <1>3 DEF TraceInv, Owned
<1>7. Apart'
  BY <1>5 DEF TraceInv, Apart
<1>8. ASSUME NEW r \in RmwHandle PROVE ByRmwOK(r)'
  BY <1>3, StillKeepsRmw
<1>9. ASSUME NEW k \in RclHandle PROVE ByRclOK(k)'
  BY <1>3, ByRclKept DEF Still
<1>10. SlotOK(x)'
  <2>1. ByRmwOf(x)' = ByRmwOf(x) /\ ByRclOf(x)' = publishersByRcl[h]
    BY <1>2, <1>3, <1>4 DEF ByRmwOf, ByRclOf, Still
  <2>2. publishersByRcl[h] # Nil => IsStub(publishers[publishersByRcl[h]])
    <3>1. ByRclOK(h)
      BY DEF TraceInv
    <3>. QED
      BY <1>1, <3>1 DEF ByRclOK
  <2>3. SlotOK(x)
    BY DEF TraceInv
  <2>. QED
    BY <1>1, <1>2, <1>3, <1>4, <2>1, <2>2, <2>3 DEF SlotOK, Still, Ready
<1>11. ASSUME NEW y \in Slot, y # x PROVE SlotOK(y)'
  BY <1>3, <1>4, <1>11, SlotKept DEF Still
<1>12. ASSUME NEW a \in Pointer PROVE SendingOK(a)'
  <2>1. SendingOK(a)
    BY DEF TraceInv
  <2>2. sending[a] # Nil => sending[a].slot \in Slot
    BY LiveSending DEF Base
  <2>3. sending[a] # Nil => Ready(sending[a].slot) /\ Live(sending[a].slot)
    BY <2>1 DEF SendingOK, Ready
  <2>. QED
    BY <1>3, <1>5, <2>2, <2>3, StillKeepsSending
<1>. QED
  BY <1>6, <1>7, <1>8, <1>9, <1>10, <1>11, <1>12 DEF TraceInv

-----------------------------------------------------------------------------
(* rmw_publisher_init: the gid is new, so a publisher registered under the address
   before is of a former slot and is replaced.  It is only marked removed. *)
RemovedOnly(q) == publishers'[q] \in {publishers[q], AfterRemoval(publishers[q])}

LEMMA RemovalFields ==
  ASSUME NEW o \in PublisherObject
  PROVE  /\ AfterRemoval(o) \in PublisherObject
         /\ AfterRemoval(o).rmw = o.rmw /\ AfterRemoval(o).rcl = o.rcl
         /\ AfterRemoval(o).gid = o.gid /\ AfterRemoval(o).topic = o.topic
         /\ AfterRemoval(o).node = o.node
         /\ IsStub(AfterRemoval(o)) <=> IsStub(o)
  BY DEF AfterRemoval, PublisherObject, IsStub, IsUnknown

LEMMA RemovedOnlyFields ==
  ASSUME Base, NEW q \in Publisher, publishers[q] # Nil, RemovedOnly(q)
  PROVE  /\ publishers'[q] # Nil
         /\ publishers'[q].rmw = publishers[q].rmw /\ publishers'[q].rcl = publishers[q].rcl
         /\ publishers'[q].gid = publishers[q].gid /\ publishers'[q].topic = publishers[q].topic
         /\ publishers'[q].node = publishers[q].node
         /\ IsStub(publishers'[q]) <=> IsStub(publishers[q])
<1>1. publishers[q] \in PublisherObject
  BY DEF Base, RefsOK, RegistryOK
<1>. QED
  BY <1>1, RemovalFields, NilIsNothing DEF RemovedOnly

LEMMA NewRmwFields ==
  ASSUME NEW r \in RmwHandle, NEW g \in Gid
  PROVE  LET o == AfterRmwInit(DefaultPublisher, r, g) IN
         /\ o \in PublisherObject
         /\ o.rmw = r /\ o.gid = g /\ o.rcl = Unknown /\ ~o.removed
  BY DefaultPublisherType DEF AfterRmwInit, DefaultPublisher, PublisherObject, Maybe

(* What the step does to the registries. *)
LEMMA CreateRmwEffect ==
  ASSUME Base, TraceInv, NEW r \in RmwHandle, NEW g \in Gid, g \notin usedGids,
         RmwPublisherInit(r, g)
  PROVE  /\ outcome' = outcome
         /\ publishersByRmw' = [publishersByRmw EXCEPT ![r] = NewPublisher]
         /\ NewPublisher \in Publisher /\ publishers[NewPublisher] = Nil
         /\ publishers'[NewPublisher] = AfterRmwInit(DefaultPublisher, r, g)
         /\ \A q \in Publisher : publishers[q] # Nil => RemovedOnly(q)
         /\ \A q \in Publisher :
              publishers[q] # Nil /\ q # publishersByRmw[r] => publishers'[q] = publishers[q]
         /\ UNCHANGED <<publishersByRcl, traffic>>
<1>. DEFINE p == publishersByRmw[r]
            o == AfterRmwInit(DefaultPublisher, r, g)
<1>0. publishers \in [Publisher -> PublisherObject \cup {Nil}]
  BY DEF Base, RefsOK, RegistryOK
<1>1. p # Nil => /\ p \in Publisher /\ publishers[p] # Nil
                 /\ ~publishers[p].removed
                 /\ ~AcceptsRmwInit(publishers[p], r, g)
  BY RmwEntry DEF AcceptsRmwInit, IsUnknownOrEq
<1>2. CASE p = Nil
  <2>1. /\ FreePublisher
        /\ publishers' = [publishers EXCEPT ![NewPublisher] = o]
        /\ publishersByRmw' = [publishersByRmw EXCEPT ![r] = NewPublisher]
        /\ outcome' = outcome /\ UNCHANGED <<publishersByRcl, traffic>>
    BY <1>2 DEF RmwPublisherInit, Continue
  <2>2. NewPublisher \in Publisher /\ publishers[NewPublisher] = Nil
    BY <2>1, FreshPublisher
  <2>. HIDE DEF o
  <2>3. publishers'[NewPublisher] = o
    BY <1>0, <2>1, <2>2
  <2>4. \A q \in Publisher : publishers[q] # Nil => publishers'[q] = publishers[q]
    BY <1>0, <2>1, <2>2
  <2>. QED
    BY <2>1, <2>2, <2>3, <2>4 DEF RemovedOnly, o
<1>3. CASE p # Nil
  <2>. DEFINE u == AfterRemoval(publishers[p])
  <2>1. /\ FreePublisher
        /\ publishers' = [publishers EXCEPT ![p] = u, ![NewPublisher] = o]
        /\ publishersByRmw' = [publishersByRmw EXCEPT ![r] = NewPublisher]
        /\ outcome' = outcome /\ UNCHANGED <<publishersByRcl, traffic>>
    BY <1>1, <1>3 DEF RmwPublisherInit, Continue
  <2>2. NewPublisher \in Publisher /\ publishers[NewPublisher] = Nil
    BY <2>1, FreshPublisher
  <2>. HIDE DEF o, u
  <2>3. publishers'[NewPublisher] = o
    BY <1>0, <2>1, <2>2
  <2>4. publishers'[p] = u
    BY <1>0, <1>1, <1>3, <2>1, <2>2
  <2>5. \A q \in Publisher : publishers[q] # Nil /\ q # p => publishers'[q] = publishers[q]
    BY <1>0, <2>1, <2>2
  <2>. QED
    BY <2>1, <2>2, <2>3, <2>4, <2>5 DEF RemovedOnly, o, u
<1>. QED
  BY <1>2, <1>3

LEMMA CreateRmwKeepsTrace ==
  ASSUME Base, TraceInv, ~AnyReuse,
         NEW x \in Slot, NEW r \in RmwHandle, NEW h \in RclHandle, NEW t \in Topic, NEW g \in Gid,
         CreateRmw(x, r, h, t, g)
  PROVE  TraceInv'
<1>. DEFINE o == [r |-> r, h |-> h, topic |-> t, phase |-> "created"]
            w == NewPublisher
<1>1. /\ ~Live(x) /\ g \notin usedGids /\ RmwPublisherInit(r, g)
      /\ \A y \in Slot : Live(y) => slots[y].r # r
      /\ \A u \in used : u[2] = h => u[1] = r
      /\ used' = used \cup {<<r, h>>} /\ usedGids' = usedGids \cup {g} /\ sending' = sending
      /\ slots' = [slots EXCEPT ![x] = o]
  BY DEF CreateRmw, MayAllocate
<1>2. o \in SlotObject /\ o # Nil /\ o.r = r /\ o.h = h /\ o.phase = "created"
  BY NilIsNoSlot DEF SlotObject
<1>3. /\ publishersByRmw' = [publishersByRmw EXCEPT ![r] = w]
      /\ w \in Publisher /\ publishers[w] = Nil
      /\ publishers'[w] = AfterRmwInit(DefaultPublisher, r, g)
      /\ \A q \in Publisher : publishers[q] # Nil => RemovedOnly(q)
      /\ \A q \in Publisher :
           publishers[q] # Nil /\ q # publishersByRmw[r] => publishers'[q] = publishers[q]
      /\ publishersByRcl' = publishersByRcl
      /\ UNCHANGED <<messages, messagesByRclcpp, messagesByRcl>>
  BY <1>1, CreateRmwEffect DEF traffic
<1>. HIDE DEF o, w
<1>4. /\ publishers'[w].rmw = r /\ publishers'[w].gid = g /\ publishers'[w].rcl = Unknown
      /\ ~publishers'[w].removed
  BY <1>3, NewRmwFields
<1>5. slots'[x] = o /\ \A y \in Slot : y # x => slots'[y] = slots[y]
  BY <1>1 DEF Base, AppTypeOK
<1>6. /\ publishersByRmw'[r] = w
      /\ \A k \in RmwHandle : k # r => publishersByRmw'[k] = publishersByRmw[k]
  BY <1>3 DEF Base, RefsOK, RegistryOK
<1>7. Persist
  BY <1>3, RemovedOnlyFields DEF Persist
<1>8. Owned'
  BY <1>1 DEF TraceInv, Owned
<1>9. Apart'
  BY <1>1, <1>2, <1>5 DEF TraceInv, Apart, Live
<1>10. ASSUME NEW k \in RmwHandle PROVE ByRmwOK(k)'
  <2>1. CASE k = r
    BY <1>1, <1>4, <1>6, <2>1 DEF ByRmwOK
  <2>2. CASE k # r /\ publishersByRmw[k] # Nil
    <3>1. publishersByRmw[k] # publishersByRmw[r]
      BY <2>2, RmwEntry
    <3>2. publishers'[publishersByRmw[k]] = publishers[publishersByRmw[k]]
      BY <1>3, <2>2, <3>1, RmwEntry
    <3>. QED
      BY <1>1, <1>6, <2>2, <3>2, RmwEntry DEF ByRmwOK
  <2>3. CASE k # r /\ publishersByRmw[k] = Nil
    BY <1>6, <2>3 DEF ByRmwOK
  <2>. QED
    BY <2>1, <2>2, <2>3
<1>11. ASSUME NEW k \in RclHandle PROVE ByRclOK(k)'
  BY <1>1, <1>3, <1>7, ByRclKept
<1>12. ASSUME NEW y \in Slot, y # x, Live(y)
       PROVE  publishersByRmw'[slots[y].r] = publishersByRmw[slots[y].r]
  BY <1>1, <1>6, <1>12, LiveSlot DEF Base
<1>13. SlotOK(x)'
  <2>1. w # Nil
    BY <1>3, NilIsNothing
  <2>2. ByRmwOf(x)' = w
    BY <1>2, <1>5, <1>6 DEF ByRmwOf
  <2>. QED
    BY <1>1, <1>2, <1>4, <1>5, <2>1, <2>2 DEF SlotOK, IsUnknown
<1>14. ASSUME NEW y \in Slot, y # x PROVE SlotOK(y)'
  <2>1. ASSUME Live(y)
        PROVE  /\ publishers'[ByRmwOf(y)].topic = publishers[ByRmwOf(y)].topic
               /\ publishers'[ByRmwOf(y)].rcl = publishers[ByRmwOf(y)].rcl
    <3>1. SlotOK(y) /\ slots[y].r \in RmwHandle
      BY <2>1, LiveSlot DEF TraceInv, Base
    <3>2. ByRmwOf(y) \in Publisher /\ publishers[ByRmwOf(y)] # Nil
      BY <2>1, <3>1, RmwEntry DEF ByRmwOf, SlotOK
    <3>. QED
      BY <1>3, <3>2, RemovedOnlyFields
  <2>. QED
    BY <1>1, <1>3, <1>5, <1>7, <1>12, <1>14, <2>1, SlotKept
<1>15. ASSUME NEW a \in Pointer PROVE SendingOK(a)'
  <2>1. SendingOK(a)
    BY DEF TraceInv
  <2>2. ASSUME sending[a] # Nil
        PROVE  /\ Ready(sending[a].slot)'
               /\ slots'[sending[a].slot].r = slots[sending[a].slot].r
               /\ ByRmwOf(sending[a].slot)' = ByRmwOf(sending[a].slot)
    <3>1. sending[a].slot \in Slot /\ Ready(sending[a].slot) /\ sending[a].slot # x
      BY <1>1, <2>1, <2>2, LiveSending DEF Base, SendingOK, Ready
    <3>2. slots'[sending[a].slot] = slots[sending[a].slot] /\ sending' = sending
      BY <1>1, <1>5, <3>1
    <3>3. publishersByRmw'[slots[sending[a].slot].r] = publishersByRmw[slots[sending[a].slot].r]
      BY <1>12, <3>1 DEF Ready
    <3>. QED
      BY <3>1, <3>2, <3>3 DEF Ready, Live, ByRmwOf
  <2>. QED
    BY <1>1, <1>3, <1>7, <2>2, SendingKept DEF Carried
<1>. QED
  BY <1>8, <1>9, <1>10, <1>11, <1>13, <1>14, <1>15 DEF TraceInv

-----------------------------------------------------------------------------
(* rcl_publisher_init: the publisher rmw_publisher_init made is completed.  Whoever
   has the rcl handle is marked removed; nobody finds that one by an rmw address. *)
LEMMA RclInitFields ==
  ASSUME NEW o \in PublisherObject, NEW h \in RclHandle, NEW t \in Topic, NEW n \in NodeHandle
  PROVE  LET u == AfterRclInit(o, h, t, n) IN
         /\ u \in PublisherObject
         /\ u.rmw = o.rmw /\ u.gid = o.gid /\ u.removed = o.removed
         /\ u.rcl = h /\ u.topic = t
  BY DEF AfterRclInit, PublisherObject, Maybe

LEMMA CreateRclEffect ==
  ASSUME Base, TraceInv, NEW x \in Slot, NEW n \in NodeHandle, CreateRcl(x, n)
  PROVE  LET p == ByRmwOf(x)
             h == slots[x].h
             old == publishersByRcl[h] IN
         /\ outcome' = outcome
         /\ p \in Publisher /\ publishers[p] # Nil /\ p # old
         /\ publishers'[p] = AfterRclInit(publishers[p], h, slots[x].topic, n)
         /\ \A q \in Publisher : publishers[q] # Nil /\ q # p => RemovedOnly(q)
         /\ \A q \in Publisher \ {p, old} : publishers'[q] = publishers[q]
         /\ publishersByRcl' = [publishersByRcl EXCEPT ![h] = p]
         /\ UNCHANGED <<publishersByRmw, traffic>>
<1>. DEFINE r == slots[x].r
            h == slots[x].h
            t == slots[x].topic
            p == publishersByRmw[r]
            old == publishersByRcl[h]
            o == AfterRclInit(publishers[p], h, t, n)
            heap == [publishers EXCEPT ![p] = o]
<1>0. publishers \in [Publisher -> PublisherObject \cup {Nil}]
  BY DEF Base, RefsOK, RegistryOK
<1>1. /\ r \in RmwHandle /\ h \in RclHandle /\ t \in Topic
      /\ Live(x) /\ slots[x].phase = "created"
      /\ nodes[n] = "named" \/ t = Rosout
      /\ RclPublisherInit(r, h, t, n)
  BY LiveSlot DEF CreateRcl, Base
<1>2. p # Nil /\ publishers[p].rcl = Unknown
  BY <1>1 DEF TraceInv, SlotOK, ByRmwOf, IsUnknown
<1>3. /\ p \in Publisher /\ publishers[p] # Nil /\ publishers[p] \in PublisherObject
      /\ ~publishers[p].removed
  BY <1>1, <1>2, RmwEntry
<1>4. p # old
  BY <1>1, <1>2, PublishersAssumption, RclEntry
<1>5. /\ RegisterByRcl(heap, p, h, n)
      /\ UNCHANGED publishersByRmw
  <2>. HIDE DEF r, h, t, p, old
  <2>1. nodes[n] = "absent" => t = Rosout
    BY <1>1
  <2>2. AcceptsRclInit(publishers[p])
    BY <1>2 DEF AcceptsRclInit, IsUnknown
  <2>3. RclPublisherInit(r, h, t, n) => RegisterByRcl(heap, p, h, n) /\ UNCHANGED publishersByRmw
    BY <1>2, <1>3, <2>1, <2>2 DEF RclPublisherInit, p
  <2>. QED
    BY <1>1, <2>3
<1>. HIDE DEF r, h, t, p, old, o
<1>6. /\ heap \in [Publisher -> PublisherObject \cup {Nil}] /\ heap[p] = o
      /\ \A q \in Publisher \ {p} : heap[q] = publishers[q]
  <2>1. o \in PublisherObject
    BY <1>1, <1>3, RclInitFields DEF o
  <2>. QED
    BY <1>0, <1>3, <2>1
<1>7. /\ publishers' = IF old = Nil THEN heap ELSE [heap EXCEPT ![old] = AfterRemoval(@)]
      /\ publishersByRcl' = [publishersByRcl EXCEPT ![h] = p]
      /\ outcome' = outcome /\ UNCHANGED traffic
  BY <1>5 DEF RegisterByRcl, Continue, old
<1>. HIDE DEF heap
<1>8. publishers'[p] = o /\ \A q \in Publisher \ {p, old} : publishers'[q] = publishers[q]
  BY <1>3, <1>4, <1>6, <1>7
<1>9. old # Nil => old \in Publisher
  BY <1>1, RclEntry DEF old
<1>10. old # Nil => publishers'[old] = AfterRemoval(publishers[old])
  BY <1>4, <1>6, <1>7, <1>9
<1>11. \A q \in Publisher : q = old => old # Nil
  BY NilIsNothing
<1>12. \A q \in Publisher : publishers[q] # Nil /\ q # p => RemovedOnly(q)
  BY <1>8, <1>10, <1>11 DEF RemovedOnly
<1>. QED
  BY <1>3, <1>4, <1>5, <1>7, <1>8, <1>12 DEF ByRmwOf, r, h, t, p, old, o

LEMMA CreateRclKeepsTrace ==
  ASSUME Base, TraceInv, NEW x \in Slot, NEW n \in NodeHandle, CreateRcl(x, n)
  PROVE  TraceInv'
<1>. DEFINE r == slots[x].r
            h == slots[x].h
            p == ByRmwOf(x)
            old == publishersByRcl[h]
            o == [slots[x] EXCEPT !.phase = "ready"]
<1>0. /\ Live(x) /\ slots[x].phase = "created"
      /\ r \in RmwHandle /\ h \in RclHandle /\ slots[x].topic \in Topic
      /\ <<r, h>> \in used /\ p # Nil
  BY LiveSlot DEF CreateRcl, Base, TraceInv, SlotOK
<1>1. /\ slots' = [slots EXCEPT ![x] = o] /\ UNCHANGED <<used, usedGids, sending>>
      /\ o \in SlotObject /\ o # Nil
      /\ o.r = r /\ o.h = h /\ o.topic = slots[x].topic /\ o.phase = "ready"
  BY <1>0, LiveSlot, NilIsNoSlot DEF CreateRcl, Base, SlotObject
<1>2. /\ p \in Publisher /\ publishers[p] # Nil /\ p # old
      /\ publishers'[p] = AfterRclInit(publishers[p], h, slots[x].topic, n)
      /\ \A q \in Publisher : publishers[q] # Nil /\ q # p => RemovedOnly(q)
      /\ \A q \in Publisher \ {p, old} : publishers'[q] = publishers[q]
      /\ publishersByRcl' = [publishersByRcl EXCEPT ![h] = p]
      /\ publishersByRmw' = publishersByRmw
      /\ UNCHANGED <<messages, messagesByRclcpp, messagesByRcl>>
  BY CreateRclEffect DEF traffic
<1>3. /\ publishers[p] \in PublisherObject
      /\ publishers[p].rmw = r /\ publishers[p].gid # Unknown /\ publishers[p].gid \in usedGids
      /\ ~publishers[p].removed /\ ~IsStub(publishers[p])
      /\ p = publishersByRmw[r]
  BY <1>0, RmwEntry DEF ByRmwOf
<1>4. /\ publishers'[p].rmw = r /\ publishers'[p].gid = publishers[p].gid
      /\ ~publishers'[p].removed /\ publishers'[p].topic = slots[x].topic /\ publishers'[p] # Nil
  BY <1>0, <1>2, <1>3, RclInitFields, NilIsNothing
<1>5. publishers[p].rcl = Unknown
  BY <1>0 DEF TraceInv, SlotOK, IsUnknown
<1>6. Owned /\ Apart
  BY DEF TraceInv
<1>. HIDE DEF o, r, h, p, old
<1>7. slots'[x] = o /\ \A y \in Slot : y # x => slots'[y] = slots[y]
  BY <1>1 DEF Base, AppTypeOK
<1>8. /\ publishersByRcl'[h] = p
      /\ \A k \in RclHandle : k # h => publishersByRcl'[k] = publishersByRcl[k]
  BY <1>0, <1>2 DEF Base, RefsOK, RegistryOK
<1>9. Persist
  <2>1. ASSUME NEW q \in Publisher, publishers[q] # Nil, q # p
        PROVE  /\ publishers'[q] # Nil
               /\ publishers'[q].gid = publishers[q].gid /\ publishers'[q].rmw = publishers[q].rmw
               /\ publishers'[q].rcl = publishers[q].rcl
               /\ IsStub(publishers'[q]) <=> IsStub(publishers[q])
    BY <1>2, <2>1, RemovedOnlyFields
  <2>. QED
    BY <1>3, <1>4, <2>1 DEF Persist
<1>10. ASSUME NEW k \in RmwHandle, publishersByRmw[k] # Nil PROVE publishersByRmw[k] # old
  <2>1. SUFFICES ASSUME publishersByRmw[k] = old PROVE FALSE
    OBVIOUS
  <2>2. ByRclOK(h) /\ old # Nil
    BY <1>0, <1>10, <2>1 DEF TraceInv
  <2>3. ~IsStub(publishers[old]) /\ publishers[old].rmw = k
    BY <1>10, <2>1, RmwEntry
  <2>4. <<k, h>> \in used
    BY <2>2, <2>3 DEF ByRclOK, old
  <2>5. k = r
    BY <1>0, <1>6, <2>4 DEF Owned
  <2>. QED
    BY <1>2, <1>3, <2>1, <2>5
<1>11. Owned' /\ Apart'
  <2>1. \A y \in Slot : (Live(y)' <=> Live(y)) /\ (Live(y) => slots'[y].r = slots[y].r)
    BY <1>0, <1>1, <1>7 DEF Live, r
  <2>. QED
    BY <1>1, <1>6, <2>1 DEF Owned, Apart
<1>12. ASSUME NEW k \in RmwHandle PROVE ByRmwOK(k)'
  <2>1. CASE k = r
    BY <1>1, <1>2, <1>3, <1>4, <2>1 DEF ByRmwOK
  <2>2. CASE k # r /\ publishersByRmw[k] # Nil
    <3>1. /\ publishersByRmw[k] \in Publisher /\ publishers[publishersByRmw[k]].rmw = k
          /\ publishers[publishersByRmw[k]].gid \in usedGids
          /\ ~publishers[publishersByRmw[k]].removed
      BY <2>2, RmwEntry
    <3>2. publishersByRmw[k] # p /\ publishersByRmw[k] # old
      BY <1>3, <1>10, <2>2, <3>1
    <3>3. publishers'[publishersByRmw[k]] = publishers[publishersByRmw[k]]
      BY <1>2, <3>1, <3>2
    <3>. QED
      BY <1>1, <1>2, <2>2, <3>1, <3>3 DEF ByRmwOK
  <2>3. CASE k # r /\ publishersByRmw[k] = Nil
    BY <1>2, <2>3 DEF ByRmwOK
  <2>. QED
    BY <2>1, <2>2, <2>3
<1>13. ASSUME NEW k \in RclHandle PROVE ByRclOK(k)'
  <2>1. CASE k = h
    BY <1>0, <1>1, <1>3, <1>4, <1>8, <2>1 DEF ByRclOK, IsKnown
  <2>2. CASE k # h
    BY <1>1, <1>8, <1>9, <2>2, ByRclKept
  <2>. QED
    BY <2>1, <2>2
<1>14. ByRmwOf(x)' = p /\ ByRclOf(x)' = p
  BY <1>1, <1>2, <1>3, <1>7, <1>8 DEF ByRmwOf, ByRclOf
<1>15. SlotOK(x)'
  BY <1>0, <1>1, <1>4, <1>7, <1>14 DEF SlotOK
<1>16. ASSUME NEW y \in Slot, y # x PROVE SlotOK(y)'
  <2>1. ASSUME Live(y)
        PROVE  /\ slots[y].r # r /\ slots[y].h # h
               /\ slots[y].r \in RmwHandle /\ slots[y].h \in RclHandle
               /\ ByRmwOf(y) \in Publisher \ {p, old}
    <3>1. /\ slots[y].r \in RmwHandle /\ slots[y].h \in RclHandle
          /\ <<slots[y].r, slots[y].h>> \in used /\ ByRmwOf(y) # Nil
      BY <2>1, LiveSlot DEF Base, TraceInv, SlotOK
    <3>2. slots[y].r # r
      BY <1>0, <1>6, <1>16, <2>1 DEF Apart, r
    <3>3. slots[y].h # h
      BY <1>0, <1>6, <3>1, <3>2 DEF Owned
    <3>4. publishersByRmw[slots[y].r] # Nil
      BY <3>1 DEF ByRmwOf
    <3>5. ByRmwOf(y) \in Publisher /\ ByRmwOf(y) # p
      BY <1>3, <3>1, <3>2, <3>4, RmwEntry DEF ByRmwOf
    <3>6. ByRmwOf(y) # old
      BY <1>10, <3>1, <3>4 DEF ByRmwOf
    <3>. QED
      BY <3>1, <3>2, <3>3, <3>5, <3>6
  <2>2. Live(y) => publishers'[ByRmwOf(y)] = publishers[ByRmwOf(y)]
    BY <1>2, <2>1
  <2>. QED
    BY <1>1, <1>2, <1>7, <1>8, <1>9, <1>16, <2>1, <2>2, SlotKept
<1>17. ASSUME NEW a \in Pointer PROVE SendingOK(a)'
  <2>1. SendingOK(a)
    BY DEF TraceInv
  <2>2. ASSUME sending[a] # Nil
        PROVE  /\ Ready(sending[a].slot)'
               /\ slots'[sending[a].slot].r = slots[sending[a].slot].r
               /\ ByRmwOf(sending[a].slot)' = ByRmwOf(sending[a].slot)
    <3>1. sending[a].slot \in Slot /\ Ready(sending[a].slot) /\ sending[a].slot # x
      BY <1>0, <2>1, <2>2, LiveSending DEF Base, SendingOK, Ready
    <3>2. slots'[sending[a].slot] = slots[sending[a].slot] /\ sending' = sending
      BY <1>1, <1>7, <3>1
    <3>. QED
      BY <1>2, <3>1, <3>2 DEF Ready, Live, ByRmwOf
  <2>. QED
    BY <1>1, <1>2, <1>9, <2>2, SendingKept DEF Carried
<1>. QED
  BY <1>11, <1>12, <1>13, <1>15, <1>16, <1>17 DEF TraceInv

-----------------------------------------------------------------------------
(* A publication at address a: messages on their way at other addresses stay. *)
SlotsStand == UNCHANGED <<slots, used, usedGids>>

ElsewhereSent(a) ==
  \A b \in Pointer : b # a =>
    /\ sending'[b] = sending[b]
    /\ messagesByRclcpp'[b] = messagesByRclcpp[b]
    /\ messagesByRcl'[b] = messagesByRcl[b]
    /\ messagesByRclcpp[b] # Nil
         => messages'[messagesByRclcpp[b]] = messages[messagesByRclcpp[b]]
    /\ messagesByRcl[b] # Nil => messages'[messagesByRcl[b]] = messages[messagesByRcl[b]]

LEMMA SendingElsewhere ==
  ASSUME Base, TraceInv, Persist, SlotsStand, publishersByRmw' = publishersByRmw,
         NEW a \in Pointer, ElsewhereSent(a), NEW b \in Pointer, b # a
  PROVE  SendingOK(b)'
<1>1. SendingOK(b)
  BY DEF TraceInv
<1>2. UNCHANGED <<slots, used>> /\ sending'[b] = sending[b]
  BY DEF SlotsStand, ElsewhereSent
<1>3. sending[b] # Nil =>
        /\ Ready(sending[b].slot)'
        /\ slots'[sending[b].slot].r = slots[sending[b].slot].r
        /\ ByRmwOf(sending[b].slot)' = ByRmwOf(sending[b].slot)
  BY <1>1, <1>2 DEF SendingOK, Ready, Live, ByRmwOf
<1>. QED
  BY <1>2, <1>3, SendingKept DEF ElsewhereSent, Carried

LEMMA SlotsStandKeeps ==
  ASSUME TraceInv, SlotsStand
  PROVE  Owned' /\ Apart'
  BY DEF TraceInv, SlotsStand, Owned, Apart, Live

(* Writing the message of one address, or a new one. *)
LEMMA OneMessageWritten ==
  ASSUME Base, NEW a \in Pointer, NEW m \in Message, NEW o \in MessageObject,
         messages' = [messages EXCEPT ![m] = o],
         messages[m] = Nil \/ m = messagesByRclcpp[a] \/ m = messagesByRcl[a],
         NEW b \in Pointer, b # a
  PROVE  /\ messagesByRclcpp[b] # Nil
              => messages'[messagesByRclcpp[b]] = messages[messagesByRclcpp[b]]
         /\ messagesByRcl[b] # Nil => messages'[messagesByRcl[b]] = messages[messagesByRcl[b]]
<1>0. m # Nil
  BY NilIsNothing
<1>1. messagesByRclcpp[b] # Nil => messagesByRclcpp[b] # m
  <2>1. SUFFICES ASSUME messagesByRclcpp[b] = m PROVE FALSE
    OBVIOUS
  <2>2. messages[m] # Nil /\ messages[m].layers = {"rclcpp"}
    BY <1>0, <2>1, RclcppEntry
  <2>3. CASE m = messagesByRclcpp[a]
    BY <1>0, <2>1, <2>3 DEF Base, WaitsInOnePlace
  <2>4. CASE m = messagesByRcl[a]
    BY <1>0, <2>2, <2>4, CarriedEntry
  <2>. QED
    BY <2>2, <2>3, <2>4
<1>2. messagesByRcl[b] # Nil => messagesByRcl[b] # m
  <2>1. SUFFICES ASSUME messagesByRcl[b] = m PROVE FALSE
    OBVIOUS
  <2>2. messages[m] # Nil /\ "rcl" \in messages[m].layers
    BY <1>0, <2>1, CarriedEntry
  <2>3. CASE m = messagesByRclcpp[a]
    BY <1>0, <2>2, <2>3, RclcppEntry
  <2>4. CASE m = messagesByRcl[a]
    BY <1>0, <2>1, <2>4 DEF Base, WaitsInOnePlace
  <2>. QED
    BY <2>2, <2>3, <2>4
<1>3. messages \in [Message -> MessageObject \cup {Nil}]
  BY DEF Base, RefsOK, TrafficOK
<1>. QED
  BY <1>1, <1>2, <1>3, RclcppEntry, CarriedEntry

LEMMA SendingFunctions ==
  ASSUME Base
  PROVE  /\ sending \in [Pointer -> SendingObject \cup {Nil}]
         /\ messages \in [Message -> MessageObject \cup {Nil}]
         /\ messagesByRclcpp \in [Pointer -> Message \cup {Nil}]
         /\ messagesByRcl \in [Pointer -> Message \cup {Nil}]
<1>1. MadeMessage \subseteq Message
  BY DEF MadeMessage
<1>. QED
  BY <1>1 DEF Base, AppTypeOK, RefsOK, TrafficOK

LEMMA NewMessageType ==
  /\ AfterPublish(DefaultMessage, "rclcpp") \in MessageObject
  /\ AfterPublish(DefaultMessage, "rclcpp").publisher = Unknown
  /\ "rclcpp" \in AfterPublish(DefaultMessage, "rclcpp").layers
  BY DEF AfterPublish, DefaultMessage, MessageObject, Maybe, Layer

LEMMA PublishRclcppKeepsTrace ==
  ASSUME Base, TraceInv, NEW x \in Slot, NEW a \in Pointer, PublishRclcpp(x, a)
  PROVE  TraceInv'
<1>. DEFINE m == NewMessage
            o == AfterPublish(DefaultMessage, "rclcpp")
            d == [slot |-> x, layer |-> "rclcpp"]
<1>0. /\ Ready(x) /\ sending[a] = Nil
      /\ sending' = [sending EXCEPT ![a] = d]
      /\ d \in SendingObject /\ d # Nil /\ d.slot = x /\ d.layer = "rclcpp"
  BY NilIsNoSlot DEF PublishRclcpp, SendingObject
<1>1. /\ SlotsStand /\ UNCHANGED <<publishers, publishersByRmw, publishersByRcl>>
      /\ messagesByRcl' = messagesByRcl
      /\ m \in Message /\ messages[m] = Nil
      /\ messages' = [messages EXCEPT ![m] = o]
      /\ messagesByRclcpp' = [messagesByRclcpp EXCEPT ![a] = m]
  BY FreshMessage DEF PublishRclcpp, RclcppPublish, SlotsStand, registry
<1>2. o \in MessageObject /\ o.publisher = Unknown
  BY NewMessageType
<1>. HIDE DEF m, o, d
<1>3. Persist
  BY <1>1, StillPersists
<1>4. ElsewhereSent(a)
  BY <1>0, <1>1, <1>2, OneMessageWritten, SendingFunctions DEF ElsewhereSent
<1>5. SendingOK(a)'
  <2>1. /\ messagesByRclcpp'[a] = m /\ messagesByRcl'[a] = Nil
        /\ sending'[a] = d /\ messages'[m] = o
    <3>1. messagesByRcl[a] = Nil
      BY <1>0 DEF TraceInv, SendingOK
    <3>. QED
      BY <1>0, <1>1, <3>1, SendingFunctions
  <2>2. Ready(x)'
    BY <1>0, <1>1 DEF SlotsStand, Ready, Live
  <2>3. m # Nil
    BY <1>1, NilIsNothing
  <2>. QED
    BY <1>0, <1>2, <2>1, <2>2, <2>3 DEF SendingOK, IsUnknown
<1>6. ASSUME NEW r \in RmwHandle PROVE ByRmwOK(r)'
  <2>1. ByRmwOK(r)
    BY DEF TraceInv
  <2>. QED
    BY <1>1, <2>1 DEF ByRmwOK, SlotsStand
<1>7. ASSUME NEW h \in RclHandle PROVE ByRclOK(h)'
  BY <1>1, <1>3, ByRclKept DEF SlotsStand
<1>8. ASSUME NEW y \in Slot PROVE SlotOK(y)'
  BY <1>1, <1>3, SlotKept DEF SlotsStand
<1>9. ASSUME NEW b \in Pointer, b # a PROVE SendingOK(b)'
  BY <1>1, <1>3, <1>4, <1>9, SendingElsewhere
<1>. QED
  BY <1>1, <1>5, <1>6, <1>7, <1>8, <1>9, SlotsStandKeeps DEF TraceInv

-----------------------------------------------------------------------------
(* rcl_publish: the message carries what the rcl registry has for the slot now, a
   new stub if that is nothing. *)
LEMMA RclMessageType ==
  ASSUME NEW o \in MessageObject, NEW p \in Publisher
  PROVE  LET u == AfterPublish(AfterSetPublisher(o, p), "rcl") IN
         u \in MessageObject /\ u.publisher = p
  BY DEF AfterPublish, AfterSetPublisher, MessageObject, Maybe, Layer

LEMMA StubFields ==
  ASSUME NEW h \in RclHandle
  PROVE  /\ Stub(h) \in PublisherObject
         /\ IsStub(Stub(h)) /\ Stub(h).rcl = h
  BY StubType DEF Stub, DefaultPublisher, IsStub, IsUnknown

LEMMA RclPublishEffect ==
  ASSUME Base, TraceInv, NEW a \in Pointer, NEW h \in RclHandle, RclPublish(a, h)
  PROVE  \E m \in Message, o \in MessageObject, p \in Publisher :
           /\ outcome' = outcome
           /\ messages[m] = Nil \/ m = messagesByRclcpp[a]
           /\ o.publisher = p
           /\ messages' = [messages EXCEPT ![m] = o]
           /\ messagesByRclcpp' = [messagesByRclcpp EXCEPT ![a] = Nil]
           /\ messagesByRcl' = [messagesByRcl EXCEPT ![a] = m]
           /\ publishersByRcl' = [publishersByRcl EXCEPT ![h] = p]
           /\ \A q \in Publisher : publishers[q] # Nil => publishers'[q] = publishers[q]
           /\ \/ p = publishersByRcl[h]
              \/ publishersByRcl[h] = Nil /\ publishers'[p] = Stub(h)
           /\ UNCHANGED <<publishersByRmw, published>>
<1>. DEFINE fresh == messagesByRclcpp[a] = Nil
            m == IF fresh THEN NewMessage ELSE messagesByRclcpp[a]
            o == IF fresh THEN DefaultMessage ELSE messages[m]
            p == IF publishersByRcl[h] = Nil THEN NewPublisher ELSE publishersByRcl[h]
            u == AfterPublish(AfterSetPublisher(o, p), "rcl")
<1>1. AcceptsPublisher(o)
  <2>1. fresh => o.publisher = Unknown
    BY DEF DefaultMessage
  <2>2. ~fresh => o.publisher = Unknown
    BY DEF TraceInv, SendingOK, IsUnknown
  <2>. QED
    BY <2>1, <2>2 DEF AcceptsPublisher, IsUnknown
<1>2. /\ fresh => FreeMessage
      /\ publishersByRcl[h] = Nil => FreePublisher
      /\ messagesByRclcpp' = Taken(messagesByRclcpp, a)
      /\ messagesByRcl' = [messagesByRcl EXCEPT ![a] = m]
      /\ messages' = [messages EXCEPT ![m] = u]
      /\ publishersByRcl' = [publishersByRcl EXCEPT ![h] = p]
      /\ publishers' = IF publishersByRcl[h] # Nil THEN publishers
                       ELSE [publishers EXCEPT ![p] = Stub(h)]
      /\ outcome' = outcome
      /\ UNCHANGED <<publishersByRmw, published>>
  BY <1>1 DEF RclPublish, Continue
<1>3. m \in Message /\ o \in MessageObject /\ (messages[m] = Nil \/ m = messagesByRclcpp[a])
  <2>1. CASE fresh
    BY <1>2, <2>1, FreshMessage, DefaultMessageType
  <2>2. CASE ~fresh
    BY <2>2, RclcppEntry
  <2>. QED
    BY <2>1, <2>2
<1>4. /\ p \in Publisher
      /\ publishersByRcl[h] = Nil => publishers[p] = Nil
  <2>1. CASE publishersByRcl[h] = Nil
    BY <1>2, <2>1, FreshPublisher
  <2>2. CASE publishersByRcl[h] # Nil
    BY <2>2, RclEntry
  <2>. QED
    BY <2>1, <2>2
<1>. HIDE DEF m, o, p
<1>5. u \in MessageObject /\ u.publisher = p
  BY <1>3, <1>4, RclMessageType
<1>6. publishers \in [Publisher -> PublisherObject \cup {Nil}]
  BY DEF Base, RefsOK, RegistryOK
<1>7. /\ \A q \in Publisher : publishers[q] # Nil => publishers'[q] = publishers[q]
      /\ publishersByRcl[h] = Nil => publishers'[p] = Stub(h)
  BY <1>2, <1>4, <1>6
<1>8. p = publishersByRcl[h] \/ publishersByRcl[h] = Nil
  BY DEF p
<1>9. messagesByRclcpp' = [messagesByRclcpp EXCEPT ![a] = Nil]
  BY <1>2 DEF Taken
<1>. HIDE DEF u
<1>. QED
  BY <1>2, <1>3, <1>4, <1>5, <1>7, <1>8, <1>9

LEMMA PublishRclKeepsTrace ==
  ASSUME Base, TraceInv, NEW x \in Slot, NEW a \in Pointer, PublishRcl(x, a)
  PROVE  TraceInv'
<1>. DEFINE h == slots[x].h
            d == [slot |-> x, layer |-> "rcl"]
<1>0. /\ Ready(x) /\ Live(x) /\ slots[x].r \in RmwHandle /\ h \in RclHandle
      /\ RclPublish(a, h) /\ SlotsStand
      /\ sending' = [sending EXCEPT ![a] = d]
      /\ d \in SendingObject /\ d # Nil /\ d.slot = x /\ d.layer = "rcl"
  BY LiveSlot, NilIsNoSlot DEF PublishRcl, SendingObject, SlotsStand, Ready, Base
<1>1. PICK m \in Message, o \in MessageObject, p \in Publisher :
           /\ messages[m] = Nil \/ m = messagesByRclcpp[a]
           /\ o.publisher = p
           /\ messages' = [messages EXCEPT ![m] = o]
           /\ messagesByRclcpp' = [messagesByRclcpp EXCEPT ![a] = Nil]
           /\ messagesByRcl' = [messagesByRcl EXCEPT ![a] = m]
           /\ publishersByRcl' = [publishersByRcl EXCEPT ![h] = p]
           /\ \A q \in Publisher : publishers[q] # Nil => publishers'[q] = publishers[q]
           /\ \/ p = publishersByRcl[h]
              \/ publishersByRcl[h] = Nil /\ publishers'[p] = Stub(h)
           /\ UNCHANGED <<publishersByRmw, published>>
  BY <1>0, RclPublishEffect
<1>. HIDE DEF h, d
<1>2. SlotOK(x) /\ ByRclOK(h)
  BY <1>0 DEF TraceInv
<1>3. /\ publishersByRcl'[h] = p
      /\ \A k \in RclHandle : k # h => publishersByRcl'[k] = publishersByRcl[k]
  BY <1>0, <1>1 DEF Base, RefsOK, RegistryOK
<1>4. Persist
  BY <1>1 DEF Persist
<1>5. IsKnown(p) /\ p # Nil /\ m # Nil
  BY NilIsNothing, PublishersAssumption DEF IsKnown
<1>6. ElsewhereSent(a)
  BY <1>0, <1>1, OneMessageWritten, SendingFunctions DEF ElsewhereSent
(* The handle has the publisher of the slot or a stub. *)
<1>7. \/ p = ByRmwOf(x)
      \/ /\ IsStub(publishers'[p]) /\ publishers'[p].rcl = h
         /\ slots[x].topic = Rosout
  <2>1. ByRclOf(x) = publishersByRcl[h] /\ slots[x].phase = "ready"
    BY <1>0 DEF ByRclOf, Ready, h
  <2>2. CASE publishersByRcl[h] = Nil
    <3>1. publishers'[p] = Stub(h)
      BY <1>1, <1>5, <2>2
    <3>2. ByRclOf(x) # ByRmwOf(x)
      BY <1>0, <1>2, <2>1, <2>2 DEF SlotOK
    <3>. QED
      BY <1>0, <1>2, <2>1, <3>1, <3>2, StubFields DEF SlotOK
  <2>3. CASE publishersByRcl[h] # Nil
    <3>1. p = publishersByRcl[h] /\ publishers'[p] = publishers[p]
      BY <1>0, <1>1, <2>3, RclEntry
    <3>2. p = ByRmwOf(x) \/ (IsStub(publishers[p]) /\ slots[x].topic = Rosout)
      BY <1>0, <1>2, <2>1, <2>3, <3>1 DEF SlotOK
    <3>3. IsStub(publishers[p]) => publishers[p].rcl = h
      BY <1>2, <2>3, <3>1 DEF ByRclOK, IsStub, IsKnown, IsUnknown
    <3>. QED
      BY <3>1, <3>2, <3>3
  <2>. QED
    BY <2>2, <2>3
<1>8. SendingOK(a)'
  <2>1. /\ messagesByRclcpp'[a] = Nil /\ messagesByRcl'[a] = m
        /\ sending'[a] = d /\ messages'[m] = o
    BY <1>0, <1>1, SendingFunctions
  <2>2. Ready(x)' /\ ByRmwOf(x)' = ByRmwOf(x) /\ slots' = slots /\ used' = used
    BY <1>0, <1>1 DEF SlotsStand, Ready, Live, ByRmwOf
  <2>3. Carried(a)' = p
    BY <1>1, <2>1 DEF Carried
  <2>4. <<slots[x].r, h>> \in used
    BY <1>0, <1>2 DEF SlotOK, h
  <2>. QED
    BY <1>0, <1>5, <1>7, <2>1, <2>2, <2>3, <2>4 DEF SendingOK
<1>9. ASSUME NEW r \in RmwHandle PROVE ByRmwOK(r)'
  <2>1. CASE publishersByRmw[r] # Nil
    BY <1>0, <1>1, <2>1, RmwEntry DEF ByRmwOK, SlotsStand
  <2>2. CASE publishersByRmw[r] = Nil
    BY <1>1, <2>2 DEF ByRmwOK
  <2>. QED
    BY <2>1, <2>2
<1>10. ASSUME NEW k \in RclHandle PROVE ByRclOK(k)'
  <2>1. CASE k = h /\ publishersByRcl[h] = Nil
    BY <1>0, <1>1, <1>3, <1>5, <2>1, StubFields DEF ByRclOK
  <2>2. CASE k # h \/ publishersByRcl[h] # Nil
    BY <1>0, <1>1, <1>3, <1>4, <2>2, ByRclKept DEF SlotsStand
  <2>. QED
    BY <2>1, <2>2
<1>11. ASSUME NEW y \in Slot PROVE SlotOK(y)'
  <2>1. SlotOK(y)
    BY DEF TraceInv
  <2>2. Live(y) => slots[y].r \in RmwHandle /\ slots[y].h \in RclHandle
    BY LiveSlot DEF Base
  <2>3. Live(y) => publishers'[ByRmwOf(y)] = publishers[ByRmwOf(y)]
    BY <1>1, <2>1, <2>2, RmwEntry DEF SlotOK, ByRmwOf
  <2>4. CASE Live(y) => slots[y].h # h \/ publishersByRcl[h] # Nil
    <3>1. Live(y) => publishersByRcl'[slots[y].h] = publishersByRcl[slots[y].h]
      BY <1>1, <1>3, <2>2, <2>4
    <3>. QED
      BY <1>0, <1>1, <1>4, <2>3, <3>1, SlotKept DEF SlotsStand
  <2>5. CASE Live(y) /\ slots[y].h = h /\ publishersByRcl[h] = Nil
    <3>1. publishers'[p] = Stub(h)
      BY <1>1, <1>5, <2>5
    <3>2. ByRclOf(y) = Nil /\ ByRclOf(y) # ByRmwOf(y)
      BY <2>1, <2>5 DEF ByRclOf, SlotOK
    <3>3. ByRclOf(y)' = p /\ ByRmwOf(y)' = ByRmwOf(y) /\ slots' = slots /\ used' = used
      BY <1>0, <1>1, <1>3, <2>5 DEF SlotsStand, ByRclOf, ByRmwOf
    <3>. QED
      BY <1>0, <2>1, <2>3, <2>5, <3>1, <3>2, <3>3, StubFields DEF SlotOK, Live
  <2>. QED
    BY <2>4, <2>5
<1>12. ASSUME NEW b \in Pointer, b # a PROVE SendingOK(b)'
  BY <1>0, <1>1, <1>4, <1>6, <1>12, SendingElsewhere
<1>. QED
  BY <1>0, <1>8, <1>9, <1>10, <1>11, <1>12, SlotsStandKeeps DEF TraceInv

-----------------------------------------------------------------------------
(* rmw_publish: the message is filed under the topic of its slot.  The publisher of
   the slot takes over the handle of a stub; the handle belonged to the slot. *)
LEMMA RmwMessageType ==
  ASSUME NEW o \in MessageObject, NEW s \in Stamp
  PROVE  [AfterPublish(o, "rmw") EXCEPT !.stamp = s] \in MessageObject
  BY DEF AfterPublish, MessageObject, Maybe, Layer

LEMMA PublishRmwCases ==
  ASSUME Base, TraceInv, NEW x \in Slot, NEW a \in Pointer, NEW s \in Stamp, PublishRmw(x, a, s)
  PROVE  LET p == ByRmwOf(x)
             h == publishers[Carried(a)].rcl IN
         /\ messagesByRcl[a] # Nil /\ messagesByRcl[a] \in Message
         /\ slots[x].topic \in Topic
         /\ \E u \in MessageObject : FilePublished(a, messagesByRcl[a], u, s, slots[x].topic)
         /\ \/ UNCHANGED <<publishers, publishersByRcl>>
            \/ /\ h \in RclHandle /\ <<slots[x].r, h>> \in used
               /\ publishers' = [publishers EXCEPT ![p].rcl = h]
               /\ publishersByRcl' = [publishersByRcl EXCEPT ![h] = p]
<1>. DEFINE m == messagesByRcl[a]
            r == slots[x].r
            p == publishersByRmw[r]
            q == Carried(a)
            h == publishers[q].rcl
            t == slots[x].topic
<1>0. /\ Ready(x) /\ Live(x) /\ r \in RmwHandle /\ RmwPublish(a, r, s)
      /\ sending[a] = [slot |-> x, layer |-> "rcl"] /\ sending[a] # Nil
  <2>1. Live(x) /\ RmwPublish(a, r, s) /\ sending[a] = [slot |-> x, layer |-> "rcl"]
    BY DEF PublishRmw
  <2>2. sending[a] # Nil /\ sending[a].slot = x
    BY <2>1, NilIsNoSlot DEF SendingObject
  <2>3. Ready(x)
    BY <2>2 DEF TraceInv, SendingOK
  <2>. QED
    BY <2>1, <2>2, <2>3, LiveSlot DEF Base
<1>1. /\ SlotOK(x) /\ SendingOK(a) /\ p # Nil /\ publishers[p].topic = t
  BY <1>0 DEF TraceInv, SlotOK, ByRmwOf, Ready
<1>2. /\ m # Nil /\ q # Unknown
      /\ q = p \/ (IsStub(publishers[q]) /\ <<r, h>> \in used)
  <2>1. sending[a].slot = x /\ sending[a].layer = "rcl"
    BY <1>0
  <2>. QED
    BY <1>0, <1>1, <2>1 DEF SendingOK, IsKnown, ByRmwOf
<1>3. /\ m \in Message /\ messages[m] \in MessageObject
      /\ q \in Publisher /\ h \in RclHandle /\ q = messages[m].publisher
  BY <1>2, CarriedEntry DEF Carried
<1>4. p \in Publisher /\ r # Unknown /\ s # Unknown
  BY <1>0, <1>1, RmwEntry, PublishersAssumption
<1>. DEFINE o == messages[m]
<1>. HIDE DEF p, q, h, t, r
<1>5. \/ /\ FilePublished(a, m, o, s, publishers[q].topic)
         /\ p = q
         /\ UNCHANGED <<publishers, publishersByRcl>>
      \/ /\ p # q
         /\ publishersByRcl' = [publishersByRcl EXCEPT ![h] = p]
         /\ publishers' = [publishers EXCEPT ![p].rcl = h]
         /\ FilePublished(a, m, AfterSetPublisher(o, p), s, publishers[p].topic)
  BY <1>0, <1>1, <1>2, <1>3, <1>4 DEF RmwPublish, IsKnown, IsUnknown, p, q, h
<1>6. \E u \in MessageObject : FilePublished(a, m, u, s, t)
  BY <1>1, <1>3, <1>4, <1>5, AfterSetPublisherType
<1>7. t \in Topic
  BY <1>0, LiveSlot DEF t, Base
<1>. QED
  BY <1>2, <1>3, <1>5, <1>6, <1>7 DEF ByRmwOf, p, q, h, t, r

LEMMA PublishRmwEffect ==
  ASSUME Base, TraceInv, NEW x \in Slot, NEW a \in Pointer, NEW s \in Stamp, PublishRmw(x, a, s)
  PROVE  /\ outcome' = outcome
         /\ \E o \in MessageObject : messages' = [messages EXCEPT ![messagesByRcl[a]] = o]
         /\ messagesByRcl' = [messagesByRcl EXCEPT ![a] = Nil]
         /\ UNCHANGED <<publishersByRmw, messagesByRclcpp>>
         /\ \A k \in Stamp \X TopicKey :
              published'[k] # Nil <=> k = <<s, slots[x].topic>> \/ published[k] # Nil
<1>. DEFINE m == messagesByRcl[a]
            t == slots[x].topic
<1>1. m # Nil /\ m \in Message /\ t \in Topic
  BY PublishRmwCases
<1>2. PICK u \in MessageObject : FilePublished(a, m, u, s, t)
  BY PublishRmwCases
<1>. HIDE DEF m, t
<1>. DEFINE v == [AfterPublish(u, "rmw") EXCEPT !.stamp = s]
<1>3. s # Unknown
  BY PublishersAssumption
<1>4. /\ messagesByRcl' = [messagesByRcl EXCEPT ![a] = Nil]
      /\ messages' = [messages EXCEPT ![m] = v]
      /\ published' = [published EXCEPT ![<<s, t>>] = m]
      /\ outcome' = outcome
      /\ UNCHANGED <<publishersByRmw, messagesByRclcpp>>
  BY <1>2, <1>3 DEF FilePublished, Taken, Continue, IsUnknown
<1>5. v \in MessageObject
  BY RmwMessageType
<1>. HIDE DEF v
<1>6. \A k \in Stamp \X TopicKey : published'[k] # Nil <=> k = <<s, t>> \/ published[k] # Nil
  <2>1. published \in [Stamp \X TopicKey -> MadeMessage \cup {Nil}]
    BY DEF Base, RefsOK, TrafficOK
  <2>2. t \in TopicKey
    BY <1>1 DEF TopicKey, Maybe
  <2>. QED
    BY <1>1, <1>4, <2>1, <2>2
<1>. QED
  BY <1>4, <1>5, <1>6 DEF m, t

LEMMA PublishRmwKeepsTrace ==
  ASSUME Base, TraceInv, NEW x \in Slot, NEW a \in Pointer, NEW s \in Stamp, PublishRmw(x, a, s)
  PROVE  TraceInv'
<1>. DEFINE m == messagesByRcl[a]
            r == slots[x].r
            p == ByRmwOf(x)
            h == publishers[Carried(a)].rcl
            Adopted == /\ h \in RclHandle /\ <<r, h>> \in used
                       /\ publishers' = [publishers EXCEPT ![p].rcl = h]
                       /\ publishersByRcl' = [publishersByRcl EXCEPT ![h] = p]
<1>0. /\ m # Nil /\ m \in Message
      /\ messagesByRcl' = [messagesByRcl EXCEPT ![a] = Nil]
      /\ UNCHANGED <<publishersByRmw, messagesByRclcpp>>
      /\ UNCHANGED <<publishers, publishersByRcl>> \/ Adopted
  BY PublishRmwEffect, PublishRmwCases
<1>1. PICK o \in MessageObject : messages' = [messages EXCEPT ![m] = o]
  BY PublishRmwEffect
<1>2. /\ Live(x) /\ SlotsStand /\ sending[a] = [slot |-> x, layer |-> "rcl"]
      /\ sending' = [sending EXCEPT ![a] = Nil]
      /\ r \in RmwHandle
  BY LiveSlot DEF PublishRmw, SlotsStand, Base
<1>3. Ready(x)
  <2>1. sending[a] # Nil /\ sending[a].slot = x
    BY <1>2, NilIsNoSlot DEF SendingObject
  <2>. QED
    BY <2>1 DEF TraceInv, SendingOK
<1>4. Owned /\ Apart /\ p # Nil
  BY <1>2 DEF TraceInv, SlotOK
<1>5. /\ p \in Publisher /\ publishers[p] # Nil /\ publishers[p] \in PublisherObject
      /\ publishers[p].rmw = r /\ publishers[p].gid # Unknown
      /\ ~IsStub(publishers[p]) /\ p = publishersByRmw[r]
  BY <1>2, <1>4, RmwEntry DEF ByRmwOf
<1>6. publishers \in [Publisher -> PublisherObject \cup {Nil}]
  BY DEF Base, RefsOK, RegistryOK
<1>7. /\ publishersByRcl \in [RclHandle -> Made \cup {Nil}]
  BY DEF Base, RefsOK, RegistryOK
<1>8. Adopted =>
        /\ publishers'[p] # Nil
        /\ publishers'[p].rmw = r /\ publishers'[p].gid = publishers[p].gid
        /\ publishers'[p].topic = publishers[p].topic
        /\ publishers'[p].removed = publishers[p].removed
        /\ \A y \in Publisher : y # p => publishers'[y] = publishers[y]
        /\ publishersByRcl'[h] = p
        /\ \A k \in RclHandle : k # h => publishersByRcl'[k] = publishersByRcl[k]
  <2>. SUFFICES ASSUME Adopted
                PROVE  /\ publishers'[p] # Nil
                       /\ publishers'[p].rmw = r /\ publishers'[p].gid = publishers[p].gid
                       /\ publishers'[p].topic = publishers[p].topic
                       /\ publishers'[p].removed = publishers[p].removed
                       /\ \A y \in Publisher : y # p => publishers'[y] = publishers[y]
                       /\ publishersByRcl'[h] = p
                       /\ \A k \in RclHandle : k # h => publishersByRcl'[k] = publishersByRcl[k]
    OBVIOUS
  <2>. DEFINE v == [publishers[p] EXCEPT !.rcl = h]
  <2>1. /\ v \in PublisherObject
        /\ v.rmw = publishers[p].rmw /\ v.gid = publishers[p].gid
        /\ v.topic = publishers[p].topic /\ v.removed = publishers[p].removed
    BY <1>5 DEF PublisherObject, Maybe
  <2>2. publishers' = [publishers EXCEPT ![p] = v]
    OBVIOUS
  <2>3. publishersByRcl' = [publishersByRcl EXCEPT ![h] = p] /\ h \in RclHandle
    OBVIOUS
  <2>. HIDE DEF v, p, h
  <2>4. publishers'[p] = v /\ \A y \in Publisher : y # p => publishers'[y] = publishers[y]
    BY <1>5, <1>6, <2>2
  <2>5. publishersByRcl'[h] = p /\ \A k \in RclHandle : k # h => publishersByRcl'[k] = publishersByRcl[k]
    BY <1>7, <2>3
  <2>. QED
    BY <1>5, <2>1, <2>4, <2>5, NilIsNothing
<1>. DEFINE Same == UNCHANGED <<publishers, publishersByRcl>>
<1>9. Same \/ Adopted
  BY <1>0
<1>10. Adopted => h \in RclHandle /\ <<r, h>> \in used
  OBVIOUS
<1>. HIDE DEF m, r, p, h, Adopted
<1>11. Persist
  BY <1>5, <1>8, <1>9, StillPersists DEF Persist
<1>12. ElsewhereSent(a)
  BY <1>0, <1>1, <1>2, OneMessageWritten, SendingFunctions DEF ElsewhereSent, m
<1>13. SendingOK(a)'
  <2>1. messagesByRclcpp[a] = Nil
    <3>1. sending[a].layer = "rcl" /\ SendingOK(a)
      BY <1>2 DEF TraceInv
    <3>. QED
      BY <3>1 DEF SendingOK
  <2>2. messagesByRclcpp'[a] = Nil /\ messagesByRcl'[a] = Nil /\ sending'[a] = Nil
    BY <1>0, <1>2, <2>1, SendingFunctions
  <2>. QED
    BY <2>2 DEF SendingOK
<1>14. ASSUME NEW k \in RmwHandle PROVE ByRmwOK(k)'
  <2>1. CASE publishersByRmw[k] # Nil
    <3>1. /\ publishersByRmw[k] \in Publisher
          /\ publishers[publishersByRmw[k]].rmw = k
          /\ publishers[publishersByRmw[k]].gid \in usedGids
          /\ ~publishers[publishersByRmw[k]].removed
      BY <2>1, RmwEntry
    <3>2. /\ publishers'[publishersByRmw[k]].rmw = k
          /\ publishers'[publishersByRmw[k]].gid \in usedGids
          /\ ~publishers'[publishersByRmw[k]].removed
      BY <1>5, <1>8, <1>9, <3>1
    <3>. QED
      BY <1>0, <1>2, <3>2 DEF ByRmwOK, SlotsStand
  <2>2. CASE publishersByRmw[k] = Nil
    BY <1>0, <2>2 DEF ByRmwOK
  <2>. QED
    BY <2>1, <2>2
<1>15. ASSUME NEW k \in RclHandle PROVE ByRclOK(k)'
  <2>1. CASE Adopted /\ k = h
    BY <1>2, <1>5, <1>8, <1>10, <2>1 DEF ByRclOK, IsKnown, SlotsStand
  <2>2. CASE Same \/ k # h
    BY <1>2, <1>8, <1>9, <1>11, <2>2, ByRclKept DEF SlotsStand
  <2>. QED
    BY <1>9, <2>1, <2>2
<1>16. SlotOK(x)'
  <2>1. CASE Same
    BY <1>0, <1>2, <1>11, <2>1, SlotKept DEF SlotsStand
  <2>2. CASE Adopted
    <3>1. SlotOK(x) /\ slots[x].phase = "ready"
      BY <1>3 DEF TraceInv, Ready
    <3>2. slots' = slots /\ used' = used /\ ByRmwOf(x)' = p /\ ByRmwOf(x) = p
      BY <1>0, <1>2 DEF SlotsStand, ByRmwOf, p
    <3>3. slots[x].h \in RclHandle
      BY <1>2, LiveSlot DEF Base
    <3>4. CASE slots[x].h = h
      <4>1. ByRclOf(x)' = p
        BY <1>8, <2>2, <3>2, <3>4 DEF ByRclOf
      <4>. QED
        BY <1>2, <1>8, <2>2, <3>1, <3>2, <4>1 DEF SlotOK, Live
    <3>5. CASE slots[x].h # h
      <4>1. ByRclOf(x)' = ByRclOf(x) /\ ByRclOf(x) = publishersByRcl[slots[x].h]
        BY <1>8, <2>2, <3>2, <3>3, <3>5 DEF ByRclOf
      <4>2. ByRclOf(x) # Nil /\ IsStub(publishers[ByRclOf(x)]) => IsStub(publishers'[ByRclOf(x)])
        BY <1>11, <3>3, <4>1, RclEntry DEF Persist
      <4>. QED
        BY <1>2, <1>8, <2>2, <3>1, <3>2, <4>1, <4>2 DEF SlotOK, Live
    <3>. QED
      BY <3>4, <3>5
  <2>. QED
    BY <1>9, <2>1, <2>2
<1>17. ASSUME NEW y \in Slot, y # x PROVE SlotOK(y)'
  <2>1. CASE Same
    BY <1>0, <1>2, <1>11, <2>1, SlotKept DEF SlotsStand
  <2>2. CASE Adopted
    <3>1. ASSUME Live(y)
          PROVE  /\ slots[y].h \in RclHandle /\ slots[y].h # h
                 /\ ByRmwOf(y) \in Publisher /\ ByRmwOf(y) # p
      <4>1. /\ slots[y].r \in RmwHandle /\ slots[y].h \in RclHandle
            /\ <<slots[y].r, slots[y].h>> \in used /\ ByRmwOf(y) # Nil
        BY <3>1, LiveSlot DEF Base, TraceInv, SlotOK
      <4>2. slots[y].r # r
        BY <1>2, <1>4, <1>17, <3>1 DEF Apart, r
      <4>3. slots[y].h # h
        BY <1>4, <1>10, <2>2, <4>1, <4>2 DEF Owned
      <4>4. publishersByRmw[slots[y].r] # Nil
        BY <4>1 DEF ByRmwOf
      <4>5. ByRmwOf(y) \in Publisher /\ ByRmwOf(y) # p
        BY <1>5, <4>1, <4>2, <4>4, RmwEntry DEF ByRmwOf
      <4>. QED
        BY <4>1, <4>3, <4>5
    <3>2. Live(y) => publishers'[ByRmwOf(y)] = publishers[ByRmwOf(y)]
      BY <1>8, <2>2, <3>1
    <3>3. Live(y) => publishersByRcl'[slots[y].h] = publishersByRcl[slots[y].h]
      BY <1>8, <2>2, <3>1
    <3>. QED
      BY <1>0, <1>2, <1>11, <3>2, <3>3, SlotKept DEF SlotsStand
  <2>. QED
    BY <1>9, <2>1, <2>2
<1>18. ASSUME NEW b \in Pointer, b # a PROVE SendingOK(b)'
  BY <1>0, <1>2, <1>11, <1>12, <1>18, SendingElsewhere
<1>. QED
  BY <1>2, <1>13, <1>14, <1>15, <1>16, <1>17, <1>18, SlotsStandKeeps DEF TraceInv

-----------------------------------------------------------------------------
(* No event of an application stops the run. *)
LEMMA ApplicationGoesOn ==
  ASSUME Base, TraceInv, outcome = "running", Application
  PROVE  outcome' = "running"
<1>1. ASSUME NEW n \in NodeHandle, NameNode(n) PROVE outcome' = outcome
  BY <1>1 DEF NameNode, RclNodeInit, Continue
<1>2. ASSUME NEW x \in Slot, NEW r \in RmwHandle, NEW h \in RclHandle, NEW t \in Topic,
             NEW g \in Gid, CreateRmw(x, r, h, t, g)
      PROVE  outcome' = outcome
  BY <1>2, CreateRmwEffect DEF CreateRmw
<1>3. ASSUME NEW x \in Slot, NEW n \in NodeHandle, CreateRcl(x, n) PROVE outcome' = outcome
  BY <1>3, CreateRclEffect
<1>4. ASSUME NEW x \in Slot, Destroy(x) \/ \E h \in RclHandle : Relocate(x, h)
      PROVE  outcome' = outcome
  BY <1>4 DEF Destroy, Relocate, vars
<1>5. ASSUME NEW x \in Slot, NEW a \in Pointer, PublishRclcpp(x, a) PROVE outcome' = outcome
  BY <1>5 DEF PublishRclcpp, RclcppPublish, Continue
<1>6. ASSUME NEW x \in Slot, NEW a \in Pointer, PublishRcl(x, a) PROVE outcome' = outcome
  <2>1. slots[x].h \in RclHandle /\ RclPublish(a, slots[x].h)
    BY <1>6, LiveSlot DEF PublishRcl, Ready, Base
  <2>. QED
    BY <2>1, RclPublishEffect
<1>7. ASSUME NEW x \in Slot, NEW a \in Pointer, NEW s \in Stamp, PublishRmw(x, a, s)
      PROVE  outcome' = outcome
  BY <1>7, PublishRmwEffect
<1>. QED
  BY <1>1, <1>2, <1>3, <1>4, <1>5, <1>6, <1>7 DEF Application

LEMMA ApplicationKeepsTrace ==
  ASSUME ~AnyReuse, Base, TraceInv, Application
  PROVE  TraceInv'
<1>1. ASSUME NEW n \in NodeHandle, NameNode(n) PROVE TraceInv'
  BY <1>1, NothingMoves DEF NameNode, RclNodeInit, Panic, Still, registry, traffic
<1>. QED
  BY <1>1, CreateRmwKeepsTrace, CreateRclKeepsTrace, DestroyKeepsTrace, RelocateKeepsTrace,
     PublishRclcppKeepsTrace, PublishRclKeepsTrace, PublishRmwKeepsTrace DEF Application

(* What is filed is what was sent: only rmw_publish files, one message at a time. *)
Filed ==
  \A s \in Stamp, t \in TopicKey : published[<<s, t>>] # Nil <=> <<s, t>> \in sent

LEMMA ApplicationKeepsFiled ==
  ASSUME Base, TraceInv, Filed, Application
  PROVE  Filed'
<1>1. ASSUME UNCHANGED <<published, sent>> PROVE Filed'
  BY <1>1 DEF Filed
<1>2. ASSUME NEW n \in NodeHandle, NameNode(n) PROVE UNCHANGED <<published, sent>>
  BY <1>2 DEF NameNode, RclNodeInit, Panic, traffic, slotVars
<1>3. ASSUME NEW x \in Slot, NEW r \in RmwHandle, NEW h \in RclHandle, NEW t \in Topic,
             NEW g \in Gid, CreateRmw(x, r, h, t, g)
      PROVE  UNCHANGED <<published, sent>>
  BY <1>3, CreateRmwEffect DEF CreateRmw, traffic
<1>4. ASSUME NEW x \in Slot, NEW n \in NodeHandle, CreateRcl(x, n)
      PROVE  UNCHANGED <<published, sent>>
  BY <1>4, CreateRclEffect DEF CreateRcl, traffic
<1>5. ASSUME NEW x \in Slot, Destroy(x) \/ \E h \in RclHandle : Relocate(x, h)
      PROVE  UNCHANGED <<published, sent>>
  BY <1>5 DEF Destroy, Relocate, vars, traffic
<1>6. ASSUME NEW x \in Slot, NEW a \in Pointer, PublishRclcpp(x, a)
      PROVE  UNCHANGED <<published, sent>>
  BY <1>6 DEF PublishRclcpp, RclcppPublish
<1>7. ASSUME NEW x \in Slot, NEW a \in Pointer, PublishRcl(x, a)
      PROVE  UNCHANGED <<published, sent>>
  <2>1. slots[x].h \in RclHandle /\ RclPublish(a, slots[x].h) /\ sent' = sent
    BY <1>7, LiveSlot DEF PublishRcl, Ready, Base
  <2>. QED
    BY <2>1, RclPublishEffect
<1>8. ASSUME NEW x \in Slot, NEW a \in Pointer, NEW s \in Stamp, PublishRmw(x, a, s)
      PROVE  Filed'
  <2>1. \A k \in Stamp \X TopicKey :
          published'[k] # Nil <=> k = <<s, slots[x].topic>> \/ published[k] # Nil
    BY <1>8, PublishRmwEffect
  <2>2. sent' = sent \cup {<<s, slots[x].topic>>}
    BY <1>8 DEF PublishRmw
  <2>. QED
    BY <2>1, <2>2 DEF Filed
<1>. QED
  BY <1>1, <1>2, <1>3, <1>4, <1>5, <1>6, <1>7, <1>8 DEF Application

-----------------------------------------------------------------------------
LEMMA AppBase == AppSpec => []Base
<1>1. AppTypeOK /\ RefsOK /\ WaitsInOnePlace /\ AttachedHasRclHandle => Base
  BY DEF Base
<1>. QED
  BY <1>1, AppIsStream, AppTypeKept, RefsAreKept, MessagesWaitInOnePlace,
     AttachedAlwaysHasRclHandle, PTL

AppInv ==
  /\ complete => outcome = "running" /\ TraceInv /\ Filed
  /\ ~complete => \A x \in Slot : ~Live(x)

LEMMA AppInitHolds == AppInit => AppInv
<1>. SUFFICES ASSUME AppInit PROVE AppInv
  OBVIOUS
<1>1. outcome = "running" /\ Owned /\ Apart
  BY DEF AppInit, Init, Owned, Apart, Live
<1>2. \A r \in RmwHandle : ByRmwOK(r)
  BY DEF AppInit, Init, ByRmwOK
<1>3. \A h \in RclHandle : ByRclOK(h)
  BY DEF AppInit, Init, ByRclOK
<1>4. \A x \in Slot : SlotOK(x)
  BY DEF AppInit, SlotOK, Live
<1>5. \A a \in Pointer : SendingOK(a)
  BY DEF AppInit, Init, SendingOK
<1>6. Filed
  BY DEF AppInit, Init, Filed
<1>7. \A x \in Slot : ~Live(x)
  BY DEF AppInit, Live
<1>. QED
  BY <1>1, <1>2, <1>3, <1>4, <1>5, <1>6, <1>7 DEF AppInv, TraceInv

LEMMA AppStepKeeps ==
  ASSUME ~AnyReuse, Base, AppInv, [AppNext]_allVars
  PROVE  AppInv'
<1>1. CASE ~complete
  BY <1>1 DEF AppInv, AppNext, allVars, appVars, slotVars, Live
<1>2. CASE complete /\ UNCHANGED allVars
  <2>1. UNCHANGED <<complete, outcome, published, sent>> /\ Still /\ UNCHANGED slotVars
    BY <1>2 DEF allVars, appVars, slotVars, vars, registry, traffic, Still
  <2>2. Filed => Filed'
    BY <2>1 DEF Filed
  <2>. QED
    BY <1>2, <2>1, <2>2, NothingMoves DEF AppInv
<1>3. CASE complete /\ AppNext
  <2>1. /\ Application /\ outcome = "running" /\ TraceInv /\ Filed
        /\ complete' = complete
    BY <1>3 DEF AppNext, AppInv
  <2>. QED
    BY <1>3, <2>1, ApplicationGoesOn, ApplicationKeepsTrace, ApplicationKeepsFiled DEF AppInv
<1>. QED
  BY <1>1, <1>2, <1>3

LEMMA AppInductive ==
  ASSUME ~AnyReuse
  PROVE  AppSpec => []AppInv
<1>1. Base /\ AppInv /\ [AppNext]_allVars => AppInv'
  BY AppStepKeeps
<1>. QED
  BY <1>1, AppBase, AppInitHolds, PTL DEF AppSpec

(* "Assuming old publisher was deleted. Creating new.": the complete trace of an
   application is processed to its end, if the two addresses of a publisher are
   reused only together. *)
THEOREM TraceAlwaysAccepted ==
  ASSUME ~AnyReuse
  PROVE  AppSpec => []TraceAccepted
<1>1. AppInv => TraceAccepted
  BY DEF AppInv, TraceAccepted
<1>2. AppSpec => []AppInv
  BY AppInductive
<1>. QED
  BY <1>1, <1>2, PTL

(* Each publication of such a trace is filed for its receivers under its own topic
   and stamp, that of a relocated /rosout publisher too, and nothing else is. *)
THEOREM EveryPublicationIsAlwaysFiled ==
  ASSUME ~AnyReuse
  PROVE  AppSpec => []EveryPublicationIsFiled
<1>1. AppInv => EveryPublicationIsFiled
  BY DEF AppInv, Filed, EveryPublicationIsFiled
<1>2. AppSpec => []AppInv
  BY AppInductive
<1>. QED
  BY <1>1, <1>2, PTL

(* The registries know each publisher the application has under both its addresses
   as one object, except that a relocation is noticed with the next message only. *)
THEOREM RegistriesAlwaysAgreeOnLive ==
  ASSUME ~AnyReuse
  PROVE  AppSpec => []RegistriesAgreeOnLive
<1>1. ASSUME Base, AppInv PROVE RegistriesAgreeOnLive
  <2>. SUFFICES ASSUME NEW x \in Slot, Ready(x)
       PROVE  LET p == ByRmwOf(x)
                  q == ByRclOf(x) IN
              /\ p # Nil /\ ~publishers[p].removed /\ publishers[p].topic = slots[x].topic
              /\ p # q => /\ slots[x].topic = Rosout
                          /\ q # Nil => IsStub(publishers[q])
    BY DEF RegistriesAgreeOnLive, ByRmwOf, ByRclOf
  <2>1. Live(x) /\ TraceInv /\ slots[x].r \in RmwHandle
    BY <1>1, LiveSlot DEF Ready, AppInv, Base
  <2>2. SlotOK(x)
    BY <2>1 DEF TraceInv
  <2>3. ~publishers[ByRmwOf(x)].removed
    BY <1>1, <2>1, <2>2, RmwEntry DEF SlotOK, ByRmwOf
  <2>. QED
    BY <2>1, <2>2, <2>3 DEF SlotOK, Ready
<1>2. AppSpec => []AppInv
  BY AppInductive
<1>. QED
  BY <1>1, <1>2, AppBase, PTL

=============================================================================
