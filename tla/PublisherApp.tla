---------------------------- MODULE PublisherApp ----------------------------
(***************************************************************************)
(* Publishers fed with the events of an application: the environment side  *)
(* is external (rclcpp, rcl, the rmw and LTTng), modelled from what the    *)
(* handlers of src/processor/ros2.rs expect of it.  A trace is one totally *)
(* ordered stream, so the application and the processor take each step     *)
(* together.                                                               *)
(*                                                                         *)
(* A slot is a publisher of the application.  Creating one emits           *)
(* rmw_publisher_init and rcl_publisher_init, with events of other threads *)
(* in between; destroying one is not traced and frees both its addresses.  *)
(* A publication passes [rclcpp,] rcl and rmw, each publication under its  *)
(* own message address while it lasts.  The handle of a /rosout publisher  *)
(* may change without an event (the comment in process_rcl_publish).       *)
(* Or else the stream is not that of an application: any events follow     *)
(* each other, as when tracing began late or events were lost.             *)
(***************************************************************************)
EXTENDS Publishers

CONSTANTS
  Slot,          \* publishers of the application
  AnyReuse       \* may an address be reused independently of its partner?

SlotObject ==
  [r: RmwHandle, h: RclHandle, topic: Topic, phase: {"created", "ready"}]

SendingObject == [slot: Slot, layer: {"rclcpp", "rcl"}]

ASSUME PublisherAppAssumption ==
  /\ Nil \notin SlotObject \cup SendingObject
  /\ AnyReuse \in BOOLEAN

VARIABLES
  complete,      \* is the stream the complete trace of an application?
  slots,         \* addresses, topic and phase of each slot, Nil if not created
  used,          \* pairs of addresses that belonged together so far
  usedGids,      \* gids are never reused
  sending,       \* by address: the publication under way, or Nil
  sent           \* stamps and topics of the publications completed

slotVars == <<slots, used, usedGids, sending, sent>>
appVars  == <<complete, slotVars>>
allVars  == <<vars, appVars>>

AppInit ==
  /\ Init
  /\ complete \in BOOLEAN
  /\ slots = [x \in Slot |-> Nil]
  /\ used = {}
  /\ usedGids = {}
  /\ sending = [a \in Pointer |-> Nil]
  /\ sent = {}

Live(x) == slots[x] # Nil
Ready(x) == Live(x) /\ slots[x].phase = "ready"

(* An allocator reuses freed addresses.  Without AnyReuse it reuses the two
   addresses of a publisher only together. *)
MayAllocate(r, h) ==
  /\ \A x \in Slot : Live(x) => slots[x].r # r /\ slots[x].h # h
  /\ AnyReuse \/ \A u \in used : u[1] = r <=> u[2] = h

CreateRmw(x, r, h, t, g) ==
  /\ ~Live(x)
  /\ MayAllocate(r, h)
  /\ g \notin usedGids
  /\ RmwPublisherInit(r, g)
  /\ slots' = [slots EXCEPT ![x] = [r |-> r, h |-> h, topic |-> t, phase |-> "created"]]
  /\ used' = used \cup {<<r, h>>}
  /\ usedGids' = usedGids \cup {g}
  /\ UNCHANGED <<sending, sent>>

CreateRcl(x, n) ==
  /\ Live(x)
  /\ slots[x].phase = "created"
  /\ nodes[n] = "named" \/ slots[x].topic = Rosout
  /\ RclPublisherInit(slots[x].r, slots[x].h, slots[x].topic, n)
  /\ slots' = [slots EXCEPT ![x].phase = "ready"]
  /\ UNCHANGED <<used, usedGids, sending, sent>>

NameNode(n) ==
  /\ nodes[n] # "named"
  /\ RclNodeInit(n)
  /\ UNCHANGED slotVars

Destroy(x) ==
  /\ Ready(x)
  /\ \A a \in Pointer : sending[a] # Nil => sending[a].slot # x
  /\ slots' = [slots EXCEPT ![x] = Nil]
  /\ UNCHANGED <<vars, used, usedGids, sending, sent>>

(* A /rosout publisher moves to another rcl address; the rmw one stays. *)
Relocate(x, h) ==
  /\ Ready(x)
  /\ slots[x].topic = Rosout
  /\ \A y \in Slot : Live(y) => slots[y].h # h
  /\ AnyReuse \/ \A u \in used : u[2] # h
  /\ slots' = [slots EXCEPT ![x].h = h]
  /\ used' = used \cup {<<slots[x].r, h>>}
  /\ UNCHANGED <<vars, usedGids, sending, sent>>

PublishRclcpp(x, a) ==
  /\ Ready(x)
  /\ sending[a] = Nil
  /\ RclcppPublish(a)
  /\ sending' = [sending EXCEPT ![a] = [slot |-> x, layer |-> "rclcpp"]]
  /\ UNCHANGED <<slots, used, usedGids, sent>>

(* The first event of a publisher that is not one of rclcpp, else the second. *)
PublishRcl(x, a) ==
  /\ Ready(x)
  /\ sending[a] \in {Nil, [slot |-> x, layer |-> "rclcpp"]}
  /\ RclPublish(a, slots[x].h)
  /\ sending' = [sending EXCEPT ![a] = [slot |-> x, layer |-> "rcl"]]
  /\ UNCHANGED <<slots, used, usedGids, sent>>

PublishRmw(x, a, s) ==
  /\ Live(x)
  /\ sending[a] = [slot |-> x, layer |-> "rcl"]
  /\ RmwPublish(a, slots[x].r, s)
  /\ sending' = [sending EXCEPT ![a] = Nil]
  /\ sent' = sent \cup {<<s, slots[x].topic>>}
  /\ UNCHANGED <<slots, used, usedGids>>

Application ==
  \/ \E n \in NodeHandle : NameNode(n)
  \/ \E x \in Slot :
       \/ \E r \in RmwHandle, h \in RclHandle, t \in Topic, g \in Gid : CreateRmw(x, r, h, t, g)
       \/ \E n \in NodeHandle : CreateRcl(x, n)
       \/ Destroy(x)
       \/ \E h \in RclHandle : Relocate(x, h)
       \/ \E a \in Pointer :
            \/ PublishRclcpp(x, a)
            \/ PublishRcl(x, a)
            \/ \E s \in Stamp : PublishRmw(x, a, s)

AppNext ==
  /\ outcome = "running"
  /\ IF complete THEN Application
     ELSE (Registration \/ Publication) /\ UNCHANGED slotVars
  /\ UNCHANGED complete

AppSpec == AppInit /\ [][AppNext]_allVars
-----------------------------------------------------------------------------
(* The handlers of src/processor/ros2.rs answer a repeated initialisation with
   "Assuming old publisher was deleted. Creating new.": the trace of a correct
   application never stops the run. *)
TraceAccepted == complete => outcome = "running"

(* Every completed publication is filed under its own topic and stamp and nothing
   else is filed, the messages of stubs that stand for
   relocated /rosout publishers included. *)
EveryPublicationIsFiled ==
  complete =>
    \A s \in Stamp, t \in TopicKey :
      published[<<s, t>>] # Nil <=> <<s, t>> \in sent

(* The registries know each live publisher under both its addresses, as one
   object, even when the addresses belonged to others before.  Relocation of a
   /rosout publisher is noticed with its first message only. *)
RegistriesAgreeOnLive ==
  \A x \in Slot : Ready(x) =>
    LET p == publishersByRmw[slots[x].r]
        q == publishersByRcl[slots[x].h]
    IN  /\ p # Nil /\ ~publishers[p].removed /\ publishers[p].topic = slots[x].topic
        /\ p # q => /\ slots[x].topic = Rosout
                    /\ q # Nil => IsStub(publishers[q])
=============================================================================
