-------------------------- MODULE SubscriptionApp --------------------------
(***************************************************************************)
(* Subscriptions fed with the events of an application.  The environment   *)
(* side is external, modelled from what the handlers of                    *)
(* src/processor/ros2.rs and the comment in                                *)
(* Subscriber::replace_taken_message say of rclcpp and r2r.                *)
(*                                                                         *)
(* A subscription of the application emits its five registration events    *)
(* one after the other, mixed with events of other threads.  Threads take  *)
(* its messages, one at a time, through the rmw, rcl and rclcpp layers and *)
(* put them into the subscription's channel, from which callbacks start in *)
(* order: with ChannelMax = 1 this is an executor of rclcpp, with more it  *)
(* is r2r.  Destroying a subscription is not traced.                       *)
(***************************************************************************)
EXTENDS Subscriptions

CONSTANTS
  Slot,          \* subscriptions of the application
  Thread,        \* threads that take messages, each into its own address
  AddressOf,     \* the address a thread takes messages into
  ChannelMax,    \* messages a channel holds
  AnyReuse       \* may an address be reused independently of the others?

Handles == RmwHandle \X RclHandle \X RclcppHandle \X CallbackHandle

SlotObject == [handles: Handles, phase: {"rmw", "rcl", "rclcpp", "callback", "ready"}]

TakingObject == [slot: Slot, message: Message, layer: {"rmw", "rcl"}]

ASSUME SubscriptionAppAssumption ==
  /\ Nil \notin SlotObject \cup TakingObject
  /\ AnyReuse \in BOOLEAN
  /\ AddressOf \in [Thread -> Pointer]
  /\ \A t, u \in Thread : AddressOf[t] = AddressOf[u] => t = u
  /\ ChannelMax \in 1..TakenMax

VARIABLES
  slots,         \* handles and phase of each subscription, Nil if not created
  used,          \* handles that belonged together so far
  usedGids,
  taking,        \* what each thread is taking, or Nil
  channel,       \* messages taken completely, per subscription
  busy           \* message whose callback runs, per subscription

appVars == <<slots, used, usedGids, taking, channel, busy>>
allVars == <<vars, appVars>>

AppInit ==
  /\ Init
  /\ slots = [x \in Slot |-> Nil]
  /\ used = {}
  /\ usedGids = {}
  /\ taking = [t \in Thread |-> Nil]
  /\ channel = [x \in Slot |-> << >>]
  /\ busy = [x \in Slot |-> Nil]

Live(x) == slots[x] # Nil
In(x, phase) == Live(x) /\ slots[x].phase = phase
RmwOf(x) == slots[x].handles[1]
RclOf(x) == slots[x].handles[2]
RclcppOf(x) == slots[x].handles[3]
CallbackOf(x) == slots[x].handles[4]

SomeShared(u, v) == \E i \in 1..4 : u[i] = v[i]

MayAllocate(u) ==
  /\ \A x \in Slot : Live(x) => ~SomeShared(u, slots[x].handles)
  /\ AnyReuse \/ \A v \in used : u = v \/ ~SomeShared(u, v)

Advance(x, phase) ==
  /\ slots' = [slots EXCEPT ![x].phase = phase]
  /\ UNCHANGED <<used, usedGids, taking, channel, busy>>

AppNodeAppears(n) == NodeAppears(n) /\ UNCHANGED appVars

CreateRmw(x, u, g) ==
  /\ ~Live(x)
  /\ nodes # {}
  /\ MayAllocate(u)
  /\ g \notin usedGids
  /\ RmwSubscriptionInit(u[1], g)
  /\ slots' = [slots EXCEPT ![x] = [handles |-> u, phase |-> "rmw"]]
  /\ used' = used \cup {u}
  /\ usedGids' = usedGids \cup {g}
  /\ UNCHANGED <<taking, channel, busy>>

CreateRcl(x, t, n) ==
  /\ In(x, "rmw")
  /\ n \in nodes
  /\ RclSubscriptionInit(RmwOf(x), RclOf(x), t, n)
  /\ Advance(x, "rcl")

CreateRclcpp(x) ==
  /\ In(x, "rcl")
  /\ RclcppSubscriptionInit(RclcppOf(x), RclOf(x))
  /\ Advance(x, "rclcpp")

AddCallback(x) ==
  /\ In(x, "rclcpp")
  /\ CallbackAdded(CallbackOf(x), RclcppOf(x))
  /\ Advance(x, "callback")

RegisterCallback(x) ==
  /\ In(x, "callback")
  /\ CallbackRegister(CallbackOf(x))
  /\ Advance(x, "ready")

Destroy(x) ==
  /\ In(x, "ready")
  /\ channel[x] = << >>
  /\ busy[x] = Nil
  /\ \A t \in Thread : taking[t] # Nil => taking[t].slot # x
  /\ slots' = [slots EXCEPT ![x] = Nil]
  /\ UNCHANGED <<vars, used, usedGids, taking, channel, busy>>

(* A thread takes from a subscription no other thread is taking from, when its
   channel has room. *)
TakeRmw(t, x, s) ==
  /\ In(x, "ready")
  /\ taking[t] = Nil
  /\ \A u \in Thread : taking[u] # Nil => taking[u].slot # x
  /\ Len(channel[x]) < ChannelMax
  /\ RmwTake(RmwOf(x), AddressOf[t], s, TRUE)
  /\ taking' = [taking EXCEPT ![t] = [slot |-> x, message |-> NewMessage, layer |-> "rmw"]]
  /\ UNCHANGED <<slots, used, usedGids, channel, busy>>

TakeRcl(t) ==
  /\ taking[t] # Nil
  /\ taking[t].layer = "rmw"
  /\ RclTake(AddressOf[t])
  /\ taking' = [taking EXCEPT ![t].layer = "rcl"]
  /\ UNCHANGED <<slots, used, usedGids, channel, busy>>

TakeRclcpp(t) ==
  /\ taking[t] # Nil
  /\ taking[t].layer = "rcl"
  /\ RclcppTake(AddressOf[t])
  /\ taking' = [taking EXCEPT ![t] = Nil]
  /\ channel' = [channel EXCEPT ![taking[t].slot] = Append(@, taking[t].message)]
  /\ UNCHANGED <<slots, used, usedGids, busy>>

StartCallback(x) ==
  /\ In(x, "ready")
  /\ busy[x] = Nil
  /\ channel[x] # << >>
  /\ CallbackStart(CallbackOf(x))
  /\ busy' = [busy EXCEPT ![x] = Head(channel[x])]
  /\ channel' = [channel EXCEPT ![x] = Tail(@)]
  /\ UNCHANGED <<slots, used, usedGids, taking>>

EndCallback(x) ==
  /\ busy[x] # Nil
  /\ CallbackEnd(CallbackOf(x))
  /\ busy' = [busy EXCEPT ![x] = Nil]
  /\ UNCHANGED <<slots, used, usedGids, taking, channel>>

(* The steps the latency analyses do not look at. *)
AppRegistration ==
  \/ \E n \in NodeHandle : AppNodeAppears(n)
  \/ \E x \in Slot :
       \/ \E u \in Handles, g \in Gid : CreateRmw(x, u, g)
       \/ \E t \in Topic, n \in NodeHandle : CreateRcl(x, t, n)
       \/ CreateRclcpp(x) \/ AddCallback(x) \/ RegisterCallback(x)
       \/ Destroy(x)
       \/ EndCallback(x)

AppNext ==
  /\ outcome = "running"
  /\ \/ AppRegistration
     \/ \E x \in Slot :
          \/ \E t \in Thread, s \in Stamp : TakeRmw(t, x, s)
          \/ StartCallback(x)
     \/ \E t \in Thread : TakeRcl(t) \/ TakeRclcpp(t)

AppSpec == AppInit /\ [][AppNext]_allVars
-----------------------------------------------------------------------------
(* The handlers answer a handle they know already with "Assuming old Subscriber
   was deleted": the trace of a correct application never stops the run. *)
TraceAccepted == outcome = "running"

(* The instance of a running callback has the very message its application
   callback got, and all three layers were recorded on that message: queueing in
   the processor follows the queueing in the application exactly. *)
AttributionIsExact ==
  /\ \A x \in Slot : busy[x] # Nil =>
       /\ callbacks[callbacksById[CallbackOf(x)]].running = busy[x]
       /\ messages[busy[x]].layers = Layer
  /\ \A x \in Slot : In(x, "ready") =>
       LET q == subscribers[subscribersByRmw[RmwOf(x)]].taken
           underWay == {t \in Thread : taking[t] # Nil /\ taking[t].slot = x}
       IN  \/ underWay = {} /\ q = channel[x]
           \/ \E t \in underWay : q = Append(channel[x], taking[t].message)
=============================================================================
