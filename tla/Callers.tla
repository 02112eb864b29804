------------------------------ MODULE Callers ------------------------------
(***************************************************************************)
(* Services, clients and timers, and the callbacks of services and timers: *)
(* their registries, the weak references from a callback to its caller,    *)
(* and the error reports on them (src/processor/ros2.rs and                *)
(* src/processor/error.rs with the Service, Client, Timer, Callback and    *)
(* CallbackInstance objects of src/model/mod.rs).                          *)
(*                                                                         *)
(* A caller is an object of one of the three kinds.  Its heap entry stays  *)
(* when its last strong reference goes; Held says whether one is left.     *)
(* The assertions that a caller is not removed are not branches of the     *)
(* handlers: RegistriesHoldLive shows they never fail.                     *)
(***************************************************************************)
EXTENDS Known

CONSTANTS
  NodeHandle,
  Handle,           \* rcl handles; the kinds have registries of their own
  CallbackHandle,   \* addresses of user callbacks
  Caller,           \* references to Service, Client and Timer objects
  Callback,         \* references to Callback objects
  Nil

Kind == {"service", "client", "timer"}

(* `initialised' stands for the name of a service or client and the period of
   a timer, which their init events deliver. *)
CallerObject ==
  [kind: Kind, rcl: Handle, initialised: BOOLEAN, node: Maybe(NodeHandle),
   callback: Maybe(Callback), removed: BOOLEAN]

CallbackObject == [caller: Caller, named: BOOLEAN, running: BOOLEAN]

ASSUME CallersAssumption ==
  /\ Nil \notin Caller \cup Callback \cup CallerObject \cup CallbackObject
  /\ Unknown \notin NodeHandle \cup Callback

VARIABLES
  outcome,          \* "running", "failed" (Err), "panicked" or "hung" (self-deadlock)
  nodes,            \* the nodes nodes_by_rcl knows
  nodeCallers,      \* Node::services, Node::clients and Node::timers
  callers,          \* heap of Service, Client and Timer objects
  callersByRcl,     \* services_by_rcl, clients_by_rcl and timers_by_rcl
  callbacks,        \* heap of Callback objects
  callbacksById

registry == <<nodes, nodeCallers, callersByRcl, callbacksById>>
heaps    == <<callers, callbacks>>
vars     == <<outcome, registry, heaps>>

TypeOK ==
  /\ outcome \in {"running", "failed", "panicked", "hung"}
  /\ nodes \subseteq NodeHandle
  /\ nodeCallers \in [NodeHandle -> SUBSET Caller]
  /\ callers \in [Caller -> CallerObject \cup {Nil}]
  /\ callersByRcl \in [Kind \X Handle -> Caller \cup {Nil}]
  /\ callbacks \in [Callback -> CallbackObject \cup {Nil}]
  /\ callbacksById \in [CallbackHandle -> Callback \cup {Nil}]

Init ==
  /\ outcome = "running"
  /\ nodes = {}
  /\ nodeCallers = [n \in NodeHandle |-> {}]
  /\ callers = [c \in Caller |-> Nil]
  /\ callersByRcl = [e \in Kind \X Handle |-> Nil]
  /\ callbacks = [k \in Callback |-> Nil]
  /\ callbacksById = [f \in CallbackHandle |-> Nil]
-----------------------------------------------------------------------------
(* The objects. *)

DefaultCaller(kind, h) ==
  [kind |-> kind, rcl |-> h, initialised |-> FALSE, node |-> Unknown,
   callback |-> Unknown, removed |-> FALSE]

(* Service::rcl_init, Client::rcl_init and Timer::rcl_init are accepted once; a
   service's callback may be there before. *)
AcceptsInit(o) == ~o.initialised

AfterInit(o, n) == [o EXCEPT !.initialised = TRUE, !.node = n]

(* Service::set_callback and Timer::set_callback; in the mutated form a second
   callback replaces the first. *)
AcceptsAnyCallback(o) == TRUE
AcceptsCallback(o) == IsUnknown(o.callback)

AfterSetCallback(o, k) == [o EXCEPT !.callback = k]

AcceptsLink(o) == IsUnknown(o.node)

AfterLink(o, n) == [o EXCEPT !.node = n]

(* Mutated form: mark_removed does nothing. *)
AfterNoRemoval(o) == o
AfterRemoval(o) == [o EXCEPT !.removed = TRUE]

FreeCaller   == \E c \in Caller : callers[c] = Nil
NewCaller    == CHOOSE c \in Caller : callers[c] = Nil
FreeCallback == \E k \in Callback : callbacks[k] = Nil
NewCallback  == CHOOSE k \in Callback : callbacks[k] = Nil

(* A strong reference to c is left: in its registry, in its node, or in the
   trigger of a running instance of its callback. *)
Held(c) ==
  \/ callersByRcl[<<callers[c].kind, callers[c].rcl>>] = c
  \/ \E n \in NodeHandle : c \in nodeCallers[n]
  \/ \E k \in Callback : callbacks[k] # Nil /\ callbacks[k].caller = c /\ callbacks[k].running
-----------------------------------------------------------------------------
(* Error reports.  An error::Object locks the object it names, once when it is
   made and dropped and again while it is displayed, and what is displayed
   inside locks further objects: a callback shows its caller, a caller shows
   its callback, each but in the alternate form, which all nested objects are
   shown in.  (Nodes show nothing.)  A report that comes back to an object it
   is showing never ends. *)

(* Callers whose mutex is locked while a callback of c is shown.  In the mutated
   form the alternate form shows as much. *)
ShownByAnyCallback(c, alternate) == {d \in {c} : Held(d)}
ShownByCallback(c, alternate) == {d \in {c} : ~alternate /\ Held(d)}

(* Callbacks whose mutex is locked while the caller c is shown. *)
ShownByCaller(c, alternate) == {k \in Callback : ~alternate /\ callers[c].callback = k}

CallbackReportBlocks(k, c) ==
  \E d \in ShownByCallback(c, FALSE) : k \in ShownByCaller(d, TRUE)

CallerReportBlocks(c) ==
  \E k \in ShownByCaller(c, FALSE) : c \in ShownByCallback(callbacks[k].caller, TRUE)

(* Nothing follows an Err, a panic or a mutex locked twice by one thread; what
   a handler had changed so far is lost with the processor. *)
Stop(how) ==
  /\ outcome' = how
  /\ UNCHANGED <<registry, heaps>>

Fail  == Stop("failed")
Panic == Stop("panicked")

FailReporting(blocks) == Stop(IF blocks THEN "hung" ELSE "failed")

Continue == outcome' = outcome
-----------------------------------------------------------------------------
(* Registration events. *)

(* What rcl_node_init and /rosout publishers do, as far as this part can tell. *)
NodeAppears(n) ==
  /\ n \notin nodes
  /\ nodes' = nodes \cup {n}
  /\ Continue
  /\ UNCHANGED <<nodeCallers, callersByRcl, callbacksById, heaps>>

(* The common end of the three init events: entry e of the registry has the
   initialised object o, which replaces a known caller the event does not fit. *)
Initialise(e, n) ==
  LET c == callersByRcl[e]
      fits == c # Nil /\ AcceptsInit(callers[c])
      old == IF fits \/ c = Nil THEN callers ELSE [callers EXCEPT ![c] = AfterRemoval(@)]
      new == IF fits THEN c ELSE NewCaller
      o   == IF fits THEN callers[c] ELSE DefaultCaller(e[1], e[2])
  IN
  /\ fits \/ FreeCaller
  /\ callers' = [old EXCEPT ![new] = AfterInit(o, n)]
  /\ callersByRcl' = [callersByRcl EXCEPT ![e] = new]
  /\ nodeCallers' = [m \in NodeHandle |->
                       IF m = n THEN nodeCallers[m] \cup {new} ELSE nodeCallers[m]]
  /\ Continue
  /\ UNCHANGED <<nodes, callbacksById, callbacks>>

(* rcl_service_init and rcl_client_init.  A missing node is reported together
   with the object of the registry. *)
RclInit(kind, h, n) ==
  LET c == callersByRcl[<<kind, h>>] IN
  \/ /\ n \notin nodes
     /\ FailReporting(c # Nil /\ CallerReportBlocks(c))
  \/ /\ n \in nodes
     /\ Initialise(<<kind, h>>, n)

(* rcl_timer_init does not know the node; rclcpp_timer_link_node does.  Until
   then a timer is held by its registry only. *)
RclTimerInit(h) == Initialise(<<"timer", h>>, Unknown)

TimerLinkNode(h, n) ==
  LET c == callersByRcl[<<"timer", h>>] IN
  \/ /\ c = Nil
     /\ Fail
  \/ /\ c # Nil /\ n \notin nodes
     /\ FailReporting(CallerReportBlocks(c))
  \/ /\ c # Nil /\ n \in nodes
     /\ ~AcceptsLink(callers[c])
     /\ Fail
  \/ /\ c # Nil /\ n \in nodes
     /\ AcceptsLink(callers[c])
     /\ callers' = [callers EXCEPT ![c] = AfterLink(@, n)]
     /\ nodeCallers' = [nodeCallers EXCEPT ![n] = @ \cup {c}]
     /\ Continue
     /\ UNCHANGED <<nodes, callersByRcl, callbacksById, callbacks>>

(* filter_out_removed_callers: a callback address is free again when the caller
   of the callback was marked removed or dropped, in the mutated form never. *)
TakenAddressForever(f) == callbacksById[f] # Nil
TakenAddress(f) ==
  LET k == callbacksById[f] IN
  k # Nil /\ Held(callbacks[k].caller) /\ ~callers[callbacks[k].caller].removed

(* rclcpp_service_callback_added and rclcpp_timer_callback_added.  A service may
   be unknown here, a timer may not.  A taken address is reported with the old
   callback and the new one, which no object refers to yet. *)
CallbackAdded(kind, f, h) ==
  LET e == <<kind, h>>
      c == IF callersByRcl[e] = Nil THEN NewCaller ELSE callersByRcl[e]
      o == IF callersByRcl[e] = Nil THEN DefaultCaller(kind, h) ELSE callers[c]
      k == NewCallback
      old == callbacksById[f]
  IN
  \/ /\ kind = "timer" /\ callersByRcl[e] = Nil
     /\ Fail
  \/ /\ kind = "service" \/ callersByRcl[e] # Nil
     /\ TakenAddress(f)
     /\ FailReporting(CallbackReportBlocks(old, callbacks[old].caller))
  \/ /\ kind = "service" \/ callersByRcl[e] # Nil
     /\ ~TakenAddress(f)
     /\ ~AcceptsCallback(o)
     /\ Fail
  \/ /\ kind = "service" \/ callersByRcl[e] # Nil
     /\ ~TakenAddress(f)
     /\ AcceptsCallback(o)
     /\ callersByRcl[e] = Nil => FreeCaller
     /\ FreeCallback
     /\ callers' = [callers EXCEPT ![c] = AfterSetCallback(o, k)]
     /\ callersByRcl' = [callersByRcl EXCEPT ![e] = c]
     /\ callbacks' = [callbacks EXCEPT ![k] = [caller |-> c, named |-> FALSE, running |-> FALSE]]
     /\ callbacksById' = [callbacksById EXCEPT ![f] = k]
     /\ Continue
     /\ UNCHANGED <<nodes, nodeCallers>>

(* rclcpp_callback_register *)
CallbackRegister(f) ==
  LET k == callbacksById[f]
      accepted == k # Nil /\ ~callbacks[k].named
  IN
  \/ /\ ~accepted
     /\ Fail
  \/ /\ accepted
     /\ callbacks' = [callbacks EXCEPT ![k].named = TRUE]
     /\ Continue
     /\ UNCHANGED <<registry, callers>>
-----------------------------------------------------------------------------
(* Execution.  CallbackInstance::new turns the weak reference to the caller
   into the trigger, a strong one the instance keeps while it runs. *)

CallbackStart(f) ==
  LET k == callbacksById[f] IN
  \/ /\ k = Nil
     /\ Fail
  \/ /\ k # Nil
     /\ callbacks[k].running \/ ~Held(callbacks[k].caller)
     /\ Panic
  \/ /\ k # Nil
     /\ ~callbacks[k].running
     /\ Held(callbacks[k].caller)
     /\ callbacks' = [callbacks EXCEPT ![k].running = TRUE]
     /\ Continue
     /\ UNCHANGED <<registry, callers>>

CallbackEnd(f) ==
  LET k == callbacksById[f] IN
  \/ /\ k = Nil
     /\ Fail
  \/ /\ k # Nil
     /\ ~callbacks[k].running
     /\ Panic
  \/ /\ k # Nil
     /\ callbacks[k].running
     /\ callbacks' = [callbacks EXCEPT ![k].running = FALSE]
     /\ Continue
     /\ UNCHANGED <<registry, callers>>
-----------------------------------------------------------------------------
Registration ==
  \/ \E n \in NodeHandle : NodeAppears(n)
  \/ \E h \in Handle :
       \/ \E kind \in {"service", "client"}, n \in NodeHandle : RclInit(kind, h, n)
       \/ RclTimerInit(h)
       \/ \E n \in NodeHandle : TimerLinkNode(h, n)
       \/ \E kind \in {"service", "timer"}, f \in CallbackHandle : CallbackAdded(kind, f, h)
  \/ \E f \in CallbackHandle : CallbackRegister(f)

Execution == \E f \in CallbackHandle : CallbackStart(f) \/ CallbackEnd(f)

Next == outcome = "running" /\ (Registration \/ Execution)

Spec == Init /\ [][Next]_vars
-----------------------------------------------------------------------------
(* What holds of the processor whatever events it is fed. *)

(* The registries hold objects of their own handle that are not marked removed,
   and every other object is marked: the assertions "!is_removed" of rcl_init,
   set_callback and link_node cannot fail, unlike those of publishers, which
   have two registries. *)
RegistriesHoldLive ==
  /\ \A e \in Kind \X Handle :
       LET c == callersByRcl[e] IN
       c # Nil => callers[c] # Nil /\ <<callers[c].kind, callers[c].rcl>> = e
  /\ \A c \in Caller :
       callers[c] # Nil =>
         (callers[c].removed <=> callersByRcl[<<callers[c].kind, callers[c].rcl>>] # c)

(* A callback and its caller refer to each other, also after the caller was
   replaced.  CallbackInstance::new unwraps the weak reference: only that of a
   replaced timer that was never linked to a node can fail. *)
CallerIsReached ==
  \A k \in Callback :
    callbacks[k] # Nil =>
      LET c == callbacks[k].caller IN
      /\ callers[c] # Nil
      /\ callers[c].callback = k
      /\ ~Held(c) => /\ callers[c].kind = "timer"
                     /\ callers[c].removed
                     /\ IsUnknown(callers[c].node)

(* "Object already exists" (src/processor/error.rs:229) and the other errors are
   reported: no handler or report blocks on a mutex its own thread holds. *)
NeverHangs == outcome # "hung"
=============================================================================
