----------------------------- MODULE CallerApp -----------------------------
(***************************************************************************)
(* Callers fed with the events of an application, or with any events.  The *)
(* application is external (rclcpp, rcl and LTTng), modelled from what the *)
(* handlers of src/processor/ros2.rs expect of it: a service or timer is   *)
(* created, gets its callback, has it named and then runs it; a timer is   *)
(* linked to its node at some time, by rclcpp before or after it first     *)
(* runs, by others never.  Destroying one is not traced and frees its      *)
(* addresses.                                                              *)
(***************************************************************************)
EXTENDS Callers

CONSTANTS
  CallbackAt     \* the address of the callback of the object at a handle

Phase == {"destroyed", "created", "added", "ready", "executing"}

SlotObject == [kind: Kind, phase: Phase, linked: BOOLEAN]

(* Objects of two handles never have their callbacks at one address: the
   processor would take the address for that of the first, as the end of an
   object is not traced. *)
ASSUME CallerAppAssumption ==
  /\ CallbackAt \in [Handle -> CallbackHandle]
  /\ \A g, h \in Handle : CallbackAt[g] = CallbackAt[h] => g = h
  /\ Nil \notin SlotObject

VARIABLES
  complete,      \* is the stream the complete trace of an application?
  slots          \* what the application has at each handle, Nil if nothing yet

appVars == <<complete, slots>>
allVars == <<vars, appVars>>

(* The application uses an address pair for one kind of object only. *)
Slots == [Handle -> SlotObject \cup {Nil}]

AppInit ==
  /\ Init
  /\ complete \in BOOLEAN
  /\ slots = [h \in Handle |-> Nil]

In(h, phase) == slots[h] # Nil /\ slots[h].phase = phase

Advance(h, phase) ==
  /\ slots' = [slots EXCEPT ![h].phase = phase]
  /\ UNCHANGED complete

Create(kind, h) ==
  /\ slots[h] # Nil => slots[h].phase = "destroyed" /\ slots[h].kind = kind
  /\ IF kind = "timer" THEN RclTimerInit(h)
     ELSE \E n \in nodes : RclInit(kind, h, n)
  /\ slots' = [slots EXCEPT ![h] = [kind |-> kind, phase |-> "created", linked |-> FALSE]]
  /\ UNCHANGED complete

AddCallback(h) ==
  /\ In(h, "created")
  /\ slots[h].kind # "client"
  /\ CallbackAdded(slots[h].kind, CallbackAt[h], h)
  /\ Advance(h, "added")

RegisterCallback(h) ==
  /\ In(h, "added")
  /\ CallbackRegister(CallbackAt[h])
  /\ Advance(h, "ready")

Link(h) ==
  /\ slots[h] # Nil
  /\ slots[h].phase # "destroyed"
  /\ slots[h].kind = "timer"
  /\ ~slots[h].linked
  /\ \E n \in nodes : TimerLinkNode(h, n)
  /\ slots' = [slots EXCEPT ![h].linked = TRUE]
  /\ UNCHANGED complete

StartCallback(h) ==
  /\ In(h, "ready")
  /\ CallbackStart(CallbackAt[h])
  /\ Advance(h, "executing")

EndCallback(h) ==
  /\ In(h, "executing")
  /\ CallbackEnd(CallbackAt[h])
  /\ Advance(h, "ready")

Destroy(h) ==
  /\ slots[h] # Nil
  /\ slots[h].phase \notin {"destroyed", "executing"}
  /\ Advance(h, "destroyed")
  /\ UNCHANGED vars

Application ==
  \/ \E n \in NodeHandle : NodeAppears(n) /\ UNCHANGED appVars
  \/ \E h \in Handle :
       \/ \E kind \in Kind : Create(kind, h)
       \/ AddCallback(h) \/ RegisterCallback(h) \/ Link(h)
       \/ StartCallback(h) \/ EndCallback(h)
       \/ Destroy(h)

AppNext ==
  /\ outcome = "running"
  /\ \/ complete /\ Application
     \/ ~complete /\ (Registration \/ Execution) /\ UNCHANGED appVars

AppSpec == AppInit /\ [][AppNext]_allVars
-----------------------------------------------------------------------------
(* "Assuming old service was deleted. Creating new." (and likewise for clients
   and timers): the trace of an application is processed to its end, and the
   events of an object reach the object that was created last at its addresses,
   with its own callback, however often the addresses were used before. *)
EventsReachCurrent ==
  complete =>
    /\ outcome = "running"
    /\ \A h \in Handle :
         slots[h] # Nil /\ slots[h].phase \in {"added", "ready", "executing"} =>
           LET k == callbacksById[CallbackAt[h]] IN
           /\ k # Nil
           /\ callbacks[k].caller = callersByRcl[<<slots[h].kind, h>>]
           /\ callbacks[k].named <=> slots[h].phase # "added"
           /\ callbacks[k].running <=> slots[h].phase = "executing"
=============================================================================
