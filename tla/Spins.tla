------------------------------- MODULE Spins -------------------------------
(***************************************************************************)
(* Executor spins of r2r: the handlers of src/processor/r2r.rs on the spin *)
(* instance of a node (src/model/mod.rs), and the analysis SpinDuration    *)
(* that reads the instance a spin_end hands out                            *)
(* (src/analysis/spin_duration.rs).  An analysis runs within the step of   *)
(* the event, before the next event is read.                               *)
(*                                                                         *)
(* The stream of events is arbitrary unless the trace is complete: then it *)
(* has the events of each spin in the order r2r emits them, per node.      *)
(* Times are abstracted to whether they are known.                         *)
(***************************************************************************)
EXTENDS Known, Naturals

CONSTANTS
  Node,
  MaxSpins,        \* bound: spins started, and spins ended, per node
  Nil

SpinInstance ==
  [wakeKnown: BOOLEAN, endKnown: BOOLEAN, timeouted: Maybe(BOOLEAN)]

ASSUME SpinsAssumption ==
  /\ MaxSpins \in Nat
  /\ Unknown \notin BOOLEAN
  /\ Nil \notin SpinInstance

VARIABLES
  complete,      \* is no event of a spin missing from the trace?
  spinDuration,  \* is the analysis enabled?
  outcome,       \* "running", "failed", "panicked", or "analysis" (an analysis panicked)
  nodes,         \* the nodes nodes_by_rcl knows
  instance,      \* Node::spin_instance
  phase,         \* of the executor of the node: "idle", "waiting" or "awake"
  started,       \* spins started, for the bound
  ended          \* spins that ended, for the bound

setting == <<complete, spinDuration>>     \* what a run never changes

vars == <<setting, outcome, nodes, instance, phase, started, ended>>

TypeOK ==
  /\ complete \in BOOLEAN
  /\ spinDuration \in BOOLEAN
  /\ outcome \in {"running", "failed", "panicked", "analysis"}
  /\ nodes \subseteq Node
  /\ instance \in [Node -> SpinInstance \cup {Nil}]
  /\ phase \in [Node -> {"idle", "waiting", "awake"}]
  /\ started \in [Node -> 0..MaxSpins]
  /\ ended \in [Node -> 0..MaxSpins]

Init ==
  /\ complete \in BOOLEAN
  /\ spinDuration \in BOOLEAN
  /\ outcome = "running"
  /\ nodes = {}
  /\ instance = [n \in Node |-> Nil]
  /\ phase = [n \in Node |-> "idle"]
  /\ started = [n \in Node |-> 0]
  /\ ended = [n \in Node |-> 0]
-----------------------------------------------------------------------------
(* Mutated form of NewInstance: a spin starts as not timed out. *)
NewInstanceNotTimeouted == [wakeKnown |-> FALSE, endKnown |-> FALSE, timeouted |-> FALSE]

NewInstance == [wakeKnown |-> FALSE, endKnown |-> FALSE, timeouted |-> Unknown]

(* SpinInstance::set_wake_time, set_end_time and set_timeouted_on: what each
   asserts, and the object after it. *)
AcceptsWake(o) == ~o.wakeKnown

(* In the mutated form the wake time is not set. *)
AfterWakeWithoutTime(o) == [o EXCEPT !.timeouted = FALSE]
AfterWake(o) == [o EXCEPT !.wakeKnown = TRUE, !.timeouted = FALSE]

AcceptsEnd(o) == ~o.endKnown /\ o.timeouted # TRUE
AfterEnd(o) == [o EXCEPT !.endKnown = TRUE, !.timeouted = FALSE]

AcceptsTimeout(o) == IsUnknown(o.timeouted)

Stop(how) ==
  /\ outcome' = how
  /\ UNCHANGED <<nodes, instance, started>>

Continue == outcome' = outcome

(* The executor's part of a step. *)
Moves(n, from, to) ==
  /\ complete => phase[n] = from /\ n \in nodes
  /\ phase' = [phase EXCEPT ![n] = to]
-----------------------------------------------------------------------------
(* rcl_node_init, as far as the spins depend on it. *)
NodeAppears(n) ==
  /\ n \notin nodes
  /\ nodes' = nodes \cup {n}
  /\ Continue
  /\ UNCHANGED <<instance, phase, started, ended>>

(* spin_start replaces an instance that is still there, with a warning. *)
SpinStart(n) ==
  /\ Moves(n, "idle", "waiting")
  /\ started[n] < MaxSpins
  /\ \/ /\ n \notin nodes
        /\ Stop("failed")
     \/ /\ n \in nodes
        /\ instance' = [instance EXCEPT ![n] = NewInstance]
        /\ started' = [started EXCEPT ![n] = @ + 1]
        /\ Continue
        /\ UNCHANGED nodes
  /\ UNCHANGED ended

(* spin_wake leaves the instance at the node; without one nothing happens. *)
SpinWake(n) ==
  /\ Moves(n, "waiting", "awake")
  /\ \/ /\ n \notin nodes
        /\ Stop("failed")
     \/ /\ n \in nodes
        /\ instance[n] # Nil
        /\ ~AcceptsWake(instance[n])
        /\ Stop("panicked")
     \/ /\ n \in nodes
        /\ instance[n] # Nil => AcceptsWake(instance[n])
        /\ instance' = IF instance[n] = Nil THEN instance
                       ELSE [instance EXCEPT ![n] = AfterWake(@)]
        /\ Continue
        /\ UNCHANGED <<nodes, started>>
  /\ UNCHANGED ended

(* SpinDuration::process_event unwraps the instance, its wake and its end time. *)
AnalysisAccepts(o) == spinDuration => o # Nil /\ o.wakeKnown /\ o.endKnown

(* spin_end takes the instance out of the node, ends it, and hands it to the
   analyses. *)
SpinEnd(n) ==
  LET o == instance[n]
      handed == IF o = Nil THEN Nil ELSE AfterEnd(o)
  IN
  /\ Moves(n, "awake", "idle")
  /\ ended[n] < MaxSpins
  /\ ended' = [ended EXCEPT ![n] = @ + 1]
  /\ \/ /\ n \notin nodes
        /\ Stop("failed")
     \/ /\ n \in nodes
        /\ o # Nil
        /\ ~AcceptsEnd(o)
        /\ Stop("panicked")
     \/ /\ n \in nodes
        /\ o # Nil => AcceptsEnd(o)
        /\ ~AnalysisAccepts(handed)
        /\ Stop("analysis")
     \/ /\ n \in nodes
        /\ o # Nil => AcceptsEnd(o)
        /\ AnalysisAccepts(handed)
        /\ instance' = [instance EXCEPT ![n] = Nil]
        /\ Continue
        /\ UNCHANGED <<nodes, started>>

(* spin_timeout takes the instance out of the node, and it must not be awake. *)
SpinTimeout(n) ==
  /\ Moves(n, "waiting", "idle")
  /\ \/ /\ n \notin nodes
        /\ Stop("failed")
     \/ /\ n \in nodes
        /\ instance[n] # Nil
        /\ ~AcceptsTimeout(instance[n])
        /\ Stop("panicked")
     \/ /\ n \in nodes
        /\ instance[n] # Nil => AcceptsTimeout(instance[n])
        /\ instance' = [instance EXCEPT ![n] = Nil]
        /\ Continue
        /\ UNCHANGED <<nodes, started>>
  /\ UNCHANGED ended

Next ==
  /\ outcome = "running"
  /\ UNCHANGED setting
  /\ \E n \in Node :
       \/ NodeAppears(n)
       \/ SpinStart(n)
       \/ SpinWake(n)
       \/ SpinEnd(n)
       \/ SpinTimeout(n)

Spec == Init /\ [][Next]_vars
-----------------------------------------------------------------------------
(* The instance at a node is open: it neither ended nor timed out, and it counts
   as not timed out exactly since it woke.  So the assertion in set_end_time
   cannot fail, whatever events are missing. *)
CurrentSpinIsOpen ==
  \A n \in Node : instance[n] # Nil =>
    /\ ~instance[n].endKnown
    /\ instance[n].timeouted = IF instance[n].wakeKnown THEN FALSE ELSE Unknown

(* An instance follows its executor when nothing is missing: never replaced
   while open, so every spin that woke up is accounted for. *)
InstanceFollowsExecutor ==
  complete => \A n \in Node :
    /\ instance[n] = Nil <=> phase[n] = "idle"
    /\ instance[n] # Nil => (instance[n].wakeKnown <=> phase[n] = "awake")

(* The complete trace of an application never stops the run. *)
CompleteTraceAccepted == complete => outcome = "running"

=============================================================================
