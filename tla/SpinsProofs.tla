---------------------------- MODULE SpinsProofs ----------------------------
(***************************************************************************)
(* Proofs about Spins, for every number of nodes and of spins, for         *)
(* complete and for partial traces, with and without the analysis.         *)
(***************************************************************************)
EXTENDS Spins, TLAPS

(* The objects a handler puts at a node are spin instances. *)
LEMMA NewInstanceType == NewInstance \in SpinInstance
  BY DEF NewInstance, SpinInstance, Maybe

LEMMA AfterWakeType ==
  ASSUME NEW o \in SpinInstance
  PROVE  AfterWake(o) \in SpinInstance
  BY DEF AfterWake, SpinInstance, Maybe

(* Putting an object at a node, or taking it away, keeps the type of the map. *)
LEMMA InstanceUpdateType ==
  ASSUME NEW n \in Node, NEW o \in SpinInstance \cup {Nil},
         instance \in [Node -> SpinInstance \cup {Nil}],
         instance' = [instance EXCEPT ![n] = o]
  PROVE  instance' \in [Node -> SpinInstance \cup {Nil}]
  OBVIOUS

(* The executor's part of a step keeps the type of the phases. *)
LEMMA MovesType ==
  ASSUME NEW n \in Node, NEW from, NEW to \in {"idle", "waiting", "awake"},
         phase \in [Node -> {"idle", "waiting", "awake"}], Moves(n, from, to)
  PROVE  phase' \in [Node -> {"idle", "waiting", "awake"}]
  BY DEF Moves

(* Counting below the bound stays within it. *)
LEMMA CountType ==
  ASSUME NEW n \in Node, NEW f \in [Node -> 0..MaxSpins], f[n] < MaxSpins
  PROVE  [f EXCEPT ![n] = @ + 1] \in [Node -> 0..MaxSpins]
<1>1. f[n] + 1 \in 0..MaxSpins
  BY SpinsAssumption
<1>. QED
  BY <1>1

(* Type correctness of Spins: the variables of the executors and of the
   processor keep their types. *)
THEOREM TypeCorrect == Spec => []TypeOK
<1>1. Init => TypeOK
  BY SpinsAssumption DEF Init, TypeOK
<1>2. TypeOK /\ [Next]_vars => TypeOK'
  <2> SUFFICES ASSUME TypeOK, [Next]_vars PROVE TypeOK'
    OBVIOUS
  <2>1. CASE UNCHANGED vars
    BY <2>1 DEF vars, setting, TypeOK
  <2>2. CASE Next
    <3>. PICK n \in Node : \/ NodeAppears(n) \/ SpinStart(n) \/ SpinWake(n)
                           \/ SpinEnd(n) \/ SpinTimeout(n)
      BY <2>2 DEF Next
    <3>1. UNCHANGED setting
      BY <2>2 DEF Next
    <3>2. CASE NodeAppears(n)
      BY <3>1, <3>2 DEF NodeAppears, Continue, TypeOK, setting
    <3>3. CASE SpinStart(n)
      <4>1. phase' \in [Node -> {"idle", "waiting", "awake"}]
        BY <3>3, MovesType DEF SpinStart, TypeOK
      <4>2. CASE Stop("failed")
        BY <3>1, <3>3, <4>1, <4>2 DEF SpinStart, Stop, TypeOK, setting
      <4>3. CASE ~Stop("failed")
        <5>1. instance' \in [Node -> SpinInstance \cup {Nil}]
          BY <3>3, <4>3, NewInstanceType, InstanceUpdateType DEF SpinStart, TypeOK
        <5>2. started' \in [Node -> 0..MaxSpins]
          BY <3>3, <4>3, CountType DEF SpinStart, TypeOK
        <5>. QED
          BY <3>1, <3>3, <4>1, <4>3, <5>1, <5>2 DEF SpinStart, Continue, TypeOK, setting
      <4>. QED
        BY <4>2, <4>3
    <3>4. CASE SpinWake(n)
      <4>1. phase' \in [Node -> {"idle", "waiting", "awake"}]
        BY <3>4, MovesType DEF SpinWake, TypeOK
      <4>2. instance' \in [Node -> SpinInstance \cup {Nil}]
        <5>1. instance[n] # Nil => AfterWake(instance[n]) \in SpinInstance
          BY AfterWakeType DEF TypeOK
        <5>. QED
          BY <3>4, <5>1, InstanceUpdateType DEF SpinWake, Stop, TypeOK
      <4>. QED
        BY <3>1, <3>4, <4>1, <4>2 DEF SpinWake, Stop, Continue, TypeOK, setting
    <3>5. CASE SpinEnd(n)
      <4>1. phase' \in [Node -> {"idle", "waiting", "awake"}]
        BY <3>5, MovesType DEF SpinEnd, TypeOK
      <4>2. instance' \in [Node -> SpinInstance \cup {Nil}]
        BY <3>5, InstanceUpdateType DEF SpinEnd, Stop, TypeOK
      <4>3. ended' \in [Node -> 0..MaxSpins]
        BY <3>5, CountType DEF SpinEnd, TypeOK
      <4>. QED
        BY <3>1, <3>5, <4>1, <4>2, <4>3 DEF SpinEnd, Stop, Continue, TypeOK, setting
    <3>6. CASE SpinTimeout(n)
      <4>1. phase' \in [Node -> {"idle", "waiting", "awake"}]
        BY <3>6, MovesType DEF SpinTimeout, TypeOK
      <4>2. instance' \in [Node -> SpinInstance \cup {Nil}]
        BY <3>6, InstanceUpdateType DEF SpinTimeout, Stop, TypeOK
      <4>. QED
        BY <3>1, <3>6, <4>1, <4>2 DEF SpinTimeout, Stop, Continue, TypeOK, setting
    <3>. QED
      BY <3>2, <3>3, <3>4, <3>5, <3>6
  <2>. QED
    BY <2>1, <2>2
<1>. QED
  BY <1>1, <1>2, PTL DEF Spec

-----------------------------------------------------------------------------
(* The part of CurrentSpinIsOpen that is about one object. *)
Open(o) ==
  /\ ~o.endKnown
  /\ o.timeouted = IF o.wakeKnown THEN FALSE ELSE Unknown

LEMMA NewInstanceOpen == Open(NewInstance)
  BY DEF Open, NewInstance

LEMMA AfterWakeOpen ==
  ASSUME NEW o \in SpinInstance, Open(o)
  PROVE  Open(AfterWake(o))
<1>1. AfterWake(o).endKnown = o.endKnown
  BY DEF AfterWake, SpinInstance
<1>2. AfterWake(o).wakeKnown = TRUE /\ AfterWake(o).timeouted = FALSE
  BY DEF AfterWake, SpinInstance
<1>. QED
  BY <1>1, <1>2 DEF Open

(* An object that replaces the one at a node keeps every object open. *)
LEMMA OpenUpdate ==
  ASSUME NEW n \in Node, NEW o \in SpinInstance \cup {Nil},
         TypeOK, CurrentSpinIsOpen,
         instance' = [instance EXCEPT ![n] = o],
         o # Nil => Open(o)
  PROVE  CurrentSpinIsOpen'
<1>. SUFFICES ASSUME NEW k \in Node, instance'[k] # Nil PROVE Open(instance'[k])
  BY DEF CurrentSpinIsOpen, Open
<1>1. CASE k = n
  BY <1>1 DEF TypeOK
<1>2. CASE k # n
  BY <1>2 DEF TypeOK, CurrentSpinIsOpen, Open
<1>. QED
  BY <1>1, <1>2

LEMMA OpenUnchanged ==
  ASSUME CurrentSpinIsOpen, UNCHANGED instance
  PROVE  CurrentSpinIsOpen'
  BY DEF CurrentSpinIsOpen

(* The spin instance at a node never ended and never timed out, and counts as
   not timed out exactly since its wake time is known, whatever events of the
   spins are missing from the trace. *)
THEOREM SpinsStayOpen == Spec => []CurrentSpinIsOpen
<1>1. Init => CurrentSpinIsOpen
  BY DEF Init, CurrentSpinIsOpen
<1>2. TypeOK /\ CurrentSpinIsOpen /\ [Next]_vars => CurrentSpinIsOpen'
  <2> SUFFICES ASSUME TypeOK, CurrentSpinIsOpen, [Next]_vars PROVE CurrentSpinIsOpen'
    OBVIOUS
  <2>1. CASE UNCHANGED vars
    BY <2>1, OpenUnchanged DEF vars
  <2>2. CASE Next
    <3>. PICK n \in Node : \/ NodeAppears(n) \/ SpinStart(n) \/ SpinWake(n)
                           \/ SpinEnd(n) \/ SpinTimeout(n)
      BY <2>2 DEF Next
    <3>1. CASE UNCHANGED instance
      BY <3>1, OpenUnchanged
    <3>2. CASE instance' = [instance EXCEPT ![n] = NewInstance]
      BY <3>2, NewInstanceType, NewInstanceOpen, OpenUpdate
    <3>3. CASE instance[n] # Nil /\ instance' = [instance EXCEPT ![n] = AfterWake(@)]
      <4>1. instance[n] \in SpinInstance /\ Open(instance[n])
        BY <3>3 DEF TypeOK, CurrentSpinIsOpen, Open
      <4>. QED
        BY <3>3, <4>1, AfterWakeType, AfterWakeOpen, OpenUpdate
    <3>4. CASE instance' = [instance EXCEPT ![n] = Nil]
      BY <3>4, OpenUpdate
    <3>5. CASE NodeAppears(n)
      BY <3>1, <3>5 DEF NodeAppears
    <3>6. CASE SpinStart(n)
      BY <3>1, <3>2, <3>6 DEF SpinStart, Stop
    <3>7. CASE SpinWake(n)
      BY <3>1, <3>3, <3>7 DEF SpinWake, Stop
    <3>8. CASE SpinEnd(n)
      BY <3>1, <3>4, <3>8 DEF SpinEnd, Stop
    <3>9. CASE SpinTimeout(n)
      BY <3>1, <3>4, <3>9 DEF SpinTimeout, Stop
    <3>. QED
      BY <3>5, <3>6, <3>7, <3>8, <3>9
  <2>. QED
    BY <2>1, <2>2
<1>. QED
  BY <1>1, <1>2, TypeCorrect, PTL DEF Spec

-----------------------------------------------------------------------------
(* The instance `o' at a node matches the phase `ph' of its executor. *)
Follows(o, ph) ==
  /\ o = Nil <=> ph = "idle"
  /\ o # Nil => (o.wakeKnown <=> ph = "awake")

LEMMA FollowsUpdate ==
  ASSUME NEW n \in Node, NEW o \in SpinInstance \cup {Nil}, NEW ph,
         TypeOK, InstanceFollowsExecutor, complete,
         instance' = [instance EXCEPT ![n] = o],
         phase' = [phase EXCEPT ![n] = ph],
         Follows(o, ph)
  PROVE  InstanceFollowsExecutor'
<1>. SUFFICES ASSUME NEW k \in Node PROVE Follows(instance'[k], phase'[k])
  BY DEF InstanceFollowsExecutor, Follows
<1>1. CASE k = n
  <2>1. instance'[k] = o /\ phase'[k] = ph
    BY <1>1 DEF TypeOK
  <2>. QED
    BY <2>1
<1>2. CASE k # n
  <2>1. instance'[k] = instance[k] /\ phase'[k] = phase[k]
    BY <1>2 DEF TypeOK
  <2>2. Follows(instance[k], phase[k])
    BY DEF InstanceFollowsExecutor, Follows
  <2>. QED
    BY <2>1, <2>2
<1>. QED
  BY <1>1, <1>2

(* What the objects of an open spin accept. *)
LEMMA OpenAccepts ==
  ASSUME NEW o \in SpinInstance, Open(o)
  PROVE  /\ AcceptsEnd(o)
         /\ ~o.wakeKnown => AcceptsWake(o) /\ AcceptsTimeout(o)
         /\ o.wakeKnown => AnalysisAccepts(AfterEnd(o))
<1>1. AcceptsEnd(o)
  BY SpinsAssumption DEF Open, AcceptsEnd, SpinInstance, Maybe
<1>2. ASSUME ~o.wakeKnown PROVE AcceptsWake(o) /\ AcceptsTimeout(o)
  BY <1>2 DEF Open, AcceptsWake, AcceptsTimeout, IsUnknown
<1>3. ASSUME o.wakeKnown PROVE AnalysisAccepts(AfterEnd(o))
  <2>1. AfterEnd(o) \in SpinInstance
    BY DEF AfterEnd, SpinInstance, Maybe
  <2>2. AfterEnd(o).wakeKnown /\ AfterEnd(o).endKnown
    BY <1>3 DEF AfterEnd, SpinInstance
  <2>3. AfterEnd(o) # Nil
    BY <2>1, SpinsAssumption
  <2>. QED
    BY <2>2, <2>3 DEF AnalysisAccepts
<1>. QED
  BY <1>1, <1>2, <1>3

(* The complete trace of an application never stops the run: no handler returns
   an error, no assertion of a spin instance fails and the analysis finds the
   times it unwraps.  Inductive together with InstanceFollowsExecutor, which says
   what the processor knows of each executor. *)
THEOREM CompleteIsAccepted == Spec => [](InstanceFollowsExecutor /\ CompleteTraceAccepted)
<1>. DEFINE Inv == InstanceFollowsExecutor /\ CompleteTraceAccepted
<1>1. Init => Inv
  BY DEF Init, InstanceFollowsExecutor, CompleteTraceAccepted
<1>2. TypeOK /\ CurrentSpinIsOpen /\ Inv /\ [Next]_vars => Inv'
  <2> SUFFICES ASSUME TypeOK, CurrentSpinIsOpen, Inv, [Next]_vars PROVE Inv'
    OBVIOUS
  <2>1. CASE UNCHANGED vars
    BY <2>1 DEF vars, setting, InstanceFollowsExecutor, CompleteTraceAccepted
  <2>2. CASE Next /\ ~complete
    BY <2>2 DEF Next, setting, InstanceFollowsExecutor, CompleteTraceAccepted
  <2>3. CASE Next /\ complete
    <3>. PICK n \in Node : \/ NodeAppears(n) \/ SpinStart(n) \/ SpinWake(n)
                           \/ SpinEnd(n) \/ SpinTimeout(n)
      BY <2>3 DEF Next
    <3>1. complete' = complete /\ outcome = "running"
      BY <2>3 DEF Next, setting
    <3>2. /\ instance[n] \in SpinInstance \cup {Nil}
          /\ Follows(instance[n], phase[n])
          /\ instance[n] # Nil => Open(instance[n])
      BY <2>3 DEF TypeOK, InstanceFollowsExecutor, CurrentSpinIsOpen, Follows, Open
    <3>3. SUFFICES (outcome' = "running") /\ InstanceFollowsExecutor'
      BY DEF CompleteTraceAccepted
    <3>4. CASE NodeAppears(n)
      BY <3>1, <3>4 DEF NodeAppears, Continue, InstanceFollowsExecutor
    <3>5. CASE SpinStart(n)
      <4>1. n \in nodes
        BY <2>3, <3>5 DEF SpinStart, Moves
      <4>2. Follows(NewInstance, "waiting")
        <5>1. NewInstance # Nil
          BY NewInstanceType, SpinsAssumption
        <5>2. NewInstance.wakeKnown = FALSE
          BY DEF NewInstance
        <5>. QED
          BY <5>1, <5>2 DEF Follows
      <4>. QED
        BY <2>3, <3>1, <3>5, <4>1, <4>2, NewInstanceType, FollowsUpdate
        DEF SpinStart, Moves, Continue
    <3>6. CASE SpinWake(n)
      <4>1. n \in nodes /\ phase[n] = "waiting"
        BY <2>3, <3>6 DEF SpinWake, Moves
      <4>2. instance[n] # Nil /\ ~instance[n].wakeKnown
        BY <3>2, <4>1 DEF Follows
      <4>3. AcceptsWake(instance[n])
        BY <3>2, <4>2, OpenAccepts
      <4>4. AfterWake(instance[n]).wakeKnown = TRUE
        BY <3>2, <4>2 DEF AfterWake, SpinInstance
      <4>5. AfterWake(instance[n]) \in SpinInstance
        BY <3>2, <4>2, AfterWakeType
      <4>6. Follows(AfterWake(instance[n]), "awake")
        BY <4>4, <4>5, SpinsAssumption DEF Follows
      <4>7. /\ instance' = [instance EXCEPT ![n] = AfterWake(@)]
            /\ phase' = [phase EXCEPT ![n] = "awake"]
            /\ outcome' = outcome
        BY <3>6, <4>1, <4>2, <4>3 DEF SpinWake, Moves, Continue
      <4>. QED
        BY <2>3, <3>1, <4>5, <4>6, <4>7, FollowsUpdate
    <3>7. CASE SpinEnd(n)
      <4>1. n \in nodes /\ phase[n] = "awake"
        BY <2>3, <3>7 DEF SpinEnd, Moves
      <4>2. instance[n] # Nil /\ instance[n].wakeKnown
        BY <3>2, <4>1 DEF Follows
      <4>3. AcceptsEnd(instance[n]) /\ AnalysisAccepts(AfterEnd(instance[n]))
        BY <3>2, <4>2, OpenAccepts
      <4>4. /\ instance' = [instance EXCEPT ![n] = Nil]
            /\ phase' = [phase EXCEPT ![n] = "idle"]
            /\ outcome' = outcome
        BY <3>7, <4>1, <4>2, <4>3 DEF SpinEnd, Moves, Continue
      <4>5. Follows(Nil, "idle")
        BY DEF Follows
      <4>. QED
        BY <2>3, <3>1, <4>4, <4>5, FollowsUpdate
    <3>8. CASE SpinTimeout(n)
      <4>1. n \in nodes /\ phase[n] = "waiting"
        BY <2>3, <3>8 DEF SpinTimeout, Moves
      <4>2. instance[n] # Nil /\ ~instance[n].wakeKnown
        BY <3>2, <4>1 DEF Follows
      <4>3. AcceptsTimeout(instance[n])
        BY <3>2, <4>2, OpenAccepts
      <4>4. /\ instance' = [instance EXCEPT ![n] = Nil]
            /\ phase' = [phase EXCEPT ![n] = "idle"]
            /\ outcome' = outcome
        BY <3>8, <4>1, <4>2, <4>3 DEF SpinTimeout, Moves, Continue
      <4>5. Follows(Nil, "idle")
        BY DEF Follows
      <4>. QED
        BY <2>3, <3>1, <4>4, <4>5, FollowsUpdate
    <3>. QED
      BY <3>4, <3>5, <3>6, <3>7, <3>8
  <2>. QED
    BY <2>1, <2>2, <2>3
<1>. QED
  BY <1>1, <1>2, TypeCorrect, SpinsStayOpen, PTL DEF Spec

(* So an instance follows its executor, and no spin that woke up is lost. *)
THEOREM InstanceAlwaysFollows == Spec => []InstanceFollowsExecutor
BY CompleteIsAccepted, PTL
=============================================================================
