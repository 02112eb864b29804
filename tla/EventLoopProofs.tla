-------------------------- MODULE EventLoopProofs --------------------------
(***************************************************************************)
(* Proofs about EventLoop with Startup and EventStream, for every tree of  *)
(* directories, every command line and traces of every length.             *)
(*                                                                         *)
(* The state falls in three parts with an invariant each: the graph that   *)
(* is constructed and dismantled (GraphInv), the stream of messages        *)
(* (StreamInv), and the loop, whose phase says what the other two have     *)
(* come to (LoopInv).                                                      *)
(***************************************************************************)
EXTENDS EventLoop, FiniteSetTheorems, TLAPS

(* The graph.  How far the construction is says who holds the slot, and that no
   source, port or trace was left out. *)
GraphTypeOK ==
  /\ command \in Commands
  /\ disk \in Disks
  /\ stage \in {"search", "sources", "ports", "sinkPort", "built", "over"}
  /\ \A i \in DOMAIN found : found[i] \subseteq Directory
  /\ sources \in Seq(Directory)
  /\ links \in Seq(Nat \X Nat)

SlotIsHeld ==
  /\ stage = "search" => slotRefs = 0
  /\ stage \in {"sources", "ports", "sinkPort", "built"} => slotRefs = 2
  /\ hasSink \in BOOLEAN
  /\ hasSink <=> stage \in {"sinkPort", "built"}

GraphGrows ==
  /\ \A n, m \in DOMAIN links : links[n] = links[m] => n = m
  /\ stage = "sources" => sources # << >> \/ \E i \in DOMAIN found : found[i] # {}
  /\ stage \in {"ports", "sinkPort", "built"} => sources # << >>
  /\ stage \in {"sinkPort", "built"} => Unconnected = {}

(* Every trace found has a source, or will get one. *)
AllFound == UNION {TracesFound[i] : i \in DOMAIN TracesFound}

NoTraceLost ==
  /\ stage = "search" => sources = << >>
  /\ stage \in {"sources", "ports", "sinkPort", "built"} =>
       ToSet(sources) \cup UNION {found[i] : i \in DOMAIN found} = AllFound
  /\ stage \in {"ports", "sinkPort", "built"} => \A i \in DOMAIN found : found[i] = {}

GraphInv == GraphTypeOK /\ SlotIsHeld /\ GraphGrows /\ NoTraceLost

(* The stream. *)
StreamInv ==
  /\ StreamTypeOK
  /\ state = "ended" => OnlyBlanksBefore(Length + 1)

(* The loop. *)
LoopTypeOK ==
  /\ phase \in {"start", "loop", "write", "finished", "failed", "panicked"}
  /\ counters \in [Counter -> Nat]
  /\ seen \in [Enabled -> Seq(Nat)]

PhaseTells ==
  /\ phase = "start" => position = 0 /\ state = "open" /\ stage # "over"
  /\ phase = "loop" => state = "open" /\ stage = "built"
  /\ phase = "write" => state = "ended" /\ stage = "built" /\ finalized = Enabled
  /\ phase \in {"finished", "failed", "panicked"} => stage = "over"
  /\ written # {} => state = "ended"
  /\ counters["failures"] # 0 => phase = "failed" /\ state = "open"

IInv ==
  /\ GraphInv
  /\ StreamInv
  /\ LoopTypeOK
  /\ PhaseTells
  /\ CountersAccountForStream
  /\ OutputsAreOfWholeTrace
-----------------------------------------------------------------------------
(* The construction of the graph. *)

LEMMA TracesAreDirectories ==
  ASSUME GraphTypeOK, NEW i \in DOMAIN TracesFound
  PROVE  TracesFound[i] \subseteq Directory
<1>1. disk.traces \subseteq Directory
  BY StartupAssumption DEF GraphTypeOK, Disk
<1>. QED
  BY <1>1 DEF TracesFound

LEMMA AppendFacts ==
  ASSUME NEW S, NEW s \in Seq(S), NEW x \in S
  PROVE  /\ Append(s, x) \in Seq(S)
         /\ Append(s, x) # << >>
         /\ Len(s) \in Nat
         /\ DOMAIN s = 1..Len(s)
         /\ DOMAIN Append(s, x) = 1..(Len(s) + 1)
         /\ \A i \in 1..Len(s) : Append(s, x)[i] = s[i]
         /\ Append(s, x)[Len(s) + 1] = x
  OBVIOUS

(* What is appended to a sequence that does not hold it leaves the sequence without
   repetition. *)
LEMMA AppendNew ==
  ASSUME NEW S, NEW s \in Seq(S), NEW x \in S, x \notin ToSet(s),
         \A n, m \in DOMAIN s : s[n] = s[m] => n = m
  PROVE  \A n, m \in DOMAIN Append(s, x) : Append(s, x)[n] = Append(s, x)[m] => n = m
<1>. DEFINE t == Append(s, x)
<1>1. /\ Len(s) \in Nat /\ DOMAIN s = 1..Len(s) /\ DOMAIN t = 1..(Len(s) + 1)
      /\ \A i \in 1..Len(s) : t[i] = s[i]
      /\ t[Len(s) + 1] = x
  BY AppendFacts
<1>2. \A i \in 1..Len(s) : s[i] # x
  BY <1>1 DEF ToSet
<1>. HIDE DEF t
<1>3. ASSUME NEW n \in DOMAIN t, NEW m \in DOMAIN t, t[n] = t[m]
      PROVE  n = m
  <2>1. n \in 1..Len(s) \/ n = Len(s) + 1
    BY <1>1
  <2>2. m \in 1..Len(s) \/ m = Len(s) + 1
    BY <1>1
  <2>. QED
    BY <1>1, <1>2, <1>3, <2>1, <2>2
<1>. QED
  BY <1>3 DEF t

LEMMA AppendToSet ==
  ASSUME NEW S, NEW s \in Seq(S), NEW x \in S
  PROVE  ToSet(Append(s, x)) = ToSet(s) \cup {x}
<1>. DEFINE t == Append(s, x)
<1>1. /\ Len(s) \in Nat /\ DOMAIN s = 1..Len(s) /\ DOMAIN t = 1..(Len(s) + 1)
      /\ \A i \in 1..Len(s) : t[i] = s[i]
      /\ t[Len(s) + 1] = x
  BY AppendFacts
<1>. HIDE DEF t
<1>2. \A i \in DOMAIN t : i \in 1..Len(s) \/ i = Len(s) + 1
  BY <1>1
<1>3. 1..Len(s) \subseteq DOMAIN t /\ Len(s) + 1 \in DOMAIN t
  BY <1>1
<1>4. ToSet(t) = ToSet(s) \cup {x}
  BY <1>1, <1>2, <1>3 DEF ToSet
<1>. QED
  BY <1>4 DEF t

LEMMA DismantledKeeps ==
  ASSUME GraphInv, NEW refs, Dismantled(refs)
  PROVE  GraphInv'
<1>1. << >> \in Seq(Directory) /\ << >> \in Seq(Nat \X Nat) /\ DOMAIN << >> = {}
  OBVIOUS
<1>. QED
  BY <1>1 DEF GraphInv, GraphTypeOK, SlotIsHeld, GraphGrows, NoTraceLost, Dismantled

LEMMA SameTraces ==
  ASSUME UNCHANGED <<command, disk>>
  PROVE  TracesFound' = TracesFound /\ AllFound' = AllFound
<1>1. TracesFound' = TracesFound
  BY DEF TracesFound, Walked
<1>. QED
  BY <1>1 DEF AllFound

LEMMA FindTracesKeeps ==
  ASSUME GraphInv, FindTraces
  PROVE  GraphInv'
<1>1. \A i \in DOMAIN (found') : found'[i] \subseteq Directory
  BY TracesAreDirectories DEF GraphInv, FindTraces
<1>2. \E i \in DOMAIN (found') : found'[i] # {}
  BY DEF FindTraces, TracesSuffice
<1>3. NoTraceLost'
  <2>1. sources' = << >> /\ ToSet(<< >>) = {} /\ stage' = "sources"
    BY DEF GraphInv, NoTraceLost, FindTraces, ToSet
  <2>. QED
    BY <2>1, SameTraces DEF NoTraceLost, AllFound, FindTraces
<1>. QED
  BY <1>1, <1>2, <1>3 DEF GraphInv, GraphTypeOK, SlotIsHeld, GraphGrows, FindTraces

LEMMA AddSourceKeeps ==
  ASSUME GraphInv, AddSource
  PROVE  GraphInv'
<1>1. PICK i \in DOMAIN found : \E d \in found[i] :
        sources' = Append(sources, d) /\ found' = [found EXCEPT ![i] = @ \ {d}]
  BY DEF AddSource
<1>2. PICK d \in found[i] :
        sources' = Append(sources, d) /\ found' = [found EXCEPT ![i] = @ \ {d}]
  BY <1>1
<1>3. d \in Directory
  BY DEF GraphInv, GraphTypeOK
<1>4. sources' \in Seq(Directory) /\ sources' # << >>
  BY <1>2, <1>3, AppendFacts DEF GraphInv, GraphTypeOK
<1>5. \A j \in DOMAIN (found') : found'[j] \subseteq Directory
  BY <1>2 DEF GraphInv, GraphTypeOK
<1>6. NoTraceLost'
  <2>1. ToSet(sources') = ToSet(sources) \cup {d}
    BY <1>2, <1>3, AppendToSet DEF GraphInv, GraphTypeOK
  <2>2. DOMAIN (found') = DOMAIN found
        /\ \A j \in DOMAIN found : found'[j] = IF j = i THEN found[i] \ {d} ELSE found[j]
    BY <1>2
  <2>3. (UNION {found'[j] : j \in DOMAIN (found')}) \cup {d}
          = UNION {found[j] : j \in DOMAIN found}
    BY <2>2
  <2>. QED
    BY <2>1, <2>3, SameTraces DEF GraphInv, NoTraceLost, AddSource
<1>. QED
  BY <1>4, <1>5, <1>6 DEF GraphInv, GraphTypeOK, SlotIsHeld, GraphGrows, AddSource

LEMMA AddMuxerKeeps ==
  ASSUME GraphInv, AddMuxer
  PROVE  GraphInv'
<1>1. NoTraceLost'
  BY SameTraces DEF GraphInv, NoTraceLost, AddMuxer
<1>. QED
  BY <1>1 DEF GraphInv, GraphTypeOK, SlotIsHeld, GraphGrows, AddMuxer

LEMMA UnconnectedType ==
  ASSUME GraphTypeOK, NEW l \in Unconnected
  PROVE  l \in Nat \X Nat /\ l \notin ToSet(links)
<1>1. PICK i \in DOMAIN sources : l \in {i} \X (1..PortsOf[sources[i]])
  BY DEF Unconnected
<1>2. i \in Nat /\ PortsOf[sources[i]] \in Nat
  BY StartupAssumption DEF GraphTypeOK
<1>3. l \notin ToSet(links)
  BY DEF Unconnected
<1>4. 1..PortsOf[sources[i]] \subseteq Nat
  BY <1>2
<1>. QED
  BY <1>1, <1>2, <1>3, <1>4

LEMMA ConnectPortKeeps ==
  ASSUME GraphInv, ConnectPort
  PROVE  GraphInv'
<1>1. PICK l \in Unconnected : links' = Append(links, l)
  BY DEF ConnectPort
<1>2. l \in Nat \X Nat /\ l \notin ToSet(links)
  BY UnconnectedType DEF GraphInv
<1>3. links \in Seq(Nat \X Nat) /\ \A n, m \in DOMAIN links : links[n] = links[m] => n = m
  BY DEF GraphInv, GraphTypeOK, GraphGrows
<1>4. links' \in Seq(Nat \X Nat)
  BY <1>1, <1>2, <1>3
<1>5. \A n, m \in DOMAIN (links') : links'[n] = links'[m] => n = m
  <2>. DEFINE Port == Nat \X Nat
  <2>1. links \in Seq(Port) /\ l \in Port
    BY <1>2, <1>3
  <2>. HIDE DEF Port
  <2>2. \A n, m \in DOMAIN Append(links, l) :
          Append(links, l)[n] = Append(links, l)[m] => n = m
    BY <1>2, <1>3, <2>1, AppendNew
  <2>. QED
    BY <1>1, <2>2
<1>6. NoTraceLost'
  BY SameTraces DEF GraphInv, NoTraceLost, ConnectPort
<1>. QED
  BY <1>4, <1>5, <1>6 DEF GraphInv, GraphTypeOK, SlotIsHeld, GraphGrows, ConnectPort

LEMMA AddSinkKeeps ==
  ASSUME GraphInv, AddSink
  PROVE  GraphInv'
<1>1. Unconnected' = {}
  BY DEF AddSink, Unconnected
<1>2. NoTraceLost'
  BY SameTraces DEF GraphInv, NoTraceLost, AddSink
<1>. QED
  BY <1>1, <1>2 DEF GraphInv, GraphTypeOK, SlotIsHeld, GraphGrows, AddSink

LEMMA ConnectSinkKeeps ==
  ASSUME GraphInv, ConnectSink
  PROVE  GraphInv'
<1>1. Unconnected' = Unconnected
  BY DEF ConnectSink, Unconnected
<1>2. NoTraceLost'
  BY SameTraces DEF GraphInv, NoTraceLost, ConnectSink
<1>. QED
  BY <1>1, <1>2 DEF GraphInv, GraphTypeOK, SlotIsHeld, GraphGrows, ConnectSink

LEMMA StartingKeeps ==
  ASSUME GraphInv, Starting
  PROVE  GraphInv'
  BY FindTracesKeeps, AddSourceKeeps, AddMuxerKeeps, ConnectPortKeeps, AddSinkKeeps,
     ConnectSinkKeeps DEF Starting

LEMMA GraphAtRest ==
  ASSUME GraphInv, UNCHANGED startupVars
  PROVE  GraphInv'
<1>1. Unconnected' = Unconnected
  BY DEF startupVars, Unconnected
<1>2. NoTraceLost'
  BY SameTraces DEF GraphInv, NoTraceLost, startupVars
<1>. QED
  BY <1>1, <1>2 DEF GraphInv, GraphTypeOK, SlotIsHeld, GraphGrows, startupVars

(* What a step of the loop does to the graph. *)
GraphMoves ==
  \/ Starting
  \/ SearchFails
  \/ SearchPanics
  \/ ConstructionFails
  \/ IteratorDropped
  \/ UNCHANGED startupVars

LEMMA GraphKept ==
  ASSUME GraphInv, GraphMoves
  PROVE  GraphInv' /\ command' = command
<1>1. GraphInv'
  BY StartingKeeps, DismantledKeeps, GraphAtRest
     DEF GraphMoves, SearchFails, SearchPanics, ConstructionFails, IteratorDropped
<1>2. command' = command
  BY DEF GraphMoves, Starting, FindTraces, AddSource, AddMuxer, ConnectPort, AddSink,
         ConnectSink, SearchFails, SearchPanics, ConstructionFails, IteratorDropped, Dismantled,
         startupVars
<1>. QED
  BY <1>1, <1>2

LEMMA SameRequests ==
  ASSUME command' = command
  PROVE  Requested' = Requested /\ Enabled' = Enabled
  BY DEF Requested, Enabled
-----------------------------------------------------------------------------
(* The stream. *)

LEMMA DeliverKeeps ==
  ASSUME StreamInv, Deliver
  PROVE  /\ StreamInv'
         /\ state = "open" /\ state' = "open"
         /\ position' \in Nat /\ position' > 0
  BY EventStreamAssumption DEF StreamInv, StreamTypeOK, Deliver

LEMMA StreamKept ==
  ASSUME StreamInv, StreamNext \/ UNCHANGED streamVars
  PROVE  StreamInv'
<1>1. CASE End
  BY <1>1 DEF StreamInv, StreamTypeOK, End, OnlyBlanksBefore
<1>2. CASE Failure
  BY <1>2 DEF StreamInv, StreamTypeOK, Failure
<1>3. CASE UNCHANGED streamVars
  BY <1>3 DEF StreamInv, StreamTypeOK, OnlyBlanksBefore, streamVars
<1>. QED
  BY <1>1, <1>2, <1>3, DeliverKeeps DEF StreamNext

LEMMA OfIsFinite ==
  ASSUME StreamTypeOK, NEW kind
  PROVE  IsFiniteSet(Of(kind)) /\ Cardinality(Of(kind)) \in Nat
<1>1. position \in Nat
  BY EventStreamAssumption DEF StreamTypeOK
<1>2. IsFiniteSet(1..position) /\ Of(kind) \in SUBSET (1..position)
  BY <1>1, FS_Interval DEF Of
<1>3. IsFiniteSet(Of(kind))
  BY <1>2, FS_Subset
<1>. QED
  BY <1>3, FS_CardinalityType

(* A message delivered is one more of its kind: the slots passed over are blank. *)
LEMMA OneMore ==
  ASSUME StreamTypeOK, Deliver, UNCHANGED kinds, NEW kind
  PROVE  Cardinality(Of(kind)') =
           Cardinality(Of(kind)) + (IF kinds[position'] = kind THEN 1 ELSE 0)
<1>. DEFINE i == position'
<1>1. /\ i \in (1..Length) \ Blank
      /\ position < i
      /\ \A j \in 1..Length : position < j /\ j < i => j \in Blank
      /\ Length \in Nat /\ position \in Nat /\ position <= Length
  BY EventStreamAssumption DEF Deliver, OnlyBlanksBefore, StreamTypeOK
<1>2. Of(kind)' = {j \in (1..i) \ Blank : kinds[j] = kind}
  BY DEF Of
<1>. HIDE DEF i
<1>3. (1..i) \ Blank = ((1..position) \ Blank) \cup {i}
  BY <1>1
<1>4. i \notin Of(kind)
  BY <1>1 DEF Of
<1>5. CASE kinds[i] = kind
  <2>1. Of(kind)' = Of(kind) \cup {i}
    BY <1>2, <1>3, <1>5 DEF Of
  <2>. QED
    BY <2>1, <1>4, <1>5, OfIsFinite, FS_AddElement DEF i
<1>6. CASE kinds[i] # kind
  <2>1. Of(kind)' = Of(kind)
    BY <1>2, <1>3, <1>6 DEF Of
  <2>. QED
    BY <2>1, <1>6, OfIsFinite DEF i
<1>. QED
  BY <1>5, <1>6

LEMMA NoneYet ==
  ASSUME NEW kind, position = 0
  PROVE  Cardinality(Of(kind)) = 0
<1>1. Of(kind) = {}
  BY DEF Of
<1>. QED
  BY <1>1, FS_EmptySet
-----------------------------------------------------------------------------
(* What a requested output reads is computed. *)
LEMMA ReadsEnabled ==
  ASSUME NEW i \in 1..Len(Output), Output[i] \in Requested
  PROVE  Reads[Output[i]] \in Enabled
<1>1. i \in 1..9
  BY DEF Output
<1>2. Output[i] \in {"message_latency", "callback_duration", "callback_publications",
                     "callback_dependency", "message_take_to_callback_latency", "utilization",
                     "real_utilization", "spin_duration", "dependency_graph"}
  BY <1>1 DEF Output
<1>3. \A o \in {"message_latency", "callback_duration", "callback_publications",
                "callback_dependency", "message_take_to_callback_latency", "utilization",
                "real_utilization", "spin_duration", "dependency_graph"} :
        Reads[o] \in DOMAIN EnabledBy /\ o \in EnabledBy[Reads[o]]
  BY DEF Reads, EnabledBy
<1>. QED
  BY <1>2, <1>3 DEF Enabled

LEMMA OutputsDiffer ==
  ASSUME NEW i \in 1..Len(Output), NEW j \in 1..Len(Output), Output[i] = Output[j]
  PROVE  i = j
<1>1. i \in 1..9 /\ j \in 1..9
  BY DEF Output
<1>. QED
  BY <1>1 DEF Output
-----------------------------------------------------------------------------
(* The loop.  What a step leaves alone. *)

(* Without a panic every event is counted, and all analyses have processed the same. *)
InStep ==
  /\ Uncounted = 0
  /\ \A a \in Enabled : Len(seen[a]) = counters["processed"]
  /\ \A a, b \in Enabled : seen[a] = seen[b]

OthersCounted ==
  /\ counters["otherMessages"] = Cardinality(Of("lost"))
  /\ counters["otherEvents"] = Cardinality(Of("foreign"))
  /\ counters["failures"] <= 1

LEMMA AnalysesListed ==
  ASSUME NEW a \in Enabled
  PROVE  \E n \in DOMAIN Analyses : n \in Nat /\ Analyses[n] = a
<1>1. a \in {"MessageLatency", "CallbackDuration", "CallbackDependency",
             "MessageTakeToCallbackLatency", "DependencyGraph", "SpinDuration"}
  BY DEF Enabled, EnabledBy
<1>2. DOMAIN Analyses = 1..6
  BY DEF Analyses
<1>. QED
  BY <1>1, <1>2 DEF Analyses

LEMMA AnalysesDiffer ==
  ASSUME NEW m \in DOMAIN Analyses, NEW n \in DOMAIN Analyses, Analyses[m] = Analyses[n]
  PROVE  m = n /\ m \in Nat
<1>1. m \in 1..6 /\ n \in 1..6
  BY DEF Analyses
<1>. QED
  BY <1>1 DEF Analyses

LEMMA CountedWithoutPanic ==
  ASSUME CountersAccountForStream, phase # "panicked"
  PROVE  InStep /\ OthersCounted
<1>1. Uncounted = 0
  BY DEF CountersAccountForStream
<1>2. ASSUME NEW a \in Enabled, NEW b \in Enabled
      PROVE  seen[a] = seen[b] /\ Len(seen[a]) = counters["processed"]
  <2>1. PICK m \in DOMAIN Analyses : m \in Nat /\ Analyses[m] = a
    BY AnalysesListed
  <2>2. PICK n \in DOMAIN Analyses : n \in Nat /\ Analyses[n] = b
    BY AnalysesListed
  <2>3. CASE m <= n
    BY <2>1, <2>2, <2>3 DEF CountersAccountForStream
  <2>4. CASE n <= m
    BY <2>1, <2>2, <2>4 DEF CountersAccountForStream
  <2>. QED
    BY <2>1, <2>2, <2>3, <2>4
<1>. QED
  BY <1>1, <1>2 DEF InStep, OthersCounted, CountersAccountForStream

LEMMA CountedInStep ==
  ASSUME InStep, OthersCounted
  PROVE  CountersAccountForStream
  BY DEF InStep, OthersCounted, CountersAccountForStream

LEMMA CountedInStepNext ==
  ASSUME InStep', OthersCounted'
  PROVE  CountersAccountForStream'
  BY DEF InStep, OthersCounted, CountersAccountForStream

LEMMA CountersStill ==
  ASSUME CountersAccountForStream, UNCHANGED <<position, kinds, counters, seen>>,
         Enabled' = Enabled, phase # "panicked"
  PROVE  CountersAccountForStream'
<1>1. \A kind : Of(kind)' = Of(kind)
  BY DEF Of
<1>2. Uncounted' = Uncounted
  BY <1>1 DEF Uncounted
<1>3. InStep' /\ OthersCounted'
  BY <1>1, <1>2, CountedWithoutPanic DEF InStep, OthersCounted
<1>. QED
  BY <1>3, CountedInStepNext

LEMMA NothingWritten ==
  ASSUME written' = {}
  PROVE  OutputsAreOfWholeTrace'
  BY DEF OutputsAreOfWholeTrace

LEMMA LoopStarts ==
  ASSUME IInv, Start \/ StartFails \/ Begin, GraphInv', command' = command
  PROVE  LoopTypeOK' /\ PhaseTells' /\ CountersAccountForStream' /\ OutputsAreOfWholeTrace'
<1>1. /\ phase = "start" /\ position = 0 /\ state = "open" /\ written = {} /\ stage # "over"
      /\ counters["failures"] = 0
  BY DEF IInv, PhaseTells, Start, StartFails, Begin
<1>2. UNCHANGED <<position, state, counters, seen, finalized, written>>
  BY DEF Start, StartFails, Begin, streamVars, loopVars
<1>3. Enabled' = Enabled
  BY SameRequests
<1>4. phase' \in {"start", "loop", "failed", "panicked"}
  BY <1>1 DEF Start, StartFails, Begin, loopVars
<1>5. LoopTypeOK'
  BY <1>2, <1>3, <1>4 DEF IInv, LoopTypeOK
<1>6. PhaseTells'
  <2>1. phase' = "start" => stage' # "over"
    BY <1>1 DEF Start, StartFails, Begin, Starting, FindTraces, AddSource, AddMuxer,
                ConnectPort, AddSink, ConnectSink
  <2>2. phase' = "loop" => stage' = "built"
    BY <1>1 DEF Start, StartFails, Begin, startupVars, loopVars
  <2>3. phase' \in {"failed", "panicked"} => stage' = "over"
    BY <1>1 DEF Start, StartFails, Begin, SearchFails, SearchPanics, ConstructionFails,
                Dismantled, loopVars
  <2>. QED
    BY <1>1, <1>2, <1>4, <2>1, <2>2, <2>3 DEF PhaseTells
<1>7. CountersAccountForStream'
  <2>1. \A kind : Of(kind)' = {} /\ Of(kind) = {}
    BY <1>1, <1>2 DEF Of
  <2>2. Uncounted' = Uncounted
    BY <1>2, <2>1 DEF Uncounted
  <2>3. InStep' /\ OthersCounted'
    BY <1>1, <1>2, <1>3, <2>1, <2>2, CountedWithoutPanic DEF IInv, InStep, OthersCounted
  <2>. QED
    BY <2>3, CountedInStepNext
<1>8. OutputsAreOfWholeTrace'
  BY <1>1, <1>2, NothingWritten
<1>. QED
  BY <1>5, <1>6, <1>7, <1>8

(* The steps that are delivered a message. *)
Consumed ==
  \/ SkipFrame \/ SkipCounted
  \/ Processed \/ Unsupported \/ ProcessingFails \/ ProcessingPanics
  \/ \E n \in DOMAIN Analyses : AnalysisPanics(n)

(* An analysis that panics is the first of those that have not processed the event. *)
LEMMA PanicInTurn ==
  ASSUME Uncounted' = 0, phase' = "panicked", Enabled' = Enabled,
         OthersCounted', NEW n \in DOMAIN Analyses,
         NEW s \in Seq(Nat), Append(s, position') \in Seq(Nat),
         Len(Append(s, position')) = counters'["processed"],
         Len(s) = counters'["processed"] - 1,
         \A a \in Enabled : seen'[a] = IF a \in Before(n) THEN Append(s, position') ELSE s
  PROVE  CountersAccountForStream'
<1>1. ASSUME NEW k \in DOMAIN Analyses, NEW m \in DOMAIN Analyses, k <= m,
             {Analyses[k], Analyses[m]} \subseteq Enabled
      PROVE  \/ seen'[Analyses[m]] = seen'[Analyses[k]]
                /\ Len(seen'[Analyses[k]]) \in {counters'["processed"], counters'["processed"] - 1}
             \/ /\ seen'[Analyses[k]] = Append(seen'[Analyses[m]], position')
                /\ Len(seen'[Analyses[k]]) = counters'["processed"]
  <2>1. k \in Nat /\ m \in Nat /\ n \in Nat /\ k > 0
    BY AnalysesDiffer DEF Analyses
  <2>2. Analyses[m] \in Before(n) => Analyses[k] \in Before(n)
    <3>1. SUFFICES ASSUME Analyses[m] \in Before(n) PROVE Analyses[k] \in Before(n)
      OBVIOUS
    <3>2. PICK j \in 1..(n - 1) : Analyses[j] = Analyses[m]
      BY <3>1 DEF Before
    <3>3. j \in DOMAIN Analyses
      BY <2>1 DEF Analyses
    <3>4. j = m
      BY <3>2, <3>3, AnalysesDiffer
    <3>5. k \in 1..(n - 1)
      BY <1>1, <2>1, <3>4
    <3>. QED
      BY <3>5 DEF Before
  <2>3. /\ seen'[Analyses[k]] = IF Analyses[k] \in Before(n) THEN Append(s, position') ELSE s
        /\ seen'[Analyses[m]] = IF Analyses[m] \in Before(n) THEN Append(s, position') ELSE s
    BY <1>1
  <2>. QED
    BY <2>2, <2>3
<1>2. /\ Uncounted' \in {0, 1} /\ ~(Uncounted' = 1)
  OBVIOUS
<1>. QED
  BY <1>1, <1>2 DEF CountersAccountForStream, OthersCounted

LEMMA ConsumedCounts ==
  ASSUME IInv, Consumed, GraphInv', command' = command
  PROVE  LoopTypeOK' /\ CountersAccountForStream'
<1>1. /\ phase = "loop" /\ state = "open" /\ state' = "open" /\ position' \in Nat /\ position' > 0
      /\ counters \in [Counter -> Nat] /\ counters["failures"] = 0
      /\ seen \in [Enabled -> Seq(Nat)]
      /\ Enabled' = Enabled
      /\ UNCHANGED kinds
  BY DeliverKeeps, SameRequests
     DEF IInv, PhaseTells, LoopTypeOK, Consumed, SkipFrame, SkipCounted, Processed, Unsupported,
         ProcessingFails, ProcessingPanics, AnalysisPanics, Delivered
<1>2. ASSUME NEW kind
      PROVE  Cardinality(Of(kind)') =
               Cardinality(Of(kind)) + (IF kinds[position'] = kind THEN 1 ELSE 0)
  BY <1>1, OneMore
     DEF IInv, StreamInv, Consumed, SkipFrame, SkipCounted, Processed, Unsupported,
         ProcessingFails, ProcessingPanics, AnalysisPanics, Delivered
<1>3. \A kind : Cardinality(Of(kind)) \in Nat
  BY OfIsFinite DEF IInv, StreamInv
<1>4. InStep /\ OthersCounted
  BY <1>1, CountedWithoutPanic DEF IInv
<1>5. /\ counters["otherMessages"] = Cardinality(Of("lost"))
      /\ counters["otherEvents"] = Cardinality(Of("foreign"))
      /\ counters["processed"] + counters["unsupported"] + counters["failures"]
           = Cardinality(Of("event"))
      /\ \A a \in Enabled : Len(seen[a]) = counters["processed"]
      /\ \A a, b \in Enabled : seen[a] = seen[b]
  BY <1>1, <1>3, <1>4 DEF InStep, OthersCounted, Uncounted, Counter
<1>6. /\ Cardinality(Of("lost")') = Cardinality(Of("lost"))
             + (IF kinds[position'] = "lost" THEN 1 ELSE 0)
      /\ Cardinality(Of("foreign")') = Cardinality(Of("foreign"))
             + (IF kinds[position'] = "foreign" THEN 1 ELSE 0)
      /\ Cardinality(Of("event")') = Cardinality(Of("event"))
             + (IF kinds[position'] = "event" THEN 1 ELSE 0)
      /\ Cardinality(Of("lost")) \in Nat /\ Cardinality(Of("foreign")) \in Nat
      /\ Cardinality(Of("event")) \in Nat
  BY <1>2, <1>3
<1>7. CASE SkipFrame
  <2>1. /\ kinds[position'] = "frame" /\ UNCHANGED <<counters, seen>> /\ phase' = "loop"
    BY <1>1, <1>7 DEF SkipFrame, Delivered, RunGoesOn
  <2>2. InStep' /\ OthersCounted'
    BY <1>1, <1>5, <1>6, <2>1 DEF InStep, OthersCounted, Uncounted, Counter
  <2>. QED
    BY <1>1, <2>1, <2>2, CountedInStepNext DEF LoopTypeOK
<1>8. CASE SkipCounted
  <2>1. PICK kind \in {"lost", "foreign"} :
          kinds[position'] = kind /\ Count(Counted[kind])
    BY <1>8 DEF SkipCounted, Delivered, Counted
  <2>2. UNCHANGED seen /\ phase' = "loop"
    BY <1>1, <1>8 DEF SkipCounted, RunGoesOn
  <2>3. counters' \in [Counter -> Nat]
    BY <1>1, <2>1 DEF Count, Counted, Counter
  <2>5. InStep' /\ OthersCounted'
    <3>1. CASE kind = "lost"
      <4>1. counters' = [counters EXCEPT !["otherMessages"] = @ + 1]
        BY <2>1, <3>1 DEF Count, Counted
      <4>. QED
        BY <1>1, <1>5, <1>6, <2>1, <2>2, <3>1, <4>1 DEF InStep, OthersCounted, Uncounted, Counter
    <3>2. CASE kind = "foreign"
      <4>1. counters' = [counters EXCEPT !["otherEvents"] = @ + 1]
        BY <2>1, <3>2 DEF Count, Counted
      <4>. QED
        BY <1>1, <1>5, <1>6, <2>1, <2>2, <3>2, <4>1 DEF InStep, OthersCounted, Uncounted, Counter
    <3>. QED
      BY <2>1, <3>1, <3>2
  <2>. QED
    BY <1>1, <2>2, <2>3, <2>5, CountedInStepNext DEF LoopTypeOK
<1>9. CASE Processed
  <2>1. /\ kinds[position'] = "event" /\ phase' = "loop"
        /\ counters' = [counters EXCEPT !["processed"] = @ + 1]
        /\ seen' = [a \in Enabled |-> Append(seen[a], position')]
    BY <1>1, <1>9 DEF Processed, Delivered, RunGoesOn, Count, ShownToAll
  <2>2. \A a \in Enabled : seen'[a] \in Seq(Nat) /\ Len(seen'[a]) = Len(seen[a]) + 1
    BY <1>1, <2>1
  <2>3. seen' \in [Enabled -> Seq(Nat)]
    BY <2>1, <2>2
  <2>4. /\ counters' \in [Counter -> Nat]
        /\ counters'["processed"] = counters["processed"] + 1
        /\ \A c \in Counter : c # "processed" => counters'[c] = counters[c]
    BY <1>1, <2>1 DEF Counter
  <2>5. \A a \in Enabled' : Len(seen'[a]) = counters'["processed"]
    BY <1>1, <1>5, <2>2, <2>4
  <2>6. \A a, b \in Enabled' : seen'[a] = seen'[b]
    BY <1>1, <1>5, <2>1
  <2>7. Uncounted' = 0 /\ OthersCounted'
    BY <1>1, <1>5, <1>6, <2>1, <2>4 DEF Uncounted, OthersCounted, Counter
  <2>. QED
    BY <1>1, <2>1, <2>3, <2>4, <2>5, <2>6, <2>7, CountedInStepNext DEF LoopTypeOK, InStep
<1>10. CASE Unsupported
  <2>1. /\ kinds[position'] = "event" /\ phase' = "loop" /\ UNCHANGED seen
        /\ counters' = [counters EXCEPT !["unsupported"] = @ + 1]
    BY <1>1, <1>10 DEF Unsupported, Delivered, RunGoesOn, Count
  <2>2. InStep' /\ OthersCounted'
    BY <1>1, <1>5, <1>6, <2>1 DEF InStep, OthersCounted, Uncounted, Counter
  <2>3. counters' \in [Counter -> Nat]
    BY <1>1, <2>1 DEF Counter
  <2>. QED
    BY <1>1, <2>1, <2>2, <2>3, CountedInStepNext DEF LoopTypeOK
<1>11. CASE ProcessingFails
  <2>1. /\ kinds[position'] = "event" /\ phase' = "failed" /\ UNCHANGED seen
        /\ counters' = [counters EXCEPT !["failures"] = @ + 1]
    BY <1>1, <1>11 DEF ProcessingFails, Delivered, RunEnds, Count
  <2>2. InStep' /\ OthersCounted'
    BY <1>1, <1>5, <1>6, <2>1 DEF InStep, OthersCounted, Uncounted, Counter
  <2>3. counters' \in [Counter -> Nat]
    BY <1>1, <2>1 DEF Counter
  <2>. QED
    BY <1>1, <2>1, <2>2, <2>3, CountedInStepNext DEF LoopTypeOK
<1>12. CASE ProcessingPanics
  <2>1. /\ kinds[position'] = "event" /\ phase' = "panicked" /\ UNCHANGED <<counters, seen>>
    BY <1>1, <1>12 DEF ProcessingPanics, Delivered, RunEnds
  <2>2. Uncounted' = 1 /\ OthersCounted'
    BY <1>1, <1>5, <1>6, <2>1 DEF OthersCounted, Uncounted, Counter
  <2>3. CountersAccountForStream'
    BY <1>1, <1>5, <2>1, <2>2 DEF CountersAccountForStream, OthersCounted
  <2>. QED
    BY <1>1, <2>1, <2>3 DEF LoopTypeOK
<1>13. CASE \E n \in DOMAIN Analyses : AnalysisPanics(n)
  <2>1. PICK n \in DOMAIN Analyses : AnalysisPanics(n)
    BY <1>13
  <2>2. /\ kinds[position'] = "event" /\ phase' = "panicked" /\ Analyses[n] \in Enabled
        /\ counters' = [counters EXCEPT !["processed"] = @ + 1]
        /\ seen' = [a \in Enabled |-> IF a \in Before(n) THEN Append(seen[a], position')
                                      ELSE seen[a]]
    BY <1>1, <2>1 DEF AnalysisPanics, Delivered, RunEnds, Count, ShownBefore
  <2>3. PICK s : s = seen[Analyses[n]]
    OBVIOUS
  <2>4. /\ s \in Seq(Nat) /\ Append(s, position') \in Seq(Nat)
        /\ Len(s) \in Nat /\ Len(Append(s, position')) = Len(s) + 1
        /\ Len(s) = counters["processed"]
        /\ \A a \in Enabled : seen[a] = s
    BY <1>1, <1>5, <2>2, <2>3
  <2>5. /\ counters' \in [Counter -> Nat]
        /\ counters'["processed"] = counters["processed"] + 1
        /\ \A c \in Counter : c # "processed" => counters'[c] = counters[c]
    BY <1>1, <2>2 DEF Counter
  <2>6. Uncounted' = 0 /\ OthersCounted'
    BY <1>1, <1>5, <1>6, <2>2, <2>5 DEF Uncounted, OthersCounted, Counter
  <2>7. \A a \in Enabled : seen'[a] = IF a \in Before(n) THEN Append(s, position') ELSE s
    BY <2>2, <2>4
  <2>8. seen' \in [Enabled -> Seq(Nat)]
    BY <2>2, <2>4, <2>7
  <2>9. CountersAccountForStream'
    <3>1. Len(Append(s, position')) = counters'["processed"] /\ Len(s) = counters'["processed"] - 1
      BY <2>4, <2>5
    <3>. QED
      BY <1>1, <2>2, <2>4, <2>6, <2>7, <3>1, PanicInTurn
  <2>. QED
    BY <1>1, <2>2, <2>5, <2>8, <2>9 DEF LoopTypeOK
<1>. QED
  BY <1>7, <1>8, <1>9, <1>10, <1>11, <1>12, <1>13 DEF Consumed

LEMMA ConsumedKeeps ==
  ASSUME IInv, Consumed, GraphInv', command' = command
  PROVE  PhaseTells' /\ OutputsAreOfWholeTrace'
<1>1. /\ phase = "loop" /\ state = "open" /\ state' = "open" /\ stage = "built"
      /\ written = {} /\ written' = {}
      /\ counters \in [Counter -> Nat] /\ counters["failures"] = 0
  BY DeliverKeeps
     DEF IInv, PhaseTells, LoopTypeOK, Consumed, SkipFrame, SkipCounted, Processed, Unsupported,
         ProcessingFails, ProcessingPanics, AnalysisPanics, Delivered
<1>2. \/ phase' = "loop" /\ stage' = "built"
      \/ phase' \in {"failed", "panicked"} /\ stage' = "over"
  BY <1>1 DEF Consumed, SkipFrame, SkipCounted, Processed, Unsupported, ProcessingFails,
              ProcessingPanics, AnalysisPanics, RunGoesOn, RunEnds, IteratorDropped, Dismantled,
              startupVars
<1>3. counters'["failures"] # 0 => phase' = "failed"
  BY <1>1 DEF Consumed, SkipFrame, SkipCounted, Processed, Unsupported, ProcessingFails,
              ProcessingPanics, AnalysisPanics, Count, Counted, Counter, RunEnds
<1>4. PhaseTells'
  BY <1>1, <1>2, <1>3 DEF PhaseTells
<1>. QED
  BY <1>1, <1>4, NothingWritten

(* The end of the stream, and the outputs. *)

Ending ==
  \/ StreamEnds \/ StreamFails
  \/ \E n \in DOMAIN Analyses : FinalizingPanics(n)

LEMMA LoopEnds ==
  ASSUME IInv, Ending, GraphInv', command' = command
  PROVE  LoopTypeOK' /\ PhaseTells' /\ CountersAccountForStream' /\ OutputsAreOfWholeTrace'
<1>1. /\ phase = "loop" /\ state = "open" /\ stage = "built" /\ written = {}
      /\ counters["failures"] = 0 /\ Enabled' = Enabled
  BY SameRequests DEF IInv, PhaseTells, Ending, StreamEnds, StreamFails, FinalizingPanics
<1>2. UNCHANGED <<position, kinds, counters, seen, written>>
  BY DEF Ending, StreamEnds, StreamFails, FinalizingPanics, End, Failure
<1>3. \/ phase' = "write" /\ state' = "ended" /\ stage' = "built" /\ finalized' = Enabled
      \/ phase' = "panicked" /\ state' \in {"ended", "failed"} /\ stage' = "over"
  BY <1>1 DEF Ending, StreamEnds, StreamFails, FinalizingPanics, End, Failure, RunEnds,
              IteratorDropped, Dismantled, startupVars
<1>4. LoopTypeOK'
  BY <1>1, <1>2, <1>3 DEF IInv, LoopTypeOK
<1>5. PhaseTells'
  BY <1>1, <1>2, <1>3 DEF PhaseTells
<1>6. CountersAccountForStream'
  BY <1>1, <1>2, <1>3, CountersStill DEF IInv
<1>7. OutputsAreOfWholeTrace'
  BY <1>1, <1>2, NothingWritten
<1>. QED
  BY <1>4, <1>5, <1>6, <1>7

(* An output due is written: run() finds what it unwraps. *)
LEMMA WrittenInOrder ==
  ASSUME IInv, NEW i \in 1..Len(Output), phase = "write", Due(i),
         written' = written \cup {Output[i]},
         UNCHANGED <<streamVars, counters, finalized>>, command' = command
  PROVE  OutputsAreOfWholeTrace'
<1>1. /\ state' = "ended" /\ counters'["failures"] = 0
      /\ state = "ended" /\ finalized = Enabled
  BY DEF IInv, PhaseTells, streamVars
<1>2. OnlyBlanksBefore(Length + 1)'
  BY <1>1 DEF IInv, StreamInv, streamVars, OnlyBlanksBefore
<1>3. Output[i] \in Requested \ written /\ Requested' = Requested
  BY SameRequests DEF Due
<1>4. \A o \in written' : Reads[o] \in finalized'
  BY <1>1, <1>3, ReadsEnabled DEF IInv, OutputsAreOfWholeTrace
<1>5. ASSUME NEW k \in 1..Len(Output), Output[k] \in written',
             NEW j \in 1..(k - 1), Output[j] \in Requested
      PROVE  Output[j] \in written'
  <2>1. CASE Output[k] \in written
    BY <1>5, <2>1 DEF IInv, OutputsAreOfWholeTrace
  <2>2. CASE Output[k] = Output[i]
    BY <1>5, <2>2, OutputsDiffer DEF Due
  <2>. QED
    BY <1>5, <2>1, <2>2
<1>. QED
  BY <1>1, <1>2, <1>3, <1>4, <1>5 DEF OutputsAreOfWholeTrace

LEMMA OutputsStill ==
  ASSUME IInv, phase = "write", UNCHANGED <<streamVars, counters, finalized, written>>,
         command' = command
  PROVE  OutputsAreOfWholeTrace'
<1>1. OnlyBlanksBefore(Length + 1)' /\ state' = "ended"
  BY DEF IInv, PhaseTells, StreamInv, streamVars, OnlyBlanksBefore
<1>2. Requested' = Requested
  BY SameRequests
<1>. QED
  BY <1>1, <1>2 DEF IInv, OutputsAreOfWholeTrace

Writing ==
  (\E i \in 1..Len(Output) : Write(i) \/ WritePanics(i) \/ WriteFails(i)) \/ Finish

LEMMA WritingKeeps ==
  ASSUME IInv, Writing, GraphInv', command' = command
  PROVE  LoopTypeOK' /\ PhaseTells' /\ CountersAccountForStream' /\ OutputsAreOfWholeTrace'
<1>1. /\ phase = "write" /\ state = "ended" /\ stage = "built" /\ finalized = Enabled
      /\ counters["failures"] = 0 /\ Enabled' = Enabled
  BY SameRequests DEF IInv, PhaseTells, Writing, Write, WritePanics, WriteFails, Finish
<1>2. UNCHANGED <<streamVars, position, state, kinds, counters, seen, finalized>>
  BY DEF Writing, Write, WritePanics, WriteFails, Finish, streamVars
<1>3. ASSUME NEW i \in 1..Len(Output), Write(i)
      PROVE  /\ Due(i) /\ written' = written \cup {Output[i]}
             /\ phase' = "write" /\ stage' = "built"
  BY <1>1, <1>3 DEF Write, RunGoesOn, startupVars
<1>4. ASSUME (\E i \in 1..Len(Output) : WritePanics(i) \/ WriteFails(i)) \/ Finish
      PROVE  /\ UNCHANGED written /\ phase' \in {"panicked", "failed", "finished"}
             /\ stage' = "over"
  BY <1>4 DEF WritePanics, WriteFails, Finish, RunEnds, IteratorDropped, Dismantled
<1>5. phase' \in {"write", "panicked", "failed", "finished"}
      /\ (phase' = "write" => stage' = "built") /\ (phase' # "write" => stage' = "over")
  BY <1>3, <1>4 DEF Writing
<1>6. LoopTypeOK'
  BY <1>1, <1>2, <1>5 DEF IInv, LoopTypeOK
<1>7. PhaseTells'
  BY <1>1, <1>2, <1>5 DEF PhaseTells
<1>8. CountersAccountForStream'
  BY <1>1, <1>2, <1>5, CountersStill DEF IInv
<1>9. OutputsAreOfWholeTrace'
  <2>1. ASSUME NEW i \in 1..Len(Output), Write(i) PROVE OutputsAreOfWholeTrace'
    BY <1>1, <1>2, <1>3, <2>1, WrittenInOrder
  <2>2. ASSUME UNCHANGED written PROVE OutputsAreOfWholeTrace'
    BY <1>1, <1>2, <2>2, OutputsStill
  <2>. QED
    BY <2>1, <2>2, <1>4 DEF Writing
<1>. QED
  BY <1>6, <1>7, <1>8, <1>9
-----------------------------------------------------------------------------
LEMMA InitHolds == Init => IInv
<1>. SUFFICES ASSUME Init PROVE IInv
  OBVIOUS
<1>1. GraphInv
  <2>1. << >> \in Seq(Directory) /\ << >> \in Seq(Nat \X Nat) /\ DOMAIN << >> = {}
    OBVIOUS
  <2>. QED
    BY <2>1 DEF Init, StartupInit, GraphInv, GraphTypeOK, SlotIsHeld, GraphGrows, NoTraceLost
<1>2. StreamInv
  BY EventStreamAssumption DEF Init, StreamInit, StreamInv, StreamTypeOK
<1>3. LoopTypeOK /\ PhaseTells
  BY DEF Init, StartupInit, StreamInit, LoopTypeOK, PhaseTells, Counter
<1>4. CountersAccountForStream
  <2>1. \A kind : Cardinality(Of(kind)) = 0
    BY NoneYet DEF Init, StreamInit
  <2>2. \A a \in Enabled : seen[a] = << >> /\ Len(seen[a]) = 0
    BY DEF Init
  <2>3. InStep /\ OthersCounted
    BY <2>1, <2>2 DEF Init, InStep, OthersCounted, Uncounted, Counter
  <2>. QED
    BY <2>3, CountedInStep
<1>5. OutputsAreOfWholeTrace
  BY DEF Init, OutputsAreOfWholeTrace
<1>. QED
  BY <1>1, <1>2, <1>3, <1>4, <1>5 DEF IInv

LEMMA StepMoves ==
  ASSUME Next
  PROVE  GraphMoves /\ (StreamNext \/ UNCHANGED streamVars)
  BY DEF Next, GraphMoves, StreamNext, Start, StartFails, Begin, SkipFrame, SkipCounted,
         Processed, Unsupported, ProcessingFails, ProcessingPanics, AnalysisPanics, Delivered, RunGoesOn,
         RunEnds, StreamEnds, FinalizingPanics, StreamFails, Write, WritePanics, WriteFails, Finish

LEMMA AtRest ==
  ASSUME IInv, UNCHANGED vars
  PROVE  IInv'
<1>1. UNCHANGED <<startupVars, streamVars, position, state, stage, kinds, phase, counters, seen,
                  finalized, written, command>>
  BY DEF vars, startupVars, streamVars, loopVars
<1>2. GraphInv' /\ StreamInv'
  BY <1>1, GraphAtRest, StreamKept DEF IInv
<1>3. Enabled' = Enabled /\ Requested' = Requested /\ \A kind : Of(kind)' = Of(kind)
  BY <1>1, SameRequests DEF Of
<1>4. LoopTypeOK' /\ PhaseTells'
  BY <1>1, <1>3 DEF IInv, LoopTypeOK, PhaseTells
<1>5. CountersAccountForStream'
  BY <1>1, <1>3 DEF IInv, CountersAccountForStream, Uncounted
<1>6. OutputsAreOfWholeTrace'
  BY <1>1, <1>3 DEF IInv, OutputsAreOfWholeTrace, OnlyBlanksBefore
<1>. QED
  BY <1>2, <1>4, <1>5, <1>6 DEF IInv

LEMMA StepKeeps == IInv /\ [Next]_vars => IInv'
<1>. SUFFICES ASSUME IInv, Next PROVE IInv'
  BY AtRest
<1>1. GraphInv' /\ StreamInv' /\ command' = command
  BY StepMoves, GraphKept, StreamKept DEF IInv
<1>2. CASE Start \/ StartFails \/ Begin
  BY <1>1, <1>2, LoopStarts DEF IInv
<1>3. CASE Consumed
  BY <1>1, <1>3, ConsumedCounts, ConsumedKeeps DEF IInv
<1>4. CASE Ending
  BY <1>1, <1>4, LoopEnds DEF IInv
<1>5. CASE Writing
  BY <1>1, <1>5, WritingKeeps DEF IInv
<1>. QED
  BY <1>2, <1>3, <1>4, <1>5 DEF Next, Consumed, Ending, Writing

LEMMA Inductive == Spec => []IInv
  BY InitHolds, StepKeeps, PTL DEF Spec
-----------------------------------------------------------------------------
(* ProcessedEventsIter loses no message: for traces of every length each message is in
   exactly one counter, and every enabled analysis has processed every processed event; a
   panic of the processor leaves the event in hand uncounted, one of an analysis counted
   but processed by the analyses before it only. *)
THEOREM CountersAlwaysAccount == Spec => []CountersAccountForStream
<1>1. IInv => CountersAccountForStream
  BY DEF IInv
<1>. QED
  BY <1>1, Inductive, PTL

(* run() writes an output only after the whole stream was processed without an error and
   the analysis the output reads was finalized, and in the order of its if-statements. *)
THEOREM OutputsAlwaysOfWholeTrace == Spec => []OutputsAreOfWholeTrace
<1>1. IInv => OutputsAreOfWholeTrace
  BY DEF IInv
<1>. QED
  BY <1>1, Inductive, PTL

(* No unwrap of run() panics while it writes: for every command line, the analysis the
   output that is due reads was created and finalized. *)
THEOREM RequestedAlwaysComputed == Spec => []RequestedIsComputed
<1>1. IInv => RequestedIsComputed
  BY ReadsEnabled DEF IInv, PhaseTells, RequestedIsComputed, IsComputed, Due
<1>. QED
  BY <1>1, Inductive, PTL

(* The graph run_once runs is complete, for every tree of directories and traces with or
   without streams: it has a sink, a source for every trace found, and every port of every
   source is connected to the muxer once. *)
THEOREM GraphAlwaysRunnable == Spec => []GraphIsRunnable
<1>1. IInv => GraphIsRunnable
  <2>. SUFFICES ASSUME IInv, phase = "loop" PROVE GraphIsRunnable
    BY DEF GraphIsRunnable
  <2>1. /\ hasSink /\ sources # << >> /\ Unconnected = {}
        /\ sources \in Seq(Directory) /\ links \in Seq(Nat \X Nat)
        /\ \A n, m \in DOMAIN links : links[n] = links[m] => n = m
    BY DEF IInv, PhaseTells, GraphInv, GraphTypeOK, SlotIsHeld, GraphGrows
  <2>2. ASSUME NEW i \in DOMAIN sources, NEW p \in 1..PortsOf[sources[i]]
        PROVE  /\ \E n \in DOMAIN links : links[n] = <<i, p>>
               /\ Cardinality({n \in DOMAIN links : links[n] = <<i, p>>}) = 1
    <3>1. <<i, p>> \in UNION {{j} \X (1..PortsOf[sources[j]]) : j \in DOMAIN sources}
      OBVIOUS
    <3>2. <<i, p>> \in ToSet(links)
      BY <2>1, <3>1 DEF Unconnected
    <3>3. PICK n \in DOMAIN links : links[n] = <<i, p>>
      BY <3>2 DEF ToSet
    <3>4. {m \in DOMAIN links : links[m] = <<i, p>>} = {n}
      BY <2>1, <3>3
    <3>. QED
      BY <3>3, <3>4, FS_Singleton
  <2>3. ASSUME NEW i \in DOMAIN sources, PortsOf[sources[i]] > 0
        PROVE  links # << >>
    <3>1. sources[i] \in Directory
      BY <2>1
    <3>2. 1 \in 1..PortsOf[sources[i]]
      BY <2>3, <3>1, StartupAssumption
    <3>3. PICK n \in DOMAIN links : TRUE
      BY <2>2, <3>2
    <3>. QED
      BY <3>3
  <2>4. ToSet(sources) = UNION {TracesFound[i] : i \in DOMAIN TracesFound}
    BY DEF IInv, PhaseTells, GraphInv, NoTraceLost, AllFound
  <2>. QED
    BY <2>1, <2>2, <2>3, <2>4 DEF GraphIsRunnable
<1>. QED
  BY <1>1, Inductive, PTL

(* The reference count of the slot that iterator and sink share: the slot outlives the
   sink, and every run that ends gives back what it took, but for a sink that was added
   and cannot be connected. *)
THEOREM SlotAlwaysReleased == Spec => SlotIsReleased
<1>1. IInv /\ [Next]_vars =>
        [ /\ hasSink' => slotRefs' > 1
          /\ stage' = "over" /\ stage # "sinkPort" => slotRefs' = 0 ]_vars
  <2>. SUFFICES ASSUME IInv, Next
                PROVE  /\ hasSink' => slotRefs' > 1
                       /\ stage' = "over" /\ stage # "sinkPort" => slotRefs' = 0
    OBVIOUS
  <2>1. GraphInv'
    BY StepKeeps DEF IInv
  <2>2. hasSink' => slotRefs' > 1
    BY <2>1 DEF GraphInv, SlotIsHeld
  <2>3. ASSUME stage' = "over", stage # "sinkPort"
        PROVE  slotRefs' = 0
    <3>1. stage # "over"
      BY DEF IInv, PhaseTells, Next, Start, StartFails, Begin, SkipFrame, SkipCounted, Processed,
             Unsupported, ProcessingFails, ProcessingPanics, AnalysisPanics, Delivered,
             StreamEnds, FinalizingPanics, StreamFails, Write, WritePanics, WriteFails, Finish
    <3>2. stage \in {"sources", "ports"} => slotRefs = 2 /\ ~hasSink
      BY DEF IInv, GraphInv, SlotIsHeld
    <3>3. CASE SearchFails \/ SearchPanics
      BY <3>3 DEF SearchFails, SearchPanics, Dismantled, IInv, GraphInv, SlotIsHeld
    <3>4. CASE ConstructionFails
      BY <2>3, <3>2, <3>4 DEF ConstructionFails, Constructing, Dismantled, RefsDropped
    <3>5. CASE Starting \/ UNCHANGED startupVars
      BY <2>3, <3>1, <3>5 DEF Starting, FindTraces, AddSource, AddMuxer, ConnectPort, AddSink,
                             ConnectSink, startupVars
    <3>6. CASE stage = "built" /\ IteratorDropped
      BY <3>6 DEF IteratorDropped, Dismantled, IInv, GraphInv, SlotIsHeld
    <3>7. phase \in {"loop", "write"} => stage = "built"
      BY DEF IInv, PhaseTells
    <3>. QED
      BY <3>3, <3>4, <3>5, <3>6, <3>7
         DEF Next, Start, StartFails, Begin, SkipFrame, SkipCounted, Processed,
             Unsupported, ProcessingFails, ProcessingPanics, AnalysisPanics, Delivered,
             StreamEnds, FinalizingPanics, StreamFails, Write, WritePanics, WriteFails, Finish,
             RunGoesOn, RunEnds
  <2>. QED
    BY <2>2, <2>3
<1>. QED
  BY <1>1, Inductive, PTL DEF Spec, SlotIsReleased
=============================================================================
