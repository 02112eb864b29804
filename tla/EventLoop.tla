----------------------------- MODULE EventLoop -----------------------------
(***************************************************************************)
(* The main loop: ProcessedEventsIter and run() of src/main.rs, from the    *)
(* start (Startup) to the outputs.                                         *)
(*                                                                         *)
(* next() takes messages from the stream until the processor has processed *)
(* an event, which it shows to each analysis in turn, or has failed.  At   *)
(* the end of the stream it finalizes the analyses.  run() enables the     *)
(* analyses the requested outputs need, drives next() and writes the       *)
(* outputs one after the other; the first error of any kind ends the run.  *)
(*                                                                         *)
(* The stream is the one EventStream specifies.  What the processor makes  *)
(* of an event is open here (Publishers, Subscriptions and Spins say it).  *)
(***************************************************************************)
EXTENDS EventStream, Startup, FiniteSets

(* The analysis each output reads. *)
Reads ==
  [message_latency |-> "MessageLatency",
   callback_duration |-> "CallbackDuration",
   callback_publications |-> "CallbackDependency",
   callback_dependency |-> "CallbackDependency",
   message_take_to_callback_latency |-> "MessageTakeToCallbackLatency",
   utilization |-> "CallbackDuration",
   real_utilization |-> "CallbackDuration",
   spin_duration |-> "SpinDuration",
   dependency_graph |-> "DependencyGraph"]

(* The outputs that make run() create an analysis; in the mutated form only the
   output with the name of the analysis does. *)
EnabledByNamesake ==
  [MessageLatency |-> {"message_latency"},
   CallbackDuration |-> {"callback_duration"},
   CallbackDependency |-> {"callback_dependency"},
   MessageTakeToCallbackLatency |-> {"message_take_to_callback_latency"},
   DependencyGraph |-> {"dependency_graph"},
   SpinDuration |-> {"spin_duration"}]
EnabledBy ==
  [MessageLatency |-> {"message_latency"},
   CallbackDuration |-> {"callback_duration", "utilization", "real_utilization"},
   CallbackDependency |-> {"callback_dependency", "callback_publications"},
   MessageTakeToCallbackLatency |-> {"message_take_to_callback_latency"},
   DependencyGraph |-> {"dependency_graph"},
   SpinDuration |-> {"spin_duration"}]

(* The order in which Analyses::all_as_mut shows events to the analyses. *)
Analyses ==
  <<"MessageLatency", "CallbackDuration", "CallbackDependency",
    "MessageTakeToCallbackLatency", "DependencyGraph", "SpinDuration">>

(* What a message of the stream is to the loop: begin or end of a stream or of
   a packet, something babeltrace2 reports as lost, an event that is not one of
   ROS, or an event for the processor. *)
Kind == {"frame", "lost", "foreign", "event"}

Counter == {"processed", "unsupported", "failures", "otherEvents", "otherMessages"}

(* The counters of messages the loop skips. *)
Counted == [lost |-> "otherMessages", foreign |-> "otherEvents"]

VARIABLES
  kinds,         \* the kind of each message, once the traces are open
  phase,         \* "start", "loop", "write", "finished", "failed", "panicked"
  counters,      \* of ProcessedEventsIter
  seen,          \* by enabled analysis: the slots of the events it has processed
  finalized,     \* analyses finalized
  written        \* outputs written

loopVars == <<phase, counters, seen, finalized, written>>
vars == <<startupVars, streamVars, kinds, loopVars>>

Enabled == {a \in DOMAIN EnabledBy : EnabledBy[a] \cap Requested # {}}

Init ==
  /\ StartupInit
  /\ StreamInit
  /\ kinds = << >>
  /\ phase = "start"
  /\ counters = [c \in Counter |-> 0]
  /\ seen = [a \in Enabled |-> << >>]
  /\ finalized = {}
  /\ written = {}
-----------------------------------------------------------------------------
Start ==
  /\ phase = "start"
  /\ Starting
  /\ UNCHANGED <<streamVars, kinds, loopVars>>

(* No trace is an Err, what else goes wrong a panic. *)
StartFails ==
  /\ phase = "start"
  /\ \/ SearchFails /\ phase' = "failed"
     \/ (SearchPanics \/ ConstructionFails) /\ phase' = "panicked"
  /\ UNCHANGED <<streamVars, kinds, counters, seen, finalized, written>>

Begin ==
  /\ phase = "start"
  /\ stage = "built"
  /\ phase' = "loop"
  /\ kinds' \in {ks \in [1..Length -> Kind] : \A i \in Blank : ks[i] = "frame"}
  /\ UNCHANGED <<startupVars, streamVars, counters, seen, finalized, written>>

(* run() returns or unwinds, and the iterator is dropped. *)
RunEnds(how) ==
  /\ phase' = how
  /\ IteratorDropped

RunGoesOn == UNCHANGED <<startupVars, phase>>
-----------------------------------------------------------------------------
Count(c) == counters' = [counters EXCEPT ![c] = @ + 1]

Delivered(kind) ==
  /\ phase = "loop"
  /\ Deliver
  /\ kinds[position'] = kind
  /\ UNCHANGED <<kinds, written, finalized>>

SkipFrame ==
  /\ Delivered("frame")
  /\ RunGoesOn
  /\ UNCHANGED <<counters, seen>>

SkipCounted ==
  \E kind \in DOMAIN Counted :
    /\ Delivered(kind)
    /\ Count(Counted[kind])
    /\ RunGoesOn
    /\ UNCHANGED seen

ShownToAll == seen' = [a \in Enabled |-> Append(seen[a], position')]

Processed ==
  /\ Delivered("event")
  /\ Count("processed")
  /\ ShownToAll
  /\ RunGoesOn

Unsupported ==
  /\ Delivered("event")
  /\ Count("unsupported")
  /\ RunGoesOn
  /\ UNCHANGED seen

(* run() returns the Err of the processor. *)
ProcessingFails ==
  /\ Delivered("event")
  /\ Count("failures")
  /\ RunEnds("failed")
  /\ UNCHANGED seen

(* The processor panics: the event is in no counter and no analysis sees it. *)
ProcessingPanics ==
  /\ Delivered("event")
  /\ RunEnds("panicked")
  /\ UNCHANGED <<counters, seen>>

(* Analysis number n panics: the event is counted by then, and those before it have
   processed it.  In the mutated form events are counted once all have. *)
Before(n) == {Analyses[m] : m \in 1..(n - 1)}

ShownBefore(n) ==
  seen' = [a \in Enabled |-> IF a \in Before(n) THEN Append(seen[a], position') ELSE seen[a]]

AnalysisPanicsUncounted(n) ==
  /\ Delivered("event")
  /\ Analyses[n] \in Enabled
  /\ ShownBefore(n)
  /\ RunEnds("panicked")
  /\ UNCHANGED counters
AnalysisPanics(n) ==
  /\ Delivered("event")
  /\ Analyses[n] \in Enabled
  /\ Count("processed")
  /\ ShownBefore(n)
  /\ RunEnds("panicked")

StreamEnds ==
  /\ phase = "loop"
  /\ End
  /\ finalized' = Enabled
  /\ phase' = "write"
  /\ UNCHANGED <<startupVars, kinds, counters, seen, written>>

(* Analysis number n panics when it is finalized, after those before it. *)
FinalizingPanics(n) ==
  /\ phase = "loop"
  /\ End
  /\ Analyses[n] \in Enabled
  /\ finalized' = Enabled \cap Before(n)
  /\ RunEnds("panicked")
  /\ UNCHANGED <<kinds, counters, seen, written>>

(* MessageIterator::next panics when babeltrace2 fails. *)
StreamFails ==
  /\ phase = "loop"
  /\ Failure
  /\ RunEnds("panicked")
  /\ UNCHANGED <<kinds, counters, seen, finalized, written>>

(* The next output to write; in the mutated form the last comes first. *)
DueBackwards(i) ==
  /\ Output[i] \in Requested \ written
  /\ \A j \in (i + 1)..Len(Output) : Output[j] \notin Requested \ written
Due(i) ==
  /\ Output[i] \in Requested \ written
  /\ \A j \in 1..(i - 1) : Output[j] \notin Requested \ written

(* run() unwraps the analysis, and what the analysis computed when it was
   finalized (CallbackDependency::get_graph). *)
IsComputed(i) == Reads[Output[i]] \in Enabled \cap finalized

Write(i) ==
  /\ phase = "write"
  /\ Due(i)
  /\ IsComputed(i)
  /\ written' = written \cup {Output[i]}
  /\ RunGoesOn
  /\ UNCHANGED <<streamVars, kinds, counters, seen, finalized>>

(* An unwrap fails, or the writer of the output panics (drawing the graph may, as
   DependencyGraph shows). *)
WritePanics(i) ==
  /\ phase = "write"
  /\ Due(i)
  /\ RunEnds("panicked")
  /\ UNCHANGED <<streamVars, kinds, counters, seen, finalized, written>>

WriteFails(i) ==
  /\ phase = "write"
  /\ Due(i)
  /\ RunEnds("failed")
  /\ UNCHANGED <<streamVars, kinds, counters, seen, finalized, written>>

Finish ==
  /\ phase = "write"
  /\ Requested \subseteq written
  /\ RunEnds("finished")
  /\ UNCHANGED <<streamVars, kinds, counters, seen, finalized, written>>

Next ==
  \/ Start \/ StartFails \/ Begin
  \/ SkipFrame \/ SkipCounted
  \/ Processed \/ Unsupported \/ ProcessingFails \/ ProcessingPanics
  \/ \E n \in DOMAIN Analyses : AnalysisPanics(n) \/ FinalizingPanics(n)
  \/ StreamEnds \/ StreamFails
  \/ \E i \in 1..Len(Output) : Write(i) \/ WritePanics(i) \/ WriteFails(i)
  \/ Finish

Spec == Init /\ [][Next]_vars
-----------------------------------------------------------------------------
Of(kind) == {i \in (1..position) \ Blank : kinds[i] = kind}

(* Events of the stream that no counter has. *)
Uncounted ==
  Cardinality(Of("event"))
    - (counters["processed"] + counters["unsupported"] + counters["failures"])

(* The counters log_counters reports account for every message up to the current
   one, and the enabled analyses have processed the same events, as many as are counted
   as processed; but for the event in hand at a panic.  If the processor panics it is in
   no counter.  If an analysis panics it is counted, and processed by the analyses that
   come first, up to the one that panicked. *)
CountersAccountForStream ==
  /\ counters["otherMessages"] = Cardinality(Of("lost"))
  /\ counters["otherEvents"] = Cardinality(Of("foreign"))
  /\ counters["failures"] <= 1
  /\ Uncounted \in {0, 1}
  /\ Uncounted = 1 => phase = "panicked" /\ kinds[position] = "event"
  /\ \A m, n \in DOMAIN Analyses :
       m <= n /\ {Analyses[m], Analyses[n]} \subseteq Enabled =>
         LET first == seen[Analyses[m]]
             later == seen[Analyses[n]]
         IN  \/ later = first /\ Len(first) = counters["processed"]
             \/ /\ phase = "panicked" /\ Uncounted = 0
                /\ \/ later = first /\ Len(first) = counters["processed"] - 1
                   \/ first = Append(later, position) /\ Len(first) = counters["processed"]

(* An output is written only from a finalized analysis and after the whole trace
   was processed without an error: no partial result looks like a full one.
   Outputs written are a prefix of the requested ones. *)
OutputsAreOfWholeTrace ==
  /\ written # {} =>
       /\ state = "ended"
       /\ counters["failures"] = 0
       /\ OnlyBlanksBefore(Length + 1)
  /\ \A o \in written : Reads[o] \in finalized
  /\ \A i \in 1..Len(Output) : Output[i] \in written =>
       \A j \in 1..(i - 1) : Output[j] \in Requested => Output[j] \in written

(* The unwraps of run() hold: the analysis of the output that is due was created,
   and it is finalized. *)
RequestedIsComputed ==
  phase = "write" => \A i \in 1..Len(Output) : Due(i) => IsComputed(i)

(* BtGraph::run_once asks of its caller that "every filter or sink component has at
   least one input port connected", every source "at least one output port", and
   that there is a sink (bt2-sys/src/graph/mod.rs:52-55).  When the loop runs, there
   are a sink and a source for every trace found, in whatever paths, and the port of
   each stream of each trace is connected, once.  So a source is connected if its trace
   has a stream, and the muxer if any has; nothing makes sure that there is one. *)
GraphIsRunnable ==
  phase = "loop" =>
    /\ hasSink
    /\ sources # << >>
    /\ ToSet(sources) = UNION {TracesFound[i] : i \in DOMAIN TracesFound}
    /\ \A i \in DOMAIN sources : \A p \in 1..PortsOf[sources[i]] :
         Cardinality({n \in DOMAIN links : links[n] = <<i, p>>}) = 1
    /\ (\E i \in DOMAIN sources : PortsOf[sources[i]] > 0) => links # << >>

(* The slot outlives the sink, and every run gives back the references it took,
   however it ends.  The one exception is a sink that was added but cannot be
   connected: finalize() and BatchMessageIterator::new both give back the same one. *)
SlotIsReleased ==
  [][/\ hasSink' => slotRefs' > 1
     /\ stage' = "over" /\ stage # "sinkPort" => slotRefs' = 0]_vars
=============================================================================
