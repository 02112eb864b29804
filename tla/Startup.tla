------------------------------ MODULE Startup ------------------------------
(***************************************************************************)
(* From the command line to a graph that delivers messages: the outputs    *)
(* and the traces that are asked for (src/argsv2.rs), and the construction *)
(* of the babeltrace2 graph (BatchMessageIterator of                       *)
(* bt2-sys/src/iterator.rs with BtGraphBuilder of bt2-sys/src/graph/mod.rs) *)
(*                                                                         *)
(* babeltrace2 is external: any of its functions may fail.  The graph is   *)
(* one source per trace, the muxer, and the sink that calls back into      *)
(* consume().  The slot the sink shares with the iterator is counted: the  *)
(* iterator and the sink hold a reference each, and the sink gives its own *)
(* back in finalize(), when the graph is destroyed.                        *)
(***************************************************************************)
EXTENDS Integers, Sequences, SequencesExt

CONSTANTS
  Directory,
  Above,         \* the directories on the path of a directory, itself included
  PortsOf,       \* number of streams, if a directory is a trace; there may be none
  Commands,      \* bound: the command lines
  Disks          \* bound: which directories are traces, and which cannot be read

(* The outputs in the order run() writes them, and the analysis each reads. *)
Output ==
  <<"message_latency", "callback_duration", "callback_publications",
    "callback_dependency", "message_take_to_callback_latency", "utilization",
    "real_utilization", "spin_duration", "dependency_graph">>

(* `all' and the outputs named on the command line; the paths to search. *)
Command ==
  [all: BOOLEAN, named: SUBSET ToSet(Output), search: Seq(Directory), exact: BOOLEAN]

Disk == [traces: SUBSET Directory, unreadable: SUBSET Directory]

ASSUME StartupAssumption ==
  /\ Above \in [Directory -> SUBSET Directory]
  /\ \A d \in Directory : d \in Above[d]
  /\ PortsOf \in [Directory -> Nat]
  /\ Commands \subseteq Command
  /\ \A c \in Commands : c.search # << >>
  /\ Disks \subseteq Disk

VARIABLES
  command, disk,
  stage,         \* what is done next: "search", "sources", "ports", "sinkPort"; then
                 \* "built", and "over" once everything was dropped
  found,         \* by path searched: the trace_paths without a source yet
  sources,       \* the source components, by their traces
  links,         \* <<source, port>> connected to each input port of the muxer
  hasSink,       \* does the graph hold the sink?
  slotRefs       \* the reference count of BatchMessageIteratorInner

startupVars == <<command, disk, stage, found, sources, links, hasSink, slotRefs>>

StartupInit ==
  /\ command \in Commands
  /\ disk \in Disks
  /\ stage = "search"
  /\ found = << >>
  /\ sources = << >>
  /\ links = << >>
  /\ hasSink = FALSE
  /\ slotRefs = 0
-----------------------------------------------------------------------------
(* The option --all is on unless an output is named, and may be given as well. *)
Requested == IF command.all \/ command.named = {} THEN ToSet(Output) ELSE command.named

(* Directories that are looked at for the path s; those that are traces. *)
Walked(s) == IF command.exact THEN {s} ELSE {d \in Directory : s \in Above[d]}

TracesFound == [i \in DOMAIN command.search |-> Walked(command.search[i]) \cap disk.traces]

(* A walk panics at a directory it cannot read. *)
WalkPanics ==
  ~command.exact /\ \E i \in DOMAIN command.search :
                      Walked(command.search[i]) \cap disk.unreadable # {}

(* prepare_trace_paths ensures that there is a trace; the mutated form does not. *)
AnythingWillDo == TRUE
TracesSuffice == \E i \in DOMAIN TracesFound : TracesFound[i] # {}
-----------------------------------------------------------------------------
(* How the start fails.  Every `?' in construct_graph drops the graph, and with it
   the sink; BatchMessageIterator::new then gives back the reference meant for the
   sink, and panics.  In the mutated form that reference is forgotten. *)
RefsForgotten == 1 + (IF hasSink THEN 1 ELSE 0)
RefsDropped == 2 + (IF hasSink THEN 1 ELSE 0)

Constructing == stage \in {"sources", "ports", "sinkPort"}

Dismantled(refs) ==
  /\ stage' = "over"
  /\ slotRefs' = slotRefs - refs
  /\ hasSink' = FALSE
  /\ found' = << >>
  /\ sources' = << >>
  /\ links' = << >>
  /\ UNCHANGED <<command, disk>>

ConstructionFails == Constructing /\ Dismantled(RefsDropped)

(* The iterator is dropped: the graph with the sink first, then the slot. *)
IteratorDropped == Dismantled(1 + (IF hasSink THEN 1 ELSE 0))

(* prepare_trace_paths finds no trace ... *)
SearchFails ==
  /\ stage = "search"
  /\ ~WalkPanics
  /\ ~TracesSuffice
  /\ Dismantled(0)

(* ... or panics: at a directory it cannot read, or at any it looks at, when
   babeltrace2 does not answer the query or the path is not UTF-8. *)
SearchPanics ==
  /\ stage = "search"
  /\ Dismantled(0)
-----------------------------------------------------------------------------
FindTraces ==
  /\ stage = "search"
  /\ ~WalkPanics
  /\ TracesSuffice
  /\ found' = TracesFound
  /\ slotRefs' = 2
  /\ stage' = "sources"
  /\ UNCHANGED <<command, disk, sources, links, hasSink>>

(* The paths in turn; a walk comes to a directory before those below it, and to
   siblings in the order of the file system. *)
AddSource ==
  /\ stage = "sources"
  /\ \E i \in DOMAIN found : \E d \in found[i] :
       /\ \A j \in DOMAIN found : j < i => found[j] = {}
       /\ found[i] \cap Above[d] = {d}
       /\ sources' = Append(sources, d)
       /\ found' = [found EXCEPT ![i] = @ \ {d}]
  /\ UNCHANGED <<command, disk, stage, links, hasSink, slotRefs>>

AddMuxer ==
  /\ stage = "sources"
  /\ \A i \in DOMAIN found : found[i] = {}
  /\ stage' = "ports"
  /\ UNCHANGED <<command, disk, found, sources, links, hasSink, slotRefs>>

(* The ports of the sources in turn, each to the next input port of the muxer. *)
Unconnected ==
  (UNION {{i} \X (1..PortsOf[sources[i]]) : i \in DOMAIN sources}) \ ToSet(links)

ConnectPort ==
  /\ stage = "ports"
  /\ \E l \in Unconnected :
       /\ \A k \in Unconnected : l[1] < k[1] \/ (l[1] = k[1] /\ l[2] <= k[2])
       /\ links' = Append(links, l)
  /\ UNCHANGED <<command, disk, stage, found, sources, hasSink, slotRefs>>

AddSink ==
  /\ stage = "ports"
  /\ Unconnected = {}
  /\ hasSink' = TRUE
  /\ stage' = "sinkPort"
  /\ UNCHANGED <<command, disk, found, sources, links, slotRefs>>

ConnectSink ==
  /\ stage = "sinkPort"
  /\ stage' = "built"
  /\ UNCHANGED <<command, disk, found, sources, links, hasSink, slotRefs>>

Starting == FindTraces \/ AddSource \/ AddMuxer \/ ConnectPort \/ AddSink \/ ConnectSink
=============================================================================
