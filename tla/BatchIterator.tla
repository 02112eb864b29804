--------------------------- MODULE BatchIterator ---------------------------
(***************************************************************************)
(* The message iterators of bt2-sys/src/iterator.rs.  MessageIterator      *)
(* walks over the current batch and asks BatchMessageIterator for the      *)
(* next.  That one empties the shared slot `internal' and runs the         *)
(* babeltrace2 graph, which calls back into consume(): the callback asks   *)
(* the upstream iterator for a batch and leaves it in the slot.            *)
(*                                                                         *)
(* The graph and the upstream iterator are external.  Either may answer    *)
(* "again", the upstream may deliver an empty batch, and either may fail.  *)
(* The messages are the slots 1..Length of the trace, a batch is an        *)
(* interval of them, and the slots in Blank hold no message.               *)
(***************************************************************************)
EXTENDS Naturals

CONSTANTS
  Length, Blank,
  MaxBatch,      \* bound: slots of a batch
  Nil

ASSUME BatchIteratorAssumption ==
  /\ Length \in Nat
  /\ Blank \subseteq 1..Length
  /\ MaxBatch \in Nat \ {0}
  /\ Nil \notin [first: Nat, count: Nat]

VARIABLES
  pc,            \* "next": in MessageIterator::next; "graph": in the loop of
                 \* next_batch; "consume": in the callback; "received": back
                 \* from the graph with a batch; "done"
  delivered,     \* slot of the message `next' returned last, or 0
  batch, index,  \* current_batch, current_index
  internal,      \* the shared slot
  produced,      \* slots the upstream iterator handed out
  outcome        \* "open", "ended", "failed" (by babeltrace2), "broken" (own error)

vars == <<pc, delivered, batch, index, internal, produced, outcome>>

Batch == [first: 1..(Length + 1), count: 0..MaxBatch]

TypeOK ==
  /\ pc \in {"next", "graph", "consume", "received", "done"}
  /\ delivered \in 0..Length
  /\ batch \in Batch \cup {Nil}
  /\ index \in Nat
  /\ internal \in Batch \cup {Nil}
  /\ produced \in 0..Length
  /\ outcome \in {"open", "ended", "failed", "broken"}

Init ==
  /\ pc = "next"
  /\ delivered = 0
  /\ batch = Nil
  /\ index = 0
  /\ internal = Nil
  /\ produced = 0
  /\ outcome = "open"

Finish(how) ==
  /\ pc' = "done"
  /\ outcome' = how
  /\ UNCHANGED <<delivered, index, produced>>
-----------------------------------------------------------------------------
(* MessageIterator::next *)

(* Is there no message left in the batch?  The mutated form misses the last. *)
ExhaustedEarly == batch # Nil => index + 1 >= batch.count
Exhausted == batch # Nil => index >= batch.count

Slot == batch.first + index

Return ==
  /\ pc = "next"
  /\ ~Exhausted
  /\ Slot \notin Blank
  /\ delivered' = Slot
  /\ index' = index + 1
  /\ UNCHANGED <<pc, batch, internal, produced, outcome>>

(* Mutated form: the index stays when the loop continues. *)
SkipBlankInPlace ==
  /\ pc = "next"
  /\ ~Exhausted
  /\ Slot \in Blank
  /\ UNCHANGED vars

SkipBlank ==
  /\ pc = "next"
  /\ ~Exhausted
  /\ Slot \in Blank
  /\ index' = index + 1
  /\ UNCHANGED <<pc, delivered, batch, internal, produced, outcome>>

(* Option::take; the mutated form is a clone of the value. *)
AfterClone(slot) == slot
AfterTake(slot) == Nil

(* The current batch is dropped, and next_batch empties the slot. *)
AskForBatch ==
  /\ pc = "next"
  /\ Exhausted
  /\ batch' = Nil
  /\ internal' = AfterTake(internal)
  /\ pc' = "graph"
  /\ UNCHANGED <<delivered, index, produced, outcome>>

(* BatchMessageIterator::next unwraps the slot, and the batch becomes current. *)
TakeBatch ==
  /\ pc = "received"
  /\ \/ /\ internal = Nil
        /\ Finish("broken")
        /\ UNCHANGED <<batch, internal>>
     \/ /\ internal # Nil
        /\ batch' = internal
        /\ internal' = AfterTake(internal)
        /\ index' = 0
        /\ pc' = "next"
        /\ UNCHANGED <<delivered, produced, outcome>>
-----------------------------------------------------------------------------
(* The graph runs again while it says so. *)
GraphAgain ==
  /\ pc = "graph"
  /\ UNCHANGED vars

(* consume() refuses to overwrite a batch nobody took. *)
GraphConsumes ==
  /\ pc = "graph"
  /\ \/ /\ internal = Nil
        /\ pc' = "consume"
        /\ UNCHANGED <<delivered, batch, index, internal, produced, outcome>>
     \/ /\ internal # Nil
        /\ Finish("broken")
        /\ UNCHANGED <<batch, internal>>

GraphFails ==
  /\ pc = "graph"
  /\ Finish("failed")
  /\ UNCHANGED <<batch, internal>>

(* The upstream iterator's answers to consume(). *)
UpstreamAgain ==
  /\ pc = "consume"
  /\ UNCHANGED vars

Hands(n) ==
  /\ pc = "consume"
  /\ internal' = [first |-> produced + 1, count |-> n]
  /\ produced' = produced + n
  /\ pc' = "received"
  /\ UNCHANGED <<delivered, batch, index, outcome>>

UpstreamHandsNothing == Hands(0)

UpstreamHandsBatch ==
  \E n \in 1..MaxBatch : produced + n <= Length /\ Hands(n)

UpstreamEnds ==
  /\ pc = "consume"
  /\ produced = Length
  /\ Finish("ended")
  /\ UNCHANGED <<batch, internal>>

UpstreamFails ==
  /\ pc = "consume"
  /\ Finish("failed")
  /\ UNCHANGED <<batch, internal>>

Next ==
  \/ Return \/ SkipBlank \/ AskForBatch \/ TakeBatch
  \/ GraphAgain \/ GraphConsumes \/ GraphFails
  \/ UpstreamAgain \/ UpstreamHandsNothing \/ UpstreamHandsBatch
  \/ UpstreamEnds \/ UpstreamFails

Spec == Init /\ [][Next]_vars

(* The thread goes on, and babeltrace2 does not say "again" or hand out empty
   batches forever. *)
Fairness ==
  /\ WF_vars(Return \/ SkipBlank \/ AskForBatch \/ TakeBatch \/ GraphConsumes)
  /\ SF_vars(UpstreamHandsBatch \/ UpstreamEnds \/ UpstreamFails)

FairSpec == Spec /\ Fairness
-----------------------------------------------------------------------------
(* Neither error of the code's own occurs: consume() always finds the slot empty
   ("Internal state is not None"), and BatchMessageIterator::next always finds
   it full, however often the graph says "again". *)
SlotIsHandedOver == outcome # "broken"

(* Each message of the trace is delivered once, in the order of the trace, and
   the end is reported after the last: the iterator implements the stream the
   event loop is written for. *)
Stream == INSTANCE EventStream WITH position <- delivered, state <- outcome

ImplementsStream == Stream!StreamSpec

(* Unless babeltrace2 fails, every message is delivered and the end reported. *)
ReachesEnd == <>(outcome \in {"ended", "failed"})
=============================================================================
