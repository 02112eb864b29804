------------------------ MODULE BatchIteratorProofs ------------------------
(***************************************************************************)
(* Proofs about BatchIterator, for traces of every length with any empty   *)
(* slots and for batches of every size: the shared slot is handed over     *)
(* properly, and the iterator implements EventStream.                      *)
(***************************************************************************)
EXTENDS BatchIterator, TLAPS

(* First slot of the trace the iterator has not looked at yet. *)
Front ==
  IF batch # Nil THEN batch.first + index
  ELSE IF internal # Nil THEN internal.first
  ELSE produced + 1

(* A batch is the last interval that the upstream handed out. *)
IsLast(b) == b.first + b.count = produced + 1

(* A batch is in the shared slot exactly between the graph and the iterator, and
   one is current exactly while its slots are walked over. *)
SlotOK ==
  /\ pc # "received" => internal = Nil
  /\ pc = "received" => internal # Nil /\ IsLast(internal)
  /\ pc # "next" => batch = Nil
  /\ batch # Nil => IsLast(batch) /\ index <= batch.count
  /\ outcome = "open" <=> pc # "done"
  /\ outcome # "broken"

(* Everything between the message delivered last and the front was empty. *)
FrontOK ==
  /\ delivered < Front
  /\ \A j \in 1..Length : delivered < j /\ j < Front => j \in Blank

IInv == TypeOK /\ SlotOK /\ FrontOK

LEMMA BatchNotNil == Nil \notin Batch
<1>1. Batch \subseteq [first: Nat, count: Nat]
  BY BatchIteratorAssumption DEF Batch
<1>. QED
  BY <1>1, BatchIteratorAssumption

LEMMA InitInv == Init => IInv
  BY BatchIteratorAssumption DEF Init, IInv, TypeOK, SlotOK, FrontOK, Front

LEMMA ReturnInv == IInv /\ Return => IInv'
<1> SUFFICES ASSUME IInv, Return PROVE IInv'
  OBVIOUS
<1>. USE BatchIteratorAssumption, BatchNotNil
<1>1. /\ batch # Nil /\ batch \in Batch /\ index < batch.count
      /\ batch.first + batch.count = produced + 1
      /\ internal = Nil
  BY DEF IInv, TypeOK, SlotOK, Return, Exhausted, IsLast, Batch
<1>2. batch.first + index \in 1..Length
  BY <1>1 DEF IInv, TypeOK, Batch
<1>3. TypeOK'
  BY <1>1, <1>2 DEF IInv, TypeOK, Return, Slot
<1>4. SlotOK'
  BY <1>1 DEF IInv, TypeOK, SlotOK, Return, IsLast, Batch
<1>5. FrontOK'
  BY <1>1, <1>2 DEF IInv, TypeOK, FrontOK, Front, Return, Slot, Batch
<1>. QED
  BY <1>3, <1>4, <1>5 DEF IInv

LEMMA SkipBlankInv == IInv /\ SkipBlank => IInv'
<1> SUFFICES ASSUME IInv, SkipBlank PROVE IInv'
  OBVIOUS
<1>. USE BatchIteratorAssumption, BatchNotNil
<1>1. /\ batch # Nil /\ batch \in Batch /\ index < batch.count
      /\ batch.first + batch.count = produced + 1
      /\ internal = Nil
  BY DEF IInv, TypeOK, SlotOK, SkipBlank, Exhausted, IsLast, Batch
<1>3. TypeOK'
  BY <1>1 DEF IInv, TypeOK, SkipBlank
<1>4. SlotOK'
  BY <1>1 DEF IInv, TypeOK, SlotOK, SkipBlank, IsLast, Batch
<1>5. FrontOK'
  BY <1>1 DEF IInv, TypeOK, FrontOK, Front, SkipBlank, Slot, Batch
<1>. QED
  BY <1>3, <1>4, <1>5 DEF IInv

LEMMA AskForBatchInv == IInv /\ AskForBatch => IInv'
<1> SUFFICES ASSUME IInv, AskForBatch PROVE IInv'
  OBVIOUS
<1>. USE BatchIteratorAssumption, BatchNotNil
<1>1. internal = Nil /\ internal' = Nil /\ batch' = Nil /\ pc' = "graph"
  BY DEF IInv, SlotOK, AskForBatch, AfterTake
<1>2. Front' = Front
  <2>1. Front' = produced + 1
    BY <1>1 DEF Front, AskForBatch
  <2>2. CASE batch = Nil
    BY <1>1, <2>1, <2>2 DEF Front
  <2>3. CASE batch # Nil
    <3>1. batch.first + batch.count = produced + 1 /\ index = batch.count
      BY <2>3 DEF IInv, TypeOK, SlotOK, AskForBatch, Exhausted, IsLast, Batch
    <3>. QED
      BY <2>1, <2>3, <3>1 DEF Front
  <2>. QED
    BY <2>2, <2>3
<1>3. TypeOK'
  BY <1>1 DEF IInv, TypeOK, AskForBatch
<1>4. SlotOK'
  BY <1>1 DEF IInv, SlotOK, AskForBatch
<1>5. FrontOK'
  BY <1>2 DEF IInv, FrontOK, AskForBatch
<1>. QED
  BY <1>3, <1>4, <1>5 DEF IInv

LEMMA TakeBatchInv == IInv /\ TakeBatch => IInv'
<1> SUFFICES ASSUME IInv, TakeBatch PROVE IInv'
  OBVIOUS
<1>. USE BatchIteratorAssumption, BatchNotNil
<1>1. /\ internal \in Batch /\ internal # Nil /\ batch = Nil
      /\ internal.first + internal.count = produced + 1
  BY DEF IInv, TypeOK, SlotOK, TakeBatch, IsLast
<1>2. /\ batch' = internal /\ internal' = Nil /\ index' = 0 /\ pc' = "next"
      /\ UNCHANGED <<delivered, produced, outcome>>
  BY <1>1 DEF TakeBatch, AfterTake
<1>3. Front' = Front
  BY <1>1, <1>2 DEF Front, Batch
<1>4. TypeOK'
  BY <1>1, <1>2 DEF IInv, TypeOK
<1>5. SlotOK'
  BY <1>1, <1>2 DEF IInv, SlotOK, TakeBatch, IsLast, Batch
<1>6. FrontOK'
  BY <1>2, <1>3 DEF IInv, FrontOK
<1>. QED
  BY <1>4, <1>5, <1>6 DEF IInv

LEMMA HandsInv ==
  ASSUME IInv, NEW n \in 0..MaxBatch, produced + n <= Length, Hands(n)
  PROVE  IInv'
<1>. USE BatchIteratorAssumption, BatchNotNil
<1>1. batch = Nil /\ internal = Nil
  BY DEF IInv, SlotOK, Hands
<1>2. internal' = [first |-> produced + 1, count |-> n] /\ internal' \in Batch
  BY DEF IInv, TypeOK, Hands, Batch
<1>3. Front' = Front
  BY <1>1, <1>2 DEF Front, Hands
<1>4. TypeOK'
  BY <1>1, <1>2 DEF IInv, TypeOK, Hands
<1>5. SlotOK'
  <2>1. IsLast(internal)'
    BY <1>2 DEF IInv, TypeOK, Hands, IsLast
  <2>. QED
    BY <1>1, <1>2, <2>1 DEF IInv, SlotOK, Hands
<1>6. FrontOK'
  BY <1>3 DEF IInv, FrontOK, Hands
<1>. QED
  BY <1>4, <1>5, <1>6 DEF IInv

LEMMA FinishInv ==
  ASSUME IInv, pc \in {"graph", "consume"}, NEW how \in {"ended", "failed"},
         Finish(how), UNCHANGED <<batch, internal>>
  PROVE  IInv'
<1>1. TypeOK'
  BY DEF IInv, TypeOK, Finish
<1>2. SlotOK'
  BY DEF IInv, SlotOK, Finish, IsLast
<1>3. FrontOK'
  BY DEF IInv, FrontOK, Front, Finish
<1>. QED
  BY <1>1, <1>2, <1>3 DEF IInv

LEMMA GraphConsumesInv == IInv /\ GraphConsumes => IInv'
<1> SUFFICES ASSUME IInv, GraphConsumes PROVE IInv'
  OBVIOUS
<1>1. pc' = "consume" /\ pc = "graph" /\ UNCHANGED <<delivered, batch, index, internal, produced, outcome>>
  BY DEF IInv, SlotOK, GraphConsumes
<1>2. TypeOK'
  BY <1>1 DEF IInv, TypeOK
<1>3. SlotOK'
  BY <1>1 DEF IInv, SlotOK
<1>4. FrontOK'
  BY <1>1 DEF IInv, FrontOK, Front
<1>. QED
  BY <1>2, <1>3, <1>4 DEF IInv

LEMMA StutterInv == IInv /\ UNCHANGED vars => IInv'
  BY DEF vars, IInv, TypeOK, SlotOK, IsLast, FrontOK, Front

LEMMA NextInv == IInv /\ [Next]_vars => IInv'
<1> SUFFICES ASSUME IInv, [Next]_vars PROVE IInv'
  OBVIOUS
<1>1. CASE UNCHANGED vars
  BY <1>1, StutterInv
<1>2. CASE GraphAgain \/ UpstreamAgain
  BY <1>2, StutterInv DEF GraphAgain, UpstreamAgain
<1>3. CASE GraphFails \/ UpstreamEnds \/ UpstreamFails
  BY <1>3, FinishInv DEF GraphFails, UpstreamEnds, UpstreamFails
<1>4. CASE UpstreamHandsNothing
  BY <1>4, HandsInv, BatchIteratorAssumption DEF UpstreamHandsNothing, IInv, TypeOK
<1>5. CASE UpstreamHandsBatch
  BY <1>5, HandsInv, BatchIteratorAssumption DEF UpstreamHandsBatch
<1>. QED
  BY <1>1, <1>2, <1>3, <1>4, <1>5, ReturnInv, SkipBlankInv, AskForBatchInv, TakeBatchInv,
     GraphConsumesInv
  DEF Next

(* IInv is an invariant of the iterator. *)
THEOREM Invariance == Spec => []IInv
  BY InitInv, NextInv, PTL DEF Spec

(* Type correctness. *)
THEOREM TypeCorrect == Spec => []TypeOK
<1>1. IInv => TypeOK
  BY DEF IInv
<1>. QED
  BY <1>1, Invariance, PTL

(* consume() always finds the shared slot empty and BatchMessageIterator::next
   always finds it full, so neither of the errors of the code's own occurs. *)
THEOREM SlotAlwaysHandedOver == Spec => []SlotIsHandedOver
<1>1. IInv => SlotIsHandedOver
  BY DEF IInv, SlotOK, SlotIsHandedOver
<1>. QED
  BY <1>1, Invariance, PTL
-----------------------------------------------------------------------------
(* Every step of the iterator is a step of the stream or leaves it alone. *)
LEMMA StreamInitOfInit == Init => Stream!StreamInit
  BY DEF Init, Stream!StreamInit

LEMMA ReturnDelivers == IInv /\ Return => Stream!Deliver
<1> SUFFICES ASSUME IInv, Return PROVE Stream!Deliver
  OBVIOUS
<1>. USE BatchIteratorAssumption, BatchNotNil
<1>1. /\ batch # Nil /\ batch \in Batch /\ index < batch.count
      /\ batch.first + batch.count = produced + 1
      /\ outcome = "open"
  BY DEF IInv, TypeOK, SlotOK, Return, Exhausted, IsLast, Batch
<1>2. Slot \in 1..Length /\ Slot = Front
  BY <1>1 DEF IInv, TypeOK, Batch, Slot, Front
<1>3. delivered < Slot /\ Stream!OnlyBlanksBefore(Slot)
  BY <1>2 DEF IInv, FrontOK, Stream!OnlyBlanksBefore
<1>. QED
  BY <1>1, <1>2, <1>3 DEF Return, Stream!Deliver

LEMMA EndEnds == IInv /\ UpstreamEnds => Stream!End
<1> SUFFICES ASSUME IInv, UpstreamEnds PROVE Stream!End
  OBVIOUS
<1>1. outcome = "open" /\ Front = Length + 1
  BY DEF IInv, SlotOK, UpstreamEnds, Front
<1>2. Stream!OnlyBlanksBefore(Length + 1)
  BY <1>1 DEF IInv, FrontOK, Stream!OnlyBlanksBefore
<1>. QED
  BY <1>1, <1>2 DEF UpstreamEnds, Finish, Stream!End

LEMMA FailuresFail == IInv /\ (GraphFails \/ UpstreamFails) => Stream!Failure
  BY DEF IInv, SlotOK, GraphFails, UpstreamFails, Finish, Stream!Failure

(* The iterator implements the stream the event loop is written for: every
   message once, in the order of the trace, and the end after the last. *)
THEOREM Implementation == Spec => ImplementsStream
<1>1. IInv /\ [Next]_vars => [Stream!StreamNext]_(Stream!streamVars)
  <2> SUFFICES ASSUME IInv, [Next]_vars PROVE [Stream!StreamNext]_(Stream!streamVars)
    OBVIOUS
  <2>1. CASE Return
    BY <2>1, ReturnDelivers DEF Stream!StreamNext
  <2>2. CASE UpstreamEnds
    BY <2>2, EndEnds DEF Stream!StreamNext
  <2>3. CASE GraphFails \/ UpstreamFails
    BY <2>3, FailuresFail DEF Stream!StreamNext
  <2>4. CASE UNCHANGED <<delivered, outcome>>
    BY <2>4 DEF Stream!streamVars
  <2>5. CASE GraphConsumes \/ TakeBatch
    BY <2>4, <2>5 DEF IInv, SlotOK, GraphConsumes, TakeBatch
  <2>6. CASE UpstreamHandsNothing \/ UpstreamHandsBatch
    BY <2>4, <2>6 DEF UpstreamHandsNothing, UpstreamHandsBatch, Hands
  <2>. QED
    BY <2>1, <2>2, <2>3, <2>4, <2>5, <2>6
    DEF Next, SkipBlank, AskForBatch, GraphAgain, UpstreamAgain, vars
<1>. QED
  BY <1>1, StreamInitOfInit, Invariance, PTL DEF Spec, ImplementsStream, Stream!StreamSpec
=============================================================================
