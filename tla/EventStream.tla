---------------------------- MODULE EventStream ----------------------------
(***************************************************************************)
(* What the event loop expects of MessageIterator (bt2-sys/src/iterator.rs *)
(* and the loop head in src/main.rs): the messages of the trace one by     *)
(* one, in order, without loss or duplication, and then the end.  A slot   *)
(* of a batch may be empty, and babeltrace2 may fail at any time.          *)
(* BatchIterator implements this module.                                   *)
(***************************************************************************)
EXTENDS Naturals

CONSTANTS
  Length,      \* number of slots of all batches of the trace
  Blank        \* slots without a message

ASSUME EventStreamAssumption ==
  /\ Length \in Nat
  /\ Blank \subseteq 1..Length

VARIABLES
  position,    \* slot of the message delivered last, or 0
  state        \* "open", "ended", "failed"

streamVars == <<position, state>>

StreamTypeOK ==
  /\ position \in 0..Length
  /\ state \in {"open", "ended", "failed"}

StreamInit ==
  /\ position = 0
  /\ state = "open"

(* Nothing but blanks between the message delivered last and slot i. *)
OnlyBlanksBefore(i) == \A j \in 1..Length : position < j /\ j < i => j \in Blank

Deliver ==
  /\ state = "open"
  /\ \E i \in (1..Length) \ Blank :
       /\ position < i
       /\ OnlyBlanksBefore(i)
       /\ position' = i
  /\ UNCHANGED state

End ==
  /\ state = "open"
  /\ OnlyBlanksBefore(Length + 1)
  /\ state' = "ended"
  /\ UNCHANGED position

Failure ==
  /\ state = "open"
  /\ state' = "failed"
  /\ UNCHANGED position

StreamNext == Deliver \/ End \/ Failure

StreamSpec == StreamInit /\ [][StreamNext]_streamVars
=============================================================================
