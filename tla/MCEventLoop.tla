---------------------------- MODULE MCEventLoop ----------------------------
(* A small instance of EventLoop for TLC: a tree of three directories, searched in
   every way, where right has no streams if it is a trace; and every pair of outputs,
   every single output and all of them, with every stream. *)
EXTENDS EventLoop, TLC

CONSTANTS top, left, right

MCAbove == (top :> {top} @@ left :> {top, left} @@ right :> {top, right})

MCPortsOf == (top :> 1 @@ left :> 2 @@ right :> 0)

Searches == {<<d>> : d \in Directory} \cup (Directory \X Directory)

MCCommands ==
  [all: {FALSE}, named: {{}}, search: Searches, exact: BOOLEAN]
    \cup [all: {FALSE}, named: {{o, p} : o, p \in DOMAIN Reads}, search: {<<top>>},
          exact: {TRUE}]
    \cup [all: {TRUE}, named: {{"utilization"}}, search: {<<top>>}, exact: {TRUE}]

MCDisks ==
  {[traces |-> ts, unreadable |-> ds] : ts \in SUBSET Directory, ds \in {{}, {right}}}

(* When outputs are named the path is a trace. *)
MCInit == Init /\ (command.named # {} => disk = [traces |-> {top}, unreadable |-> {}])

(* After a search of the tree the stream is of events. *)
Events == [i \in 1..Length |-> IF i \in Blank THEN "frame" ELSE "event"]

OneStreamAfterSearch == command.named = {} => kinds' \in {<< >>, Events}

MCSpec == MCInit /\ [][Next]_vars
=============================================================================
