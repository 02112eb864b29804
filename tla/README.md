# Trace analyzer: models, checks and proofs

Ros2TraceAnalyzer reads the LTTng trace of a ROS 2 application once, rebuilds the
application's objects (nodes, publishers, subscribers, callbacks, messages) from the
trace events, and computes statistics on them. This directory holds TLA+ models of the
program, TLC runs on small instances, and TLAPS proofs about the models for all
parameters. Source paths below are relative to the repository; `src/` is its main crate.

## 1. The system

One thread, one pass, no persistent state:

    babeltrace2 graph --batches--> MessageIterator --messages--> ProcessedEventsIter
       (bt2-sys crate)                (bt2-sys)                     (src/main.rs)
                                                                        |
                             Processor::process_raw_event (src/processor/) --> event + objects
                                                                        |
                                        each enabled analysis (src/analysis/) --> outputs of run()

The code itself never runs two things at once. What makes it hard is that its input is
the interleaving of many threads and processes of the observed application, that the
input has holes (LTTng discards events, a trace may start late, destruction is never
traced), and that identity has to be guessed from addresses, which are reused. Objects
are `Arc<Mutex<..>>`, so a handler that locks an object it holds already blocks forever.

| Component | State | Operations | Models |
|---|---|---|---|
| `Known<T>` (`utils.rs`) | a field that may not be known yet | comparison, default | `Known` |
| Publishers and published messages (`processor/ros2.rs`, `model/mod.rs`) | nodes, two publisher registries, two temporary message maps, file of published messages | `rcl_node_init`, `rmw_/rcl_publisher_init`, `rclcpp_publish`, `rclcpp_intra_publish`, `rcl_publish`, `rmw_publish` | `Publishers`, `PublisherApp` |
| Subscribers, received messages, subscription callbacks (same files) | three subscriber registries, map of received messages, per-subscriber queue of taken messages, callbacks and their running instance | `rmw_/rcl_/rclcpp_subscription_init`, `callback_added`, `callback_register`, `rmw_/rcl_/rclcpp_take`, `callback_start`, `callback_end` | `Subscriptions`, `SubscriptionApp` |
| Spins of r2r (`processor/r2r.rs`, `analysis/spin_duration.rs`) | per node the open spin instance | `spin_start/wake/end/timeout`, `SpinDuration::process_event` | `Spins` |
| Batch iterator (`bt2-sys/src/iterator.rs`) | current batch and index, slot shared with the C callback | `MessageIterator::next`, `next_batch`, `consume` | `EventStream` (abstract), `BatchIterator` |
| Command line and trace search (`argsv2.rs`), graph construction (`bt2-sys/src/iterator.rs`, `graph/mod.rs`) | requested outputs, traces found, components and connections, references to the shared slot | `prepare_trace_paths`, `BatchMessageIterator::new`, `construct_graph`, `drop` | `Startup` |
| Event loop (`main.rs`) | counters, analyses, outputs | `next`, `run` | `EventLoop` |
| Services, clients, timers, and error reports on them (`processor/ros2.rs`, `error.rs`, `model/display.rs`) | three registries, their lists in the nodes, callbacks | `rcl_service/client/timer_init`, `rclcpp_timer_link_node`, their `callback_added`, `callback_register/start/end`, displaying | `Callers`, `CallerApp` |
| Message latencies (`analysis/message_latency.rs`, `message_take_to_callback_execution_latency.rs`) | pending messages, series of latencies | `process_event`, `finalize` | `Latencies` |
| Callback analyses (`callback_duration.rs`, `publication_in_callback.rs`, `callback_dependency.rs`, `utilization.rs`) | executions, the callback active on each thread, publications by callbacks, the callback graph | `process_event`, `finalize`, utilizations | `CallbackAnalyses` |
| Dependency graph (`analysis/dependency_graph.rs`) | activations, durations, edges with delays and latencies | `process_event`, drawing | `DependencyGraph` |
| Statistics (`statistics.rs`) | none (pure) | sort, quantile, median, mean | `Statistics` |
| Event types, display, other FFI wrappers, notebooks | none of their own | parsing, formatting | not modelled |

Interaction: the processor calls methods of the model objects while it holds their locks;
an analysis runs within the step of the event and sees the objects as the processor left
them, after the loop has counted it; the callback of the batch iterator runs inside the babeltrace2 graph and talks to
the iterator through one shared slot. Any `Err` of a handler ends the run before any
output is written (`src/main.rs:292`), and so does any panic.

### What is hard, and the property that would notice

`PROJECT.json` lists each hazard at its line. In short:

* **Interleaving.** Layers of several publications or takes are pending at once and are
  told apart only by reusable addresses (`WaitsInOnePlace`, `EveryPublicationIsFiled`,
  `AttributionIsExact`); which callback published is told by the thread alone
  (`PublicationsAreAttributed`).
* **Order.** `rcl_publish` may come before the publisher is known (relocated `/rosout`
  publishers); a stub stands for it and `rmw_publish` repairs the link
  (`OnlyStubsAreReplaced`, `FiledUnderItsTopic`). Analyses update several records at
  several events, which must stay those of the same thing (`EdgesRecordEvents`,
  `DurationsAgree`, `EachMessageCountsOnce`).
* **Stale state.** Registries are keyed by addresses whose owner may be gone
  (`LiveIsFoundByRmw`, `RegistriesAgreeOnLive`, `LiveIsFound`, `CallerIsAlive`,
  `RegistriesHoldLive`, `CallerIsReached`, `EventsReachCurrent`, and `TraceAccepted` for
  the run as a whole).
* **Bounds.** The queue of taken messages drops its oldest entry when it is full
  (`QueueHoldsOwnMessages`, `TriggeredInOrder`).
* **Missing events.** Every property of `Publishers`, `Subscriptions` and `Callers`, whose
  event streams are arbitrary.
* **Deadlock.** `NeverHangs`, of subscribers and of error reports.
* **Protocol with C code.** `SlotIsHandedOver`, `ImplementsStream`, `ReachesEnd`,
  `GraphIsRunnable`.
* **Partial failure and partial results.** `SlotIsReleased`, `OutputsAreOfWholeTrace`,
  `RequestedIsComputed`, and `CountersAccountForStream`, also after a panic in the middle of
  an event.
* **Numbers.** `QuantilesAreNearestRank`; `UtilizationAddsUp`, which says when the divisor
  of a utilization is not positive (only by the period of a timer, which nothing checks);
  `WeightIsInRange`, which says which range an edge is coloured in and when it has no width.

## 2. How the models are built

**Events.** The processor reacts to one event at a time, so each handler is one action,
with every call it makes. In `Publishers` and `Subscriptions` any event may come at any
time with any arguments: that is what a trace with holes looks like. `PublisherApp` and
`SubscriptionApp` (and `CallerApp`) put an application in front of the same actions (each application
step is the conjunction of what the application does and the handler of the event it
emits), because "the trace of a correct application is accepted" and "the message
belongs to this publication" are meaningful only relative to what really happened.

**Objects.** `Arc<Mutex<T>>` objects live in heaps: functions from a pool of references
to a record or `Nil`. `New...` picks an unused reference, and creating an object needs
one (`FreePublisher` etc.): the pools bound the objects a behaviour creates.
A removed or overwritten object stays in the heap as the code's `Arc`s keep it alive.
Times are reduced to whether they are known, or to the few values a lookup compares.

**Failure.** `outcome` is `running`, `failed` (a handler returned `Err`), `panicked`
(an assertion or an `unwrap`), `hung` (a thread blocked on its own mutex). Nothing
follows any but the first, as in `run`; hence `CHECK_DEADLOCK FALSE`.

**Mutated forms.** Next to some definitions stands a second one, marked as mutated: a
plausible mistake in the same code (a dropped reset, a swapped key, `get` for `remove`).
No specification uses it; replacing the original by it makes TLC find the named property
violated, which shows that the property speaks about that code.

### `Publishers`
State: `nodes`, `nodePublishers` (`Node::publishers`), `publishers`, `publishersByRmw`,
`publishersByRcl`, `messages`, `messagesByRclcpp`, `messagesByRcl`, `published` - the maps
of `Processor` (`processor/mod.rs:147`) and the heaps they refer to. Operators such as
`AcceptsRmwInit`/`AfterRmwInit` are one method of a model object each: when it succeeds
and what the object is afterwards. Two details kept on purpose: the publisher which
`rcl_publisher_init` creates in place of an initialised one gets no rmw handle, and when
`rmw_publish` replaces a stub the real publisher's former rcl handle stays registered.

### `Subscriptions`
State as above for subscribers, with three registries, `received` by address, the queue
`taken` in each subscriber (`TAKEN_MESSAGES_MAX` is the constant `TakenMax`) and the
callback objects with their running trigger. Of the publication side only the keys of the
published file are left. `Hang` is the error path of `rclcpp_subscription_init`.

### `Spins`
One instance per node, or none. The setting of a run (is the trace complete? is the
analysis on?) is chosen initially and never changes. A complete trace has each
executor's events in the order r2r emits them (`Moves`); otherwise any spin event may
come at any time.

### `Callers`, `CallerApp`
Services, clients and timers are objects of one heap, told apart by their kind, since the
handlers differ in little: an init event replaces a known object it does not fit
(`Initialise`). Callbacks hold their caller weakly; `Held` says where strong references
come from, and `CallbackStart` unwraps the weak one. An error report locks the objects it
shows, and what is shown of one object shows others (`ShownByCallback`, `ShownByCaller`,
which follow the alternate form of the formatters): a report that comes back to an object
it is showing ends in the outcome `hung`. `CallerApp` is the application, or any events.

### `Execution`, `CallbackAnalyses`, `DependencyGraph`, `Statistics`
`Execution` is external: threads that run callbacks, publish and take, and executors that
wake up and end their spin, seen through the processed events. `CallbackAnalyses` has an operator for what each analysis does at each
event and a predicate for what it asserts of it; `DependencyGraph` adds the graph and
puts them together, one action per event, as the event loop shows each event to every
analysis in turn. A debug assertion at `SpinEnd` asks that the node was seen to wake up:
`SpinEnd` panics otherwise, which a trace that begins in the middle of a spin would meet
(the traces here begin before the application). After `Finalize`, `Weigh` is one round of
`process_edges`: it looks the ends of an edge up among the nodes, which may panic, and
widens the range of the type and node of the edge (`ranges`, one for each `Scale`, at first
`Unset`: the pair of `i64::MAX` and `i64::MIN`). When all edges are weighed the graph is
drawn, with the range `RangeOf` of each edge that has one (`HasRange`). Time is the number
of events, so durations and latencies have values that can be compared with what happened,
and times grow strictly; two events of a real trace may have one timestamp.
`LatencyInvalid` stands both for `LATENCY_INVALID` and for the `i64::MAX` of an unset
minimum, as in the code the two are one number. A range without a width divides the weight
of an edge by zero, and the colour and thickness are not numbers; formatting that is not
modelled, but `WeightIsInRange` says that it happens exactly where all median latencies on
the scale are one and the multiple of it is not more. `MinMultiplier` is a fraction and the
product exact, where the code has `f64`.
The period of a timer (`PeriodOf`) is any number, as the event that gives it is not checked:
with a period of 0 or less the utilization is infinite, negative or not a number.
`Statistics` has quantiles and means on exact integers. `Sorted` puts the element of rank
r at r, which is the order a stable sort gives; sums, and the durations of a thread
(`OnThread`), follow the loops that compute them, as recursive functions.

### `Latencies`
The two latency analyses, composed with `SubscriptionApp`: they react in the step of the
event to the objects as the processor left them. A latency is represented by the message
it is of and the layer its receive time is from. `TakeNothing` is a take without a message.

### `EventStream`, `BatchIterator`, `Startup`, `EventLoop`
`EventStream` is what the event loop may rely on: each message once, in order, then the
end, or a failure. `BatchIterator` is the implementation, with the callback, "again"
answers, empty batches, empty slots and both kinds of failure; it is shown to implement
`EventStream` (`Stream == INSTANCE EventStream WITH position <- delivered, state <-
outcome`). `Startup` goes from the command line to a graph: the search for traces (the
paths in turn, a directory before those below it, siblings in any order), which ends with
an error when there is none (`SearchFails`) and may panic at any directory (it cannot be
read, its path is not UTF-8, or babeltrace2 does not answer: `SearchPanics`); one source per
trace, the muxer and a connection per stream, the sink. `PortsOf` gives a trace any number
of streams, none included, as `construct_graph` loops over whatever number it is told. Any
step of the construction may fail, and the references to the slot the sink shares with the iterator
are counted through every way to end. `EventLoop` composes `Startup` and `EventStream`
with the loop of `next` and the outputs of `run`; the tables `Output`, `Reads`,
`EnabledBy` and `Analyses` are those of `run` and `all_as_mut`. Panics come where the code
has them: in the processor, before the event is counted (`ProcessingPanics`); in any of the
enabled analyses, when the event is counted and those before have processed it
(`AnalysisPanics`); when an analysis is finalized (`FinalizingPanics`); and while an output
is written, be it an unwrap of `run` or the writer itself (`WritePanics`). Which panics the
analyses really have is the matter of `DependencyGraph` and `Latencies`.

## 3. The runs

| Run | Question | Result |
|---|---|---|
| `publisher_app` | arbitrary events: do registries and objects agree, and do messages keep to one place, one publisher, one topic? And is the trace of an application processed to its end with every publication filed, when freed address pairs are reused together and `/rosout` publishers move? | holds |
| `publisher_app_reuse` | the latter when the two addresses are reused independently | **violated** |
| `subscriptions` | arbitrary events: are live subscribers found, do callbacks keep their subscriber, is a message matched within its topic, do queues past their limit keep their messages and the order? | holds |
| `subscriptions_hang` | does every handler return? | **violated** |
| `subscription_app` | is each callback attributed the very message it ran on, and do the latency analyses count each message once, from the right layer? | holds |
| `latency_of_nothing` | are the latencies recorded at the end those of messages? | **violated** |
| `callers` | do services, clients and timers on reused addresses get their own events and callbacks, and does every error report end? | holds |
| `spins` | complete and partial traces of two executors: does the instance follow the executor, and does nothing stop a complete trace? | holds |
| `batch_iterator` | does the iterator implement the stream, and reach its end? | holds |
| `event_loop` | every search of a small tree, every failure and panic of the start, every stream of four slots, every pair of outputs, a panic of any analysis | holds |
| `analyses` | do the callback analyses and the graph agree with each other and with what ran, on two threads, without a panic? | holds |
| `graph_services` | is the graph drawn when a service was called? | **violated** |

**The violations.**
* `publisher_app_reuse`: publisher A had addresses (r, h). B gets (r', h): A is marked
  removed through h, but stays registered under r. C gets (r, ..): `rmw_publisher_init`
  finds A and asserts that it is not removed (`model/mod.rs:443`), although the handler
  means to replace such a publisher (`processor/ros2.rs:64`). The subscriber handlers
  have the same shape; `AnyReuse = TRUE` in `MCSubscriptionApp.cfg` shows it.
  `RegistriesHoldLive` shows that services, clients and timers, which have one registry
  each, are not affected.
* `subscriptions_hang`: the error of a repeated `rclcpp_subscription_init` is built from
  the subscriber while the statement still holds its lock, and building it locks again
  (`processor/error.rs:68`).
* `latency_of_nothing`: `MessageLatency` adds the message of every `rmw_take` to the
  pending ones, taken or not (`analysis/message_latency.rs:215`); no later event names the
  message of a take that took nothing, so `finalize` records it.
* `graph_services`: an edge from a service to its callback is added like any other, but
  the drawing knows no nodes for services and indexes a map with one
  (`analysis/dependency_graph.rs:733`).

Two more things the models show without a run of their own. A `spin_end` whose
`spin_start` or `spin_wake` was lost makes `SpinDuration` panic
(`analysis/spin_duration.rs:47`; the outcome `analysis` of `Spins`, which needs
`complete` to be false). And when the sink was added but cannot be connected, both
`finalize()` and the error arm of `BatchMessageIterator::new` give back one reference
(`bt2-sys/src/iterator.rs:136`): the exception `SlotIsReleased` states.

**Bounds.** Handles, topics, gids, addresses and stamps: two of a kind wherever one could
be confused with another, one where the property does not compare them (three rcl handles
in `publisher_app`, so that a relocated publisher finds a fresh one; three gids in the
application runs, so that an address pair gets a second owner). Objects: in
`publisher_app` four publishers under an application (two slots, one recreated, one stub)
and two under arbitrary events (`FewPublishers`: a real one and a stub, or an old and a
new owner of an address), and two messages. `subscriptions` spends its states in three
places (`focus` in `MCSubscriptions`): registrations of three subscribers of one topic
(an old owner, a new owner and a third that conflicts with both through other layers)
without messages; two registered subscriptions, started after their registration events
(`ReadyInit`, a state `Spec` reaches), with four messages and a queue of two, which
overflows twice; and two subscribers of any topics on one handle with two messages to
match. Nothing depends on `TakenMax` beyond "full". `callers` has two handles of each kind, two callback addresses and three objects, so
that each address gets a second owner while a first one lives. `analyses` has a timer,
two subscribers in two nodes, one publisher, and six events after the registrations: enough for two executions
of one callback, or for a callback that publishes to another that it starts, on either
thread. The timer has a period of 0, so that what the utilization of the others is divided by
is measured; wake-ups are tried of executors with timers only, since nothing else reads them,
and edges are weighed in one order (the theorems are of any wake-up and any order). Spins: three per node, enough to replace an open instance and to end the next. The
iterator runs over seven slots with blanks inside, at a batch's end and at the trace's
end, in batches of up to three, empty ones included. The event loop runs over four slots
of every kind; over the searches of a tree of three directories, with overlapping paths,
traces in traces, a trace without streams and an unreadable directory; and over every pair of
outputs and all of them, since an output can only miss its own analysis. The searches go with
a stream of events and the outputs with every stream, since the loop reads nothing of the
graph.
Symmetry is used for handles, gids, addresses and threads; not for references, which
`CHOOSE` picks, and not with the liveness property.

**Fairness.** Only `BatchIterator` has a liveness property. The thread that calls `next`
runs on (weak fairness of its own steps), and babeltrace2 does not answer "again" or hand
out empty batches forever (strong fairness of a proper answer, since the other answers
interrupt it). The code justifies nothing weaker: both loops spin until babeltrace2
answers. No fairness is assumed anywhere else; the violations are of safety properties.

## 4. The proofs

All for every value of the constants, from the named assumptions of the modules (the
sentinels `Nil` and `Unknown` are not among the values they stand beside; sizes are
naturals; objects of two types, such as a publisher and a callback, are two objects).

* **`PublishersProofs`.** `TypeOK` is not inductive: a handler updates the object a
  registry or a message refers to, which keeps its type only if the reference does not
  dangle. `RefsOK` restricts every reference to existing objects and is inductive; one
  lemma per handler shows it kept (`...KeepsRefs`). From it follow `TypeCorrect` and
  `NothingDangles`. `MessagesWaitInOnePlace` (`WaitsInOnePlace`) is inductive on top of
  `RefsOK`: a fresh message waits nowhere, and the layers a message passed tell which of
  the maps it can be in. `AttachedAlwaysHasRclHandle` needs both: the message a stub is
  replaced for came out of the rcl map, so its publisher has a handle to pass on.
  `LiveAlwaysFoundByRmw`: the invariant is put as a relation between any heap and any
  registry (`LiveIn`), each single write a handler is composed of keeps it (`LiveRewrite`,
  `LiveWrite`, `LiveReplace`). `AlwaysFiledUnderItsTopic` needs that a known topic never
  changes, which holds because a topic comes with an rcl handle (`TopicHasRcl`) and the
  handle is given once, and that a message on its way to rmw was not filed
  (`QueuedIsUnfiled`, from the two invariants before). `OnlyStubsAreEverReplaced` says the
  same of every step (`OnlyStubsAreReplaced`).
  The application takes only steps of `Publishers` (`AppIsStream`, without any
  hypothesis). The other theorems about it assume `~AnyReuse`: freed
  addresses are reused in pairs, which `publisher_app_reuse` shows to be needed. Under it
  an rcl address belongs to one rmw address for good (`Owned`, by induction, relocations
  included), so the publisher the rcl registry has at the handle of a slot is one of the
  slot's rmw address or a stub (`ByRclOK`); the one that `rcl_publisher_init` marks removed
  is never one the rmw registry still has. What the rmw registry has was initialised with a
  gid used before (`ByRmwOK`), so a new gid always replaces it. A message past rcl carries
  the publisher of its slot or a stub of one of the slot's former handles (`SendingOK`).
  Together these are `TraceInv`: the case of `rmw_publish` with two different initialised
  publishers does not arise, which gives `TraceAlwaysAccepted`,
  `EveryPublicationIsAlwaysFiled` and `RegistriesAlwaysAgreeOnLive`.
* **`SubscriptionAppProofs`, about `Subscriptions`.** The properties hold only together. `CallerIsAlive` (the weak
  reference of a callback can be upgraded) needs what registration leaves behind in a
  subscriber (`ListedByNode`: a topic and a node come with the rcl handle, an rclcpp
  handle only after it), the match of a message keeps its topic because the topic is
  given once, and a callback pops a queue that exists because its caller does. `IInv` is
  the conjunction of the run's properties, `ListedByNode` and the absence of dangling
  references. Every registration handler writes one object, marks some others removed and
  enters one registry (`Writes`, `Enters`), so one lemma (`WritesKeep`) covers them all.
  From `IInv`: `TypeCorrect`, `QueuesHoldOwnMessages`, `MatchesKeepTheirTopic`,
  `CallersStayAlive`, `LiveStaysFound`, and the action property `CallbacksTakeInOrder`
  (`TriggeredInOrder`), with `KeepsTaken` for the steps that leave queues alone.
* **`SubscriptionAppProofs`, about the application and the latencies.** For every number of
  subscriptions and threads, when addresses are reused together (`~AnyReuse`). `TraceInv` says what the processor has of a slot in
  each phase (`SlotOK`): what the rmw registry has at the slot's address is a subscriber of
  the slot's other handles as far as they are registered, and the callback at its callback
  address is that subscriber's and runs the slot's message. `WorkOK` says that the queue is
  the channel of the application followed by the message being taken, `TakingOK` that the
  message a thread takes is at its address with the layers it passed so far. They hold because
  what the processor has at an address is of the handles the address belongs to (`Owned`,
  `HandlesOK`, `AddressOK`), so that an object of a destroyed slot is recognised and replaced,
  and because a step of one slot leaves the others alone (`Elsewhere`). This gives
  `TraceIsAccepted` and `AttributionAlwaysExact`. The analyses add `MessageOK` (a message is
  pending, or counted once for its subscriber, never both) and `LeftQueue` (a message whose
  callback started is never queued again, by `QueuedBefore`, which holds of any step of
  `Subscriptions`): `EveryMessageCountsOnce`, `WaitingIsFromTheTake`, and
  `AnalysesOnlyLookOn`, by which what is proved of the application holds with the analyses.
  What a series gains is read off the definition of `SetToSeq` (`SetToSeqLists`).
* **`SpinsProofs`.** `TypeCorrect`, `SpinsStayOpen` (`CurrentSpinIsOpen` is inductive with
  `TypeOK`) and `CompleteIsAccepted`: `InstanceFollowsExecutor` ties the instance to the
  executor's phase, which is why no assertion of the instance and no unwrap of the
  analysis fails on a complete trace; `InstanceAlwaysFollows` is that property.
* **`BatchIteratorProofs`.** `IInv` says who holds the batch at each point (`SlotOK`) and
  that only empty slots lie between the last delivered message and the first one not
  looked at (`FrontOK`). From it: `TypeCorrect`, `SlotAlwaysHandedOver`, and the
  refinement `Implementation`: `Spec => ImplementsStream`.
* **`EventLoopProofs`.** Three parts with an invariant each. `GraphInv`: the stage of the
  construction says who holds the slot, that every trace found has a source or is waiting for
  one (`NoTraceLost`), that no port is connected twice, and once the sink is there that none
  is left. So a trace without streams is a source without connections, and a graph of such
  traces alone has a muxer without any: `GraphAlwaysRunnable` says as much and no more.
  `StreamInv`: the stream ends behind the last message. `PhaseTells` ties the loop to both:
  what is open, built, finalized or over in each phase. With `OneMore` (a delivered message
  is one more of its kind, since only blanks are passed over) and `InStep` (until a panic all
  analyses have processed the same events; `PanicInTurn` has the event one of them panics at)
  they make the run's invariants inductive: `CountersAlwaysAccount`, `OutputsAlwaysOfWholeTrace`,
  `RequestedAlwaysComputed`, `GraphAlwaysRunnable`, and of every step
  `SlotAlwaysReleased`.
* **`CallersProofs`.** `CallerIsReached` speaks of callers that are gone, which one state
  of the registries does not explain: what is known of a replaced caller comes from the
  life it had. `IInv` adds that only an initialised caller is replaced, that an
  initialised service or client knows its node, that the node a caller knows lists it
  (`ListedByNode`), and that callbacks and callers refer to each other (`Mutual`); one
  lemma per handler shows it kept. From it: `TypeCorrect`, `RegistriesAlwaysHoldLive`,
  `CallerAlwaysReached`. `ErrorsAlwaysReported` (`NeverHangs`) rests on what the
  alternate form of a report leaves out (`ReportsEnd`).
  The application takes only steps of `Callers` (`AppIsStream`), so
  `IInv` holds of its traces. `SlotOK` adds what the processor has at a handle in each
  phase of the object there: an initialised caller, without a callback until one is added
  and without a node until it is linked; whatever callback is left at the address is one
  of an earlier object of the handle. It follows that the address is free when a callback
  is added (`AddressIsFree`) and that the former caller is always replaced, never reused
  (`InitialiseReplaces`). A step at one handle leaves the others alone (`Elsewhere`).
  `EventsAlwaysReachCurrent` rests on an assumption on the application: objects of two
  handles have their callbacks at two addresses. The end of an object is not traced, so
  the processor reports a callback at the address of another handle's former object as
  "Object already exists".

* **`DependencyGraphProofs`.** The analyses see only events, so `IInv` relates what each
  recorded to what the system did. `Linked`: an instance is active in
  `PublicationInCallback` and in `DependencyGraph` exactly as long as its thread executes
  it, and a callback runs on one thread; so the assertions about the running callback hold
  and a publication is attributed by thread to the callback it is of (`AttributionOK`).
  `ActivityOK`: a callback has one activation for each execution, the running one
  included, which makes the two records of durations and of times between starts equal;
  `EdgesOK` says the same of the edge that invokes it. `DrawableOK`: what an edge joins was
  activated before. `CausedOK`: a cause is a publication on the topic of the started
  subscriber. An event of a thread is first shown to be accepted (`StartIsAccepted`,
  `EndIsAccepted`, ...), with its whole effect as one formula (`Started`, `Ended`,
  `Publishes`, `Takes`); each part of `IInv` is then shown kept by each effect. From it:
  `TypeCorrect`, `PublicationsAlwaysAttributed`, `DurationsAlwaysAgree`,
  `CausesAreAlwaysEdges`, and, if there are no services, `NoAnalysisEverPanics`, with
  `WakesOK` (a node whose executor is awake was seen to wake up) for the assertion at the end
  of a spin. `graph_services` shows that hypothesis to be needed.
  What is computed from the records needs more of them than `IInv` says. `RecordsOK`,
  inductive together with it: the executions of a callback start one after the other (`OrderedOK`), and the delays of the edge to a
  publisher lead from the first message to the last, one for each but the first
  (`PublishedOK`; a new message is later than all others, since time grows with each
  event). From it: `EdgesAlwaysRecordEvents`, and `UtilizationAlwaysAddsUp`, where the times
  on the threads add up to that of all executions by induction over the executions
  (`ThreadsShareTime`) and a measured time between starts is positive because they ascend
  (`InterArrivalIs`); of the period of a timer nothing is assumed.
  `WeighingOK` follows the drawing edge by edge: a range is that of the edges weighed so far
  on its scale, and `Unset` only if there is none (`Covers`, kept by `WidenedCovers`). When
  all are weighed, what was weighed on a scale is what the property says an edge is to be
  compared with (`AlikeAreOnScale`): `WeightsAreAlwaysInRange`, in whatever order.
* **`StatisticsProofs`.** For every sequence of integers: `SortedIsSorted` (the sorted form
  ascends and is a permutation), and `QuantilesAreOfNearestRank`, from which
  `QuantilesAreAlwaysNearestRank` follows for the durations of callbacks. Every rank is
  taken by one position, since a later position counts more (`LaterRanks`,
  `EveryRankIsTaken`), and the rank a quantile rounds up to is the least one that
  reaches it. Sums are bounded by their largest and smallest element (`TotalIsBounded`),
  and do not depend on the order in which a set is gone through (`AnyElementFirst`).
  The library's induction theorems have an operator as a parameter, which no prover
  here can instantiate. Induction is stated of sets instead: a set with 0 and with n + 1
  for every n it has contains the naturals, by the well-foundedness of `<` (`Induction`),
  and from it induction over sequences and over finite sets. What a recursive function
  has for values follows once a function is shown to satisfy its equation (`SumExists`,
  `SumsOverExist`, `CollectionExists`).

Every invariant and action property of the passing runs is proved. Only model-checked: the
liveness `ReachesEnd`, since fairness and `ENABLED` are outside of what the provers do.
The four violations are TLC's.

## 5. Not modelled, and what comes next

Not modelled for good: event parsing and types (generated from field layouts), the
parsing of the command line (clap), display and Graphviz output (formatting; the locks it
takes are in `Callers`, the ranges of colours in `DependencyGraph`), the other FFI
wrappers (single C calls), the notebooks (plots of the outputs), rounding of f64, and the
clocks of several hosts: the models have one order of events, as the muxer makes one.

Left, in this order:

1. `Publishers` and `Subscriptions` composed over the published file, with several hosts
   (`Id` and `ContextId`), and an abstract channel per topic which they implement.
2. The analyses on a trace that starts in the middle: unknown publishers, topics and
   names, which `DependencyGraph` and `CallbackDependency` unwrap.
3. Proofs: the application of `PublisherApp` implements the abstract channel of 1.

Modules which the plan proves about use no RECURSIVE operators; recursive
functions take their place.
