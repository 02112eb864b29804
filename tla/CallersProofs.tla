--------------------------- MODULE CallersProofs ---------------------------
(***************************************************************************)
(* Proofs about Callers, for every set of nodes, handles, addresses and    *)
(* objects, and about CallerApp: the events of an application reach the    *)
(* objects it has now.                                                     *)
(*                                                                         *)
(* CallerIsReached is not inductive: that a caller is held is known from   *)
(* the life it went through.  IInv says what that life leaves behind: only *)
(* an initialised caller is replaced, an initialised service or client     *)
(* knows its node, and the node a caller knows lists it.                   *)
(*                                                                         *)
(* The application only takes steps Callers takes, so IInv holds of it.    *)
(* SlotOK says on top of it what the processor has at one handle in each   *)
(* phase of the object there; a step at one handle leaves what belongs to  *)
(* the others alone (Elsewhere).                                           *)
(***************************************************************************)
EXTENDS CallerApp, TLAPS

KnownCallbacks ==
  \A f \in CallbackHandle : callbacksById[f] # Nil => callbacks[callbacksById[f]] # Nil

ListedByNode ==
  \A c \in Caller :
    callers[c] # Nil =>
      /\ callers[c].removed => callers[c].initialised
      /\ callers[c].initialised => callers[c].kind = "timer" \/ IsKnown(callers[c].node)
      /\ IsKnown(callers[c].node) => c \in nodeCallers[callers[c].node]

Mutual ==
  \A k \in Callback :
    callbacks[k] # Nil => /\ callers[callbacks[k].caller] # Nil
                          /\ callers[callbacks[k].caller].callback = k

IInv == TypeOK /\ RegistriesHoldLive /\ KnownCallbacks /\ ListedByNode /\ Mutual
-----------------------------------------------------------------------------
LEMMA NilIsNothing ==
  /\ Nil \notin Caller
  /\ Nil \notin Callback
  /\ Nil \notin CallerObject
  /\ Nil \notin CallbackObject
  BY CallersAssumption

LEMMA FreshCaller ==
  ASSUME FreeCaller
  PROVE  NewCaller \in Caller /\ callers[NewCaller] = Nil
  BY DEF FreeCaller, NewCaller

LEMMA FreshCallback ==
  ASSUME FreeCallback
  PROVE  NewCallback \in Callback /\ callbacks[NewCallback] = Nil
  BY DEF FreeCallback, NewCallback

(* What the methods of Service, Client and Timer make of an object. *)
LEMMA DefaultCallerFields ==
  ASSUME NEW kind \in Kind, NEW h \in Handle
  PROVE  LET o == DefaultCaller(kind, h) IN
         /\ o \in CallerObject
         /\ o.kind = kind /\ o.rcl = h /\ ~o.initialised
         /\ IsUnknown(o.node) /\ IsUnknown(o.callback) /\ ~o.removed
  BY DEF DefaultCaller, CallerObject, Maybe, IsUnknown

LEMMA AfterInitFields ==
  ASSUME NEW o \in CallerObject, NEW n \in Maybe(NodeHandle)
  PROVE  LET u == AfterInit(o, n) IN
         /\ u \in CallerObject
         /\ u.kind = o.kind /\ u.rcl = o.rcl /\ u.initialised
         /\ u.node = n /\ u.callback = o.callback /\ u.removed = o.removed
  BY DEF AfterInit, CallerObject

LEMMA AfterRemovalFields ==
  ASSUME NEW o \in CallerObject
  PROVE  LET u == AfterRemoval(o) IN
         /\ u \in CallerObject
         /\ u.kind = o.kind /\ u.rcl = o.rcl /\ u.initialised = o.initialised
         /\ u.node = o.node /\ u.callback = o.callback /\ u.removed
  BY DEF AfterRemoval, CallerObject

LEMMA AfterLinkFields ==
  ASSUME NEW o \in CallerObject, NEW n \in NodeHandle
  PROVE  LET u == AfterLink(o, n) IN
         /\ u \in CallerObject
         /\ u.kind = o.kind /\ u.rcl = o.rcl /\ u.initialised = o.initialised
         /\ u.node = n /\ u.callback = o.callback /\ u.removed = o.removed
  BY DEF AfterLink, CallerObject, Maybe

LEMMA AfterSetCallbackFields ==
  ASSUME NEW o \in CallerObject, NEW k \in Callback
  PROVE  LET u == AfterSetCallback(o, k) IN
         /\ u \in CallerObject
         /\ u.kind = o.kind /\ u.rcl = o.rcl /\ u.initialised = o.initialised
         /\ u.node = o.node /\ u.callback = k /\ u.removed = o.removed
  BY DEF AfterSetCallback, CallerObject, Maybe

(* A caller keeps its callback: the two go on referring to each other. *)
LEMMA MutualKept ==
  ASSUME TypeOK, Mutual,
         \A k \in Callback : callbacks'[k] # Nil =>
           callbacks[k] # Nil /\ callbacks'[k].caller = callbacks[k].caller,
         \A c \in Caller : callers[c] # Nil =>
           callers'[c] # Nil /\ callers'[c].callback = callers[c].callback
  PROVE  Mutual'
<1>1. \A k \in Callback : callbacks[k] # Nil => callbacks[k].caller \in Caller
  BY DEF TypeOK, CallbackObject
<1>. QED
  BY <1>1 DEF Mutual
-----------------------------------------------------------------------------
(* One lemma per action. *)
LEMMA StopKeeps ==
  ASSUME IInv, outcome' \in {"running", "failed", "panicked", "hung"},
         UNCHANGED <<registry, heaps>>
  PROVE  IInv'
  BY DEF IInv, TypeOK, RegistriesHoldLive, KnownCallbacks, ListedByNode, Mutual,
         registry, heaps

LEMMA NodeAppearsKeeps ==
  ASSUME IInv, NEW n \in NodeHandle, NodeAppears(n)
  PROVE  IInv'
<1>1. TypeOK'
  BY DEF IInv, TypeOK, NodeAppears, Continue, heaps
<1>2. UNCHANGED <<nodeCallers, callersByRcl, callbacksById, callers, callbacks>>
  BY DEF NodeAppears, heaps
<1>. QED
  BY <1>1, <1>2 DEF IInv, RegistriesHoldLive, KnownCallbacks, ListedByNode, Mutual

(* A callback is named, started or ended. *)
LEMMA CallbackWriteKeeps ==
  ASSUME IInv, NEW k \in Callback, callbacks[k] # Nil,
         NEW o \in CallbackObject, o.caller = callbacks[k].caller,
         callbacks' = [callbacks EXCEPT ![k] = o],
         UNCHANGED <<outcome, nodes, nodeCallers, callers, callersByRcl, callbacksById>>
  PROVE  IInv'
<1>1. TypeOK'
  BY DEF IInv, TypeOK
<1>2. \A j \in Callback : callbacks'[j] # Nil =>
        callbacks[j] # Nil /\ callbacks'[j].caller = callbacks[j].caller
  BY DEF IInv, TypeOK
<1>3. Mutual'
  BY <1>2, MutualKept DEF IInv
<1>4. \A j \in Callback : callbacks[j] # Nil => callbacks'[j] # Nil
  BY NilIsNothing DEF IInv, TypeOK
<1>5. KnownCallbacks'
  BY <1>4 DEF IInv, TypeOK, KnownCallbacks
<1>. QED
  BY <1>1, <1>3, <1>5 DEF IInv, RegistriesHoldLive, ListedByNode

LEMMA CallbackAtAddress ==
  ASSUME IInv, NEW f \in CallbackHandle, callbacksById[f] # Nil
  PROVE  /\ callbacksById[f] \in Callback
         /\ callbacks[callbacksById[f]] # Nil
         /\ callbacks[callbacksById[f]] \in CallbackObject
  BY DEF IInv, TypeOK, KnownCallbacks

LEMMA CallbackRegisterKeeps ==
  ASSUME IInv, NEW f \in CallbackHandle, CallbackRegister(f)
  PROVE  IInv'
<1>. DEFINE k == callbacksById[f]
<1>1. CASE Fail
  BY <1>1, StopKeeps DEF Fail, Stop
<1>2. CASE k # Nil /\ callbacks' = [callbacks EXCEPT ![k].named = TRUE]
           /\ Continue /\ UNCHANGED <<registry, callers>>
  <2>1. k \in Callback /\ callbacks[k] # Nil /\ callbacks[k] \in CallbackObject
    BY <1>2, CallbackAtAddress
  <2>2. [callbacks[k] EXCEPT !.named = TRUE] \in CallbackObject
    BY <2>1 DEF CallbackObject
  <2>3. [callbacks[k] EXCEPT !.named = TRUE].caller = callbacks[k].caller
    BY <2>1 DEF CallbackObject
  <2>4. callbacks' = [callbacks EXCEPT ![k] = [callbacks[k] EXCEPT !.named = TRUE]]
    BY <1>2
  <2>5. UNCHANGED <<outcome, nodes, nodeCallers, callers, callersByRcl, callbacksById>>
    BY <1>2 DEF Continue, registry
  <2>. HIDE DEF k
  <2>. QED
    BY <2>1, <2>2, <2>3, <2>4, <2>5, CallbackWriteKeeps
<1>. QED
  BY <1>1, <1>2 DEF CallbackRegister

LEMMA CallbackStartKeeps ==
  ASSUME IInv, NEW f \in CallbackHandle, CallbackStart(f)
  PROVE  IInv'
<1>. DEFINE k == callbacksById[f]
<1>1. CASE Fail \/ Panic
  BY <1>1, StopKeeps DEF Fail, Panic, Stop
<1>2. CASE k # Nil /\ callbacks' = [callbacks EXCEPT ![k].running = TRUE]
           /\ Continue /\ UNCHANGED <<registry, callers>>
  <2>1. k \in Callback /\ callbacks[k] # Nil /\ callbacks[k] \in CallbackObject
    BY <1>2, CallbackAtAddress
  <2>2. [callbacks[k] EXCEPT !.running = TRUE] \in CallbackObject
    BY <2>1 DEF CallbackObject
  <2>3. [callbacks[k] EXCEPT !.running = TRUE].caller = callbacks[k].caller
    BY <2>1 DEF CallbackObject
  <2>4. callbacks' = [callbacks EXCEPT ![k] = [callbacks[k] EXCEPT !.running = TRUE]]
    BY <1>2
  <2>5. UNCHANGED <<outcome, nodes, nodeCallers, callers, callersByRcl, callbacksById>>
    BY <1>2 DEF Continue, registry
  <2>. HIDE DEF k
  <2>. QED
    BY <2>1, <2>2, <2>3, <2>4, <2>5, CallbackWriteKeeps
<1>. QED
  BY <1>1, <1>2 DEF CallbackStart

LEMMA CallbackEndKeeps ==
  ASSUME IInv, NEW f \in CallbackHandle, CallbackEnd(f)
  PROVE  IInv'
<1>. DEFINE k == callbacksById[f]
<1>1. CASE Fail \/ Panic
  BY <1>1, StopKeeps DEF Fail, Panic, Stop
<1>2. CASE k # Nil /\ callbacks' = [callbacks EXCEPT ![k].running = FALSE]
           /\ Continue /\ UNCHANGED <<registry, callers>>
  <2>1. k \in Callback /\ callbacks[k] # Nil /\ callbacks[k] \in CallbackObject
    BY <1>2, CallbackAtAddress
  <2>2. [callbacks[k] EXCEPT !.running = FALSE] \in CallbackObject
    BY <2>1 DEF CallbackObject
  <2>3. [callbacks[k] EXCEPT !.running = FALSE].caller = callbacks[k].caller
    BY <2>1 DEF CallbackObject
  <2>4. callbacks' = [callbacks EXCEPT ![k] = [callbacks[k] EXCEPT !.running = FALSE]]
    BY <1>2
  <2>5. UNCHANGED <<outcome, nodes, nodeCallers, callers, callersByRcl, callbacksById>>
    BY <1>2 DEF Continue, registry
  <2>. HIDE DEF k
  <2>. QED
    BY <2>1, <2>2, <2>3, <2>4, <2>5, CallbackWriteKeeps
<1>. QED
  BY <1>1, <1>2 DEF CallbackEnd

LEMMA TimerLinkNodeKeeps ==
  ASSUME IInv, NEW h \in Handle, NEW n \in NodeHandle, TimerLinkNode(h, n)
  PROVE  IInv'
<1>. DEFINE c == callersByRcl[<<"timer", h>>]
            o == AfterLink(callers[c], n)
<1>1. CASE UNCHANGED <<registry, heaps>> /\ outcome' \in {"failed", "hung"}
  BY <1>1, StopKeeps
<1>2. CASE /\ c # Nil
           /\ AcceptsLink(callers[c])
           /\ callers' = [callers EXCEPT ![c] = AfterLink(@, n)]
           /\ nodeCallers' = [nodeCallers EXCEPT ![n] = @ \cup {c}]
           /\ Continue
           /\ UNCHANGED <<nodes, callersByRcl, callbacksById, callbacks>>
  <2>1. /\ c \in Caller /\ callers[c] # Nil /\ callers[c] \in CallerObject
        /\ callers[c].kind = "timer" /\ callers[c].rcl = h
        /\ callers[c].removed = FALSE
    BY <1>2 DEF IInv, TypeOK, RegistriesHoldLive, Kind, CallerObject
  <2>2. /\ o \in CallerObject
        /\ o.kind = callers[c].kind /\ o.rcl = callers[c].rcl
        /\ o.initialised = callers[c].initialised
        /\ o.node = n /\ o.callback = callers[c].callback /\ o.removed = callers[c].removed
    BY <2>1, AfterLinkFields
  <2>3. callers' = [callers EXCEPT ![c] = o]
    BY <1>2
  <2>4. UNCHANGED <<outcome, nodes, callersByRcl, callbacksById, callbacks>>
    BY <1>2 DEF Continue
  <2>5. nodeCallers' = [nodeCallers EXCEPT ![n] = nodeCallers[n] \cup {c}]
    BY <1>2
  <2>. HIDE DEF c, o
  <2>6. callers \in [Caller -> CallerObject \cup {Nil}] /\ nodeCallers \in [NodeHandle -> SUBSET Caller]
    BY DEF IInv, TypeOK
  <2>7. callers'[c] = o /\ \A d \in Caller : d # c => callers'[d] = callers[d]
    BY <2>1, <2>3, <2>6
  <2>8. c \in nodeCallers'[n] /\ \A m \in NodeHandle : nodeCallers[m] \subseteq nodeCallers'[m]
    BY <2>5, <2>6
  <2>9. TypeOK'
    <3>1. callers' \in [Caller -> CallerObject \cup {Nil}]
      BY <2>1, <2>2, <2>3, <2>6
    <3>2. nodeCallers' \in [NodeHandle -> SUBSET Caller]
      BY <2>1, <2>5, <2>6
    <3>. QED
      BY <3>1, <3>2, <2>4 DEF IInv, TypeOK
  <2>10. o # Nil
    BY <2>2, NilIsNothing
  <2>11. RegistriesHoldLive'
    BY <2>1, <2>2, <2>4, <2>7, <2>10 DEF IInv, TypeOK, RegistriesHoldLive
  <2>12. KnownCallbacks'
    BY <2>4 DEF IInv, KnownCallbacks
  <2>13. ListedByNode'
    <3>1. SUFFICES ASSUME NEW d \in Caller, callers'[d] # Nil
                   PROVE  /\ callers'[d].removed => callers'[d].initialised
                          /\ callers'[d].initialised => callers'[d].kind = "timer" \/ IsKnown(callers'[d].node)
                          /\ IsKnown(callers'[d].node) => d \in nodeCallers'[callers'[d].node]
      BY DEF ListedByNode
    <3>2. CASE d = c
      BY <2>1, <2>2, <2>7, <2>8, <3>2 DEF IInv, ListedByNode
    <3>3. CASE d # c
      <4>1. callers'[d] = callers[d] /\ callers[d] \in CallerObject
        BY <2>6, <2>7, <3>1, <3>3
      <4>2. IsKnown(callers[d].node) => callers[d].node \in NodeHandle
        BY <4>1 DEF CallerObject, Maybe, IsKnown
      <4>. QED
        BY <4>1, <4>2, <3>1, <2>8 DEF IInv, ListedByNode
    <3>. QED
      BY <3>2, <3>3
  <2>14. Mutual'
    BY <2>2, <2>4, <2>7, <2>10, MutualKept DEF IInv
  <2>. QED
    BY <2>9, <2>11, <2>12, <2>13, <2>14 DEF IInv
<1>. QED
  BY <1>1, <1>2 DEF TimerLinkNode, Fail, FailReporting, Stop

(* Initialise, when the event fits the caller of the registry. *)
LEMMA InitialiseKnownKeeps ==
  ASSUME IInv, NEW e \in Kind \X Handle, NEW n \in Maybe(NodeHandle), NEW c,
         c = callersByRcl[e], c # Nil,
         n \in NodeHandle \/ e[1] = "timer",
         ~callers[c].initialised,
         callers' = [callers EXCEPT ![c] = AfterInit(callers[c], n)],
         callersByRcl' = [callersByRcl EXCEPT ![e] = c],
         nodeCallers' = [m \in NodeHandle |->
                           IF m = n THEN nodeCallers[m] \cup {c} ELSE nodeCallers[m]],
         UNCHANGED <<outcome, nodes, callbacksById, callbacks>>
  PROVE  IInv'
<1>. DEFINE o == AfterInit(callers[c], n)
<1>1. /\ c \in Caller /\ callers[c] \in CallerObject
      /\ <<callers[c].kind, callers[c].rcl>> = e
      /\ callers[c].removed = FALSE
  BY DEF IInv, TypeOK, RegistriesHoldLive, CallerObject
<1>2. /\ o \in CallerObject
      /\ o.kind = callers[c].kind /\ o.rcl = callers[c].rcl /\ o.initialised
      /\ o.node = n /\ o.callback = callers[c].callback /\ o.removed = callers[c].removed
  BY <1>1, AfterInitFields
<1>3. callers' = [callers EXCEPT ![c] = o]
  OBVIOUS
<1>. HIDE DEF o
<1>4. callers \in [Caller -> CallerObject \cup {Nil}] /\ nodeCallers \in [NodeHandle -> SUBSET Caller]
  BY DEF IInv, TypeOK
<1>5. callers'[c] = o /\ \A d \in Caller : d # c => callers'[d] = callers[d]
  BY <1>1, <1>3, <1>4
<1>6. /\ n \in NodeHandle => c \in nodeCallers'[n]
      /\ \A m \in NodeHandle : nodeCallers[m] \subseteq nodeCallers'[m]
  BY <1>4
<1>7. callersByRcl' = callersByRcl
  BY DEF IInv, TypeOK
<1>8. TypeOK'
  <2>1. callers' \in [Caller -> CallerObject \cup {Nil}]
    BY <1>1, <1>2, <1>3, <1>4
  <2>2. nodeCallers' \in [NodeHandle -> SUBSET Caller]
    BY <1>1, <1>4
  <2>. QED
    BY <2>1, <2>2, <1>7 DEF IInv, TypeOK
<1>9. o # Nil
  BY <1>2, NilIsNothing
<1>10. RegistriesHoldLive'
  BY <1>1, <1>2, <1>5, <1>7, <1>9 DEF IInv, TypeOK, RegistriesHoldLive
<1>11. KnownCallbacks'
  BY DEF IInv, KnownCallbacks
<1>12. ListedByNode'
  <2>1. SUFFICES ASSUME NEW d \in Caller, callers'[d] # Nil
                 PROVE  /\ callers'[d].removed => callers'[d].initialised
                        /\ callers'[d].initialised => callers'[d].kind = "timer" \/ IsKnown(callers'[d].node)
                        /\ IsKnown(callers'[d].node) => d \in nodeCallers'[callers'[d].node]
    BY DEF ListedByNode
  <2>2. CASE d = c
    <3>1. n \in NodeHandle => IsKnown(n)
      BY CallersAssumption DEF IsKnown
    <3>2. IsKnown(n) => n \in NodeHandle
      BY DEF IsKnown, Maybe
    <3>3. n \in NodeHandle \/ callers[c].kind = "timer"
      BY <1>1
    <3>. QED
      BY <1>2, <1>5, <1>6, <2>2, <3>1, <3>2, <3>3
  <2>3. CASE d # c
    <3>1. callers'[d] = callers[d] /\ callers[d] \in CallerObject
      BY <1>4, <1>5, <2>1, <2>3
    <3>2. IsKnown(callers[d].node) => callers[d].node \in NodeHandle
      BY <3>1 DEF CallerObject, Maybe, IsKnown
    <3>. QED
      BY <3>1, <3>2, <2>1, <1>6 DEF IInv, ListedByNode
  <2>. QED
    BY <2>2, <2>3
<1>13. Mutual'
  BY <1>2, <1>5, <1>9, MutualKept DEF IInv
<1>. QED
  BY <1>8, <1>10, <1>11, <1>12, <1>13 DEF IInv

(* Initialise, when a new caller takes the entry, and the old one, if there is
   one, was initialised and is marked removed. *)
LEMMA InitialiseNewKeeps ==
  ASSUME IInv, NEW e \in Kind \X Handle, NEW n \in Maybe(NodeHandle), NEW c, NEW b \in Caller,
         NEW old,
         c = callersByRcl[e],
         c # Nil => callers[c].initialised,
         n \in NodeHandle \/ e[1] = "timer",
         callers[b] = Nil,
         old = IF c = Nil THEN callers ELSE [callers EXCEPT ![c] = AfterRemoval(callers[c])],
         callers' = [old EXCEPT ![b] = AfterInit(DefaultCaller(e[1], e[2]), n)],
         callersByRcl' = [callersByRcl EXCEPT ![e] = b],
         nodeCallers' = [m \in NodeHandle |->
                           IF m = n THEN nodeCallers[m] \cup {b} ELSE nodeCallers[m]],
         UNCHANGED <<outcome, nodes, callbacksById, callbacks>>
  PROVE  IInv'
<1>. DEFINE o == AfterInit(DefaultCaller(e[1], e[2]), n)
            r == AfterRemoval(callers[c])
<1>0. e[1] \in Kind /\ e[2] \in Handle /\ e = <<e[1], e[2]>>
  OBVIOUS
<1>1. c # Nil => /\ c \in Caller /\ callers[c] \in CallerObject
                 /\ <<callers[c].kind, callers[c].rcl>> = e
                 /\ c # b
  BY DEF IInv, TypeOK, RegistriesHoldLive, CallerObject
<1>2. /\ o \in CallerObject
      /\ o.kind = e[1] /\ o.rcl = e[2] /\ o.initialised
      /\ o.node = n /\ IsUnknown(o.callback) /\ o.removed = FALSE
  BY <1>0, DefaultCallerFields, AfterInitFields DEF CallerObject
<1>3. c # Nil =>
        /\ r \in CallerObject
        /\ r.kind = callers[c].kind /\ r.rcl = callers[c].rcl
        /\ r.initialised = callers[c].initialised
        /\ r.node = callers[c].node /\ r.callback = callers[c].callback /\ r.removed = TRUE
  BY <1>1, AfterRemovalFields DEF CallerObject
<1>4. /\ old = IF c = Nil THEN callers ELSE [callers EXCEPT ![c] = r]
      /\ callers' = [old EXCEPT ![b] = o]
  OBVIOUS
<1>. HIDE DEF o, r
<1>5. /\ callers \in [Caller -> CallerObject \cup {Nil}]
      /\ nodeCallers \in [NodeHandle -> SUBSET Caller]
      /\ callersByRcl \in [Kind \X Handle -> Caller \cup {Nil}]
  BY DEF IInv, TypeOK
<1>6. old \in [Caller -> CallerObject \cup {Nil}]
  BY <1>1, <1>3, <1>4, <1>5
<1>7. /\ callers'[b] = o
      /\ c # Nil => callers'[c] = r
      /\ \A d \in Caller : d # b /\ d # c => callers'[d] = callers[d]
  BY <1>1, <1>4, <1>5, <1>6
<1>8. /\ n \in NodeHandle => b \in nodeCallers'[n]
      /\ \A m \in NodeHandle : nodeCallers[m] \subseteq nodeCallers'[m]
  BY <1>5
<1>9. /\ callersByRcl'[e] = b
      /\ \A x \in Kind \X Handle : x # e => callersByRcl'[x] = callersByRcl[x]
  BY <1>5
<1>10. TypeOK'
  <2>1. callers' \in [Caller -> CallerObject \cup {Nil}]
    BY <1>2, <1>4, <1>6
  <2>2. nodeCallers' \in [NodeHandle -> SUBSET Caller]
    BY <1>5
  <2>3. callersByRcl' \in [Kind \X Handle -> Caller \cup {Nil}]
    BY <1>5
  <2>. QED
    BY <2>1, <2>2, <2>3 DEF IInv, TypeOK
<1>11. o # Nil /\ (c # Nil => r # Nil)
  BY <1>2, <1>3, NilIsNothing
<1>12. \A d \in Caller : d # b /\ callers'[d] # Nil =>
         /\ callers[d] # Nil
         /\ callers[d] \in CallerObject
         /\ callers'[d].kind = callers[d].kind /\ callers'[d].rcl = callers[d].rcl
         /\ callers'[d].initialised = callers[d].initialised
         /\ callers'[d].node = callers[d].node
         /\ callers'[d].callback = callers[d].callback
  <2>. TAKE d \in Caller
  <2>1. CASE d = c
    BY <2>1, <1>1, <1>3, <1>5, <1>7, NilIsNothing
  <2>2. CASE d # c
    BY <2>2, <1>5, <1>7
  <2>. QED
    BY <2>1, <2>2
<1>13. RegistriesHoldLive'
  <2>1. ASSUME NEW x \in Kind \X Handle, callersByRcl'[x] # Nil
        PROVE  /\ callers'[callersByRcl'[x]] # Nil
               /\ <<callers'[callersByRcl'[x]].kind, callers'[callersByRcl'[x]].rcl>> = x
    <3>1. CASE x = e
      <4>1. callersByRcl'[x] = b
        BY <3>1, <1>9
      <4>2. <<o.kind, o.rcl>> = x
        BY <3>1, <1>0, <1>2
      <4>. QED
        BY <4>1, <4>2, <1>7, <1>11
    <3>2. CASE x # e
      <4>. DEFINE d == callersByRcl[x]
      <4>1. /\ d \in Caller /\ callers[d] # Nil
            /\ <<callers[d].kind, callers[d].rcl>> = x
        BY <2>1, <3>2, <1>9, <1>5 DEF IInv, RegistriesHoldLive
      <4>2. d # b /\ d # c
        BY <4>1, <3>2, <1>1, NilIsNothing
      <4>. QED
        BY <4>1, <4>2, <3>2, <1>7, <1>9
    <3>. QED
      BY <3>1, <3>2
  <2>2. ASSUME NEW d \in Caller, callers'[d] # Nil
        PROVE  callers'[d].removed <=> callersByRcl'[<<callers'[d].kind, callers'[d].rcl>>] # d
    <3>1. CASE d = b
      <4>1. <<callers'[d].kind, callers'[d].rcl>> = e
        BY <3>1, <1>0, <1>2, <1>7
      <4>2. callersByRcl'[<<callers'[d].kind, callers'[d].rcl>>] = b
        BY <4>1, <1>9
      <4>. QED
        BY <3>1, <4>2, <1>2, <1>7
    <3>2. CASE d # b /\ d = c
      <4>1. c # Nil
        BY <3>2, NilIsNothing
      <4>2. callers'[d] = r /\ r.removed = TRUE
        BY <4>1, <3>2, <1>3, <1>7
      <4>3. <<callers'[d].kind, callers'[d].rcl>> = e
        BY <4>1, <4>2, <1>1, <1>3
      <4>4. callersByRcl'[<<callers'[d].kind, callers'[d].rcl>>] = b
        BY <4>3, <1>9
      <4>. QED
        BY <4>2, <4>4, <3>2
    <3>3. CASE d # b /\ d # c
      <4>1. callers'[d] = callers[d] /\ callers[d] # Nil /\ callers[d] \in CallerObject
        BY <3>3, <2>2, <1>5, <1>7
      <4>2. callers[d].removed <=> callersByRcl[<<callers[d].kind, callers[d].rcl>>] # d
        BY <4>1 DEF IInv, RegistriesHoldLive
      <4>3. <<callers[d].kind, callers[d].rcl>> \in Kind \X Handle
        BY <4>1 DEF CallerObject
      <4>4. CASE <<callers[d].kind, callers[d].rcl>> = e
        BY <4>1, <4>2, <4>4, <3>3, <1>9
      <4>5. CASE <<callers[d].kind, callers[d].rcl>> # e
        BY <4>1, <4>2, <4>3, <4>5, <1>9
      <4>. QED
        BY <4>4, <4>5
    <3>. QED
      BY <3>1, <3>2, <3>3
  <2>. QED
    BY <2>1, <2>2 DEF RegistriesHoldLive
<1>14. KnownCallbacks'
  BY DEF IInv, KnownCallbacks
<1>15. ListedByNode'
  <2>1. SUFFICES ASSUME NEW d \in Caller, callers'[d] # Nil
                 PROVE  /\ callers'[d].removed => callers'[d].initialised
                        /\ callers'[d].initialised => callers'[d].kind = "timer" \/ IsKnown(callers'[d].node)
                        /\ IsKnown(callers'[d].node) => d \in nodeCallers'[callers'[d].node]
    BY DEF ListedByNode
  <2>2. CASE d = b
    <3>1. n \in NodeHandle => IsKnown(n)
      BY CallersAssumption DEF IsKnown
    <3>2. IsKnown(n) => n \in NodeHandle
      BY DEF IsKnown, Maybe
    <3>. QED
      BY <1>2, <1>7, <1>8, <2>2, <3>1, <3>2
  <2>3. CASE d # b
    <3>1. /\ callers[d] # Nil /\ callers[d] \in CallerObject
          /\ callers'[d].kind = callers[d].kind
          /\ callers'[d].initialised = callers[d].initialised
          /\ callers'[d].node = callers[d].node
      BY <1>12, <2>1, <2>3
    <3>2. IsKnown(callers[d].node) => callers[d].node \in NodeHandle
      BY <3>1 DEF CallerObject, Maybe, IsKnown
    <3>3. callers'[d].removed => callers[d].initialised
      <4>1. CASE d = c
        BY <4>1, <3>1, NilIsNothing
      <4>2. CASE d # c
        BY <4>2, <2>3, <3>1, <1>7 DEF IInv, ListedByNode
      <4>. QED
        BY <4>1, <4>2
    <3>. QED
      BY <3>1, <3>2, <3>3, <1>8 DEF IInv, ListedByNode
  <2>. QED
    BY <2>2, <2>3
<1>16. Mutual'
  <2>1. \A d \in Caller : callers[d] # Nil =>
          callers'[d] # Nil /\ callers'[d].callback = callers[d].callback
    <3>. SUFFICES ASSUME NEW d \in Caller, callers[d] # Nil
                  PROVE  callers'[d] # Nil /\ callers'[d].callback = callers[d].callback
      OBVIOUS
    <3>1. CASE d = c
      BY <3>1, <1>3, <1>7, <1>11, NilIsNothing
    <3>2. CASE d # c
      BY <3>2, <1>7
    <3>. QED
      BY <3>1, <3>2
  <2>. QED
    BY <2>1, MutualKept DEF IInv
<1>. QED
  BY <1>10, <1>13, <1>14, <1>15, <1>16 DEF IInv

LEMMA InitialiseKeeps ==
  ASSUME IInv, NEW e \in Kind \X Handle, NEW n \in Maybe(NodeHandle),
         n \in NodeHandle \/ e[1] = "timer",
         Initialise(e, n)
  PROVE  IInv'
<1>. DEFINE c == callersByRcl[e]
            old == IF c = Nil THEN callers ELSE [callers EXCEPT ![c] = AfterRemoval(callers[c])]
<1>1. UNCHANGED <<outcome, nodes, callbacksById, callbacks>>
  BY DEF Initialise, Continue
<1>2. CASE c # Nil /\ AcceptsInit(callers[c])
  <2>1. /\ callers' = [callers EXCEPT ![c] = AfterInit(callers[c], n)]
        /\ callersByRcl' = [callersByRcl EXCEPT ![e] = c]
        /\ nodeCallers' = [m \in NodeHandle |->
                             IF m = n THEN nodeCallers[m] \cup {c} ELSE nodeCallers[m]]
    BY <1>2 DEF Initialise
  <2>2. ~callers[c].initialised
    BY <1>2 DEF AcceptsInit
  <2>3. c = callersByRcl[e] /\ c # Nil
    BY <1>2
  <2>. HIDE DEF c
  <2>. QED
    BY <1>1, <2>1, <2>2, <2>3, InitialiseKnownKeeps
<1>3. CASE ~(c # Nil /\ AcceptsInit(callers[c]))
  <2>1. FreeCaller
    BY <1>3 DEF Initialise
  <2>2. /\ callers' = [old EXCEPT ![NewCaller] = AfterInit(DefaultCaller(e[1], e[2]), n)]
        /\ callersByRcl' = [callersByRcl EXCEPT ![e] = NewCaller]
        /\ nodeCallers' = [m \in NodeHandle |->
                             IF m = n THEN nodeCallers[m] \cup {NewCaller} ELSE nodeCallers[m]]
    BY <1>3 DEF Initialise
  <2>3. c # Nil => callers[c].initialised
    BY <1>3 DEF AcceptsInit
  <2>4. /\ c = callersByRcl[e]
        /\ old = IF c = Nil THEN callers ELSE [callers EXCEPT ![c] = AfterRemoval(callers[c])]
    OBVIOUS
  <2>5. NewCaller \in Caller /\ callers[NewCaller] = Nil
    BY <2>1, FreshCaller
  <2>. HIDE DEF c, old
  <2>. QED
    BY <1>1, <2>2, <2>3, <2>4, <2>5, InitialiseNewKeeps
<1>. QED
  BY <1>2, <1>3

(* CallbackAdded, when it succeeds: a new callback of the caller of entry e, an
   existing one or, for a service, a new one. *)
LEMMA CallbackAddedKeeps ==
  ASSUME IInv, NEW e \in Kind \X Handle, NEW f \in CallbackHandle,
         NEW k \in Callback, NEW c \in Caller, NEW o \in CallerObject,
         callbacks[k] = Nil,
         IF callersByRcl[e] = Nil THEN /\ callers[c] = Nil
                                       /\ o = DefaultCaller(e[1], e[2])
                                  ELSE c = callersByRcl[e] /\ o = callers[c],
         AcceptsCallback(o),
         callers' = [callers EXCEPT ![c] = AfterSetCallback(o, k)],
         callersByRcl' = [callersByRcl EXCEPT ![e] = c],
         callbacks' = [callbacks EXCEPT ![k] = [caller |-> c, named |-> FALSE, running |-> FALSE]],
         callbacksById' = [callbacksById EXCEPT ![f] = k],
         UNCHANGED <<outcome, nodes, nodeCallers>>
  PROVE  IInv'
<1>. DEFINE u == AfterSetCallback(o, k)
            w == [caller |-> c, named |-> FALSE, running |-> FALSE]
<1>0. e[1] \in Kind /\ e[2] \in Handle /\ e = <<e[1], e[2]>>
  OBVIOUS
<1>1. /\ callers \in [Caller -> CallerObject \cup {Nil}]
      /\ callersByRcl \in [Kind \X Handle -> Caller \cup {Nil}]
      /\ callbacks \in [Callback -> CallbackObject \cup {Nil}]
      /\ callbacksById \in [CallbackHandle -> Callback \cup {Nil}]
  BY DEF IInv, TypeOK
<1>3. /\ <<o.kind, o.rcl>> = e
      /\ o.removed = FALSE
      /\ IsUnknown(o.callback)
      /\ callers[c] = Nil => ~o.initialised /\ IsUnknown(o.node)
      /\ callers[c] # Nil => o = callers[c] /\ callersByRcl[e] = c
  <2>1. CASE callersByRcl[e] = Nil
    BY <1>0, <2>1, DefaultCallerFields DEF CallerObject
  <2>2. CASE callersByRcl[e] # Nil
    <3>1. /\ c = callersByRcl[e] /\ o = callers[c] /\ callers[c] # Nil
          /\ <<o.kind, o.rcl>> = e
          /\ o.removed <=> callersByRcl[<<o.kind, o.rcl>>] # c
      BY <2>2 DEF IInv, RegistriesHoldLive
    <3>2. callersByRcl[<<o.kind, o.rcl>>] = c
      BY <3>1
    <3>3. o.removed \in BOOLEAN
      BY DEF CallerObject
    <3>. QED
      BY <3>1, <3>2, <3>3 DEF AcceptsCallback
  <2>. QED
    BY <2>1, <2>2
<1>4. /\ u \in CallerObject
      /\ u.kind = o.kind /\ u.rcl = o.rcl /\ u.initialised = o.initialised
      /\ u.node = o.node /\ u.callback = k /\ u.removed = o.removed
  BY AfterSetCallbackFields
<1>5. w \in CallbackObject /\ w.caller = c
  BY DEF CallbackObject
<1>6. /\ callers' = [callers EXCEPT ![c] = u]
      /\ callbacks' = [callbacks EXCEPT ![k] = w]
  OBVIOUS
<1>7. u # Nil /\ w # Nil
  BY <1>4, <1>5, NilIsNothing
<1>. HIDE DEF u, w
<1>8. /\ callers'[c] = u
      /\ \A d \in Caller : d # c => callers'[d] = callers[d]
  BY <1>1, <1>6
<1>9. /\ callbacks'[k] = w
      /\ \A j \in Callback : j # k => callbacks'[j] = callbacks[j]
  BY <1>1, <1>6
<1>10. /\ callersByRcl'[e] = c
       /\ \A x \in Kind \X Handle : x # e => callersByRcl'[x] = callersByRcl[x]
  BY <1>1
<1>11. TypeOK'
  <2>1. callers' \in [Caller -> CallerObject \cup {Nil}]
    BY <1>1, <1>4, <1>6
  <2>2. callbacks' \in [Callback -> CallbackObject \cup {Nil}]
    BY <1>1, <1>5, <1>6
  <2>3. callersByRcl' \in [Kind \X Handle -> Caller \cup {Nil}]
    BY <1>1
  <2>4. callbacksById' \in [CallbackHandle -> Callback \cup {Nil}]
    BY <1>1
  <2>. QED
    BY <2>1, <2>2, <2>3, <2>4 DEF IInv, TypeOK
<1>12. RegistriesHoldLive'
  <2>1. ASSUME NEW x \in Kind \X Handle, callersByRcl'[x] # Nil
        PROVE  /\ callers'[callersByRcl'[x]] # Nil
               /\ <<callers'[callersByRcl'[x]].kind, callers'[callersByRcl'[x]].rcl>> = x
    <3>1. CASE x = e
      <4>1. callersByRcl'[x] = c
        BY <3>1, <1>10
      <4>2. <<u.kind, u.rcl>> = x
        BY <3>1, <1>3, <1>4
      <4>. QED
        BY <4>1, <4>2, <1>7, <1>8
    <3>2. CASE x # e
      <4>. DEFINE d == callersByRcl[x]
      <4>1. /\ d \in Caller /\ callers[d] # Nil
            /\ <<callers[d].kind, callers[d].rcl>> = x
        BY <2>1, <3>2, <1>10, <1>1 DEF IInv, RegistriesHoldLive
      <4>2. d # c
        BY <4>1, <3>2, <1>3
      <4>. QED
        BY <4>1, <4>2, <3>2, <1>8, <1>10
    <3>. QED
      BY <3>1, <3>2
  <2>2. ASSUME NEW d \in Caller, callers'[d] # Nil
        PROVE  callers'[d].removed <=> callersByRcl'[<<callers'[d].kind, callers'[d].rcl>>] # d
    <3>1. CASE d = c
      <4>1. <<callers'[d].kind, callers'[d].rcl>> = e
        BY <3>1, <1>3, <1>4, <1>8
      <4>2. callersByRcl'[<<callers'[d].kind, callers'[d].rcl>>] = c
        BY <4>1, <1>10
      <4>. QED
        BY <3>1, <4>2, <1>3, <1>4, <1>8
    <3>2. CASE d # c
      <4>1. callers'[d] = callers[d] /\ callers[d] # Nil /\ callers[d] \in CallerObject
        BY <3>2, <2>2, <1>1, <1>8
      <4>2. callers[d].removed <=> callersByRcl[<<callers[d].kind, callers[d].rcl>>] # d
        BY <4>1 DEF IInv, RegistriesHoldLive
      <4>3. <<callers[d].kind, callers[d].rcl>> \in Kind \X Handle
        BY <4>1 DEF CallerObject
      <4>4. CASE <<callers[d].kind, callers[d].rcl>> = e
        <5>1. callersByRcl[e] # d
          <6>1. CASE callersByRcl[e] = Nil
            BY <6>1, NilIsNothing
          <6>2. CASE callersByRcl[e] # Nil
            BY <6>2, <3>2
          <6>. QED
            BY <6>1, <6>2
        <5>2. callers[d].removed
          BY <4>2, <4>4, <5>1
        <5>3. callersByRcl'[<<callers'[d].kind, callers'[d].rcl>>] = c
          BY <4>1, <4>4, <1>10
        <5>. QED
          BY <4>1, <5>2, <5>3, <3>2
      <4>5. CASE <<callers[d].kind, callers[d].rcl>> # e
        BY <4>1, <4>2, <4>3, <4>5, <1>10
      <4>. QED
        BY <4>4, <4>5
    <3>. QED
      BY <3>1, <3>2
  <2>. QED
    BY <2>1, <2>2 DEF RegistriesHoldLive
<1>13. KnownCallbacks'
  <2>1. \A j \in Callback : callbacks[j] # Nil => callbacks'[j] # Nil
    BY <1>7, <1>9
  <2>. QED
    BY <2>1, <1>1, <1>7, <1>9 DEF IInv, KnownCallbacks
<1>14. ListedByNode'
  <2>1. SUFFICES ASSUME NEW d \in Caller, callers'[d] # Nil
                 PROVE  /\ callers'[d].removed => callers'[d].initialised
                        /\ callers'[d].initialised => callers'[d].kind = "timer" \/ IsKnown(callers'[d].node)
                        /\ IsKnown(callers'[d].node) => d \in nodeCallers'[callers'[d].node]
    BY DEF ListedByNode
  <2>2. CASE d = c
    <3>1. CASE callers[c] = Nil
      BY <3>1, <2>2, <1>3, <1>4, <1>8 DEF IsKnown, IsUnknown
    <3>2. CASE callers[c] # Nil
      BY <3>2, <2>2, <1>3, <1>4, <1>8 DEF IInv, ListedByNode
    <3>. QED
      BY <3>1, <3>2
  <2>3. CASE d # c
    BY <2>1, <2>3, <1>8 DEF IInv, ListedByNode
  <2>. QED
    BY <2>2, <2>3
<1>15. Mutual'
  <2>1. SUFFICES ASSUME NEW j \in Callback, callbacks'[j] # Nil
                 PROVE  /\ callers'[callbacks'[j].caller] # Nil
                        /\ callers'[callbacks'[j].caller].callback = j
    BY DEF Mutual
  <2>2. CASE j = k
    BY <2>2, <1>4, <1>5, <1>7, <1>8, <1>9
  <2>3. CASE j # k
    <3>1. callbacks'[j] = callbacks[j] /\ callbacks[j] # Nil
      BY <2>1, <2>3, <1>9
    <3>2. /\ callbacks[j].caller \in Caller
          /\ callers[callbacks[j].caller] # Nil
          /\ callers[callbacks[j].caller].callback = j
      BY <3>1, <1>1 DEF IInv, Mutual, CallbackObject
    <3>3. j # Unknown
      BY CallersAssumption
    <3>4. callbacks[j].caller # c
      BY <3>2, <3>3, <1>3 DEF IsUnknown
    <3>. QED
      BY <3>1, <3>2, <3>4, <1>8
  <2>. QED
    BY <2>2, <2>3
<1>. QED
  BY <1>11, <1>12, <1>13, <1>14, <1>15 DEF IInv

LEMMA CallbackAddedStepKeeps ==
  ASSUME IInv, NEW kind \in {"service", "timer"}, NEW f \in CallbackHandle, NEW h \in Handle,
         CallbackAdded(kind, f, h)
  PROVE  IInv'
<1>. DEFINE e == <<kind, h>>
            c == IF callersByRcl[e] = Nil THEN NewCaller ELSE callersByRcl[e]
            o == IF callersByRcl[e] = Nil THEN DefaultCaller(kind, h) ELSE callers[c]
            k == NewCallback
<1>1. CASE UNCHANGED <<registry, heaps>> /\ outcome' \in {"failed", "hung"}
  BY <1>1, StopKeeps
<1>2. CASE /\ AcceptsCallback(o)
           /\ callersByRcl[e] = Nil => FreeCaller
           /\ FreeCallback
           /\ callers' = [callers EXCEPT ![c] = AfterSetCallback(o, k)]
           /\ callersByRcl' = [callersByRcl EXCEPT ![e] = c]
           /\ callbacks' = [callbacks EXCEPT ![k] = [caller |-> c, named |-> FALSE, running |-> FALSE]]
           /\ callbacksById' = [callbacksById EXCEPT ![f] = k]
           /\ Continue
           /\ UNCHANGED <<nodes, nodeCallers>>
  <2>1. k \in Callback /\ callbacks[k] = Nil
    BY <1>2, FreshCallback
  <2>2. kind \in Kind /\ e \in Kind \X Handle /\ e[1] = kind /\ e[2] = h
    BY DEF Kind
  <2>3. CASE callersByRcl[e] = Nil
    <3>1. c \in Caller /\ callers[c] = Nil /\ o = DefaultCaller(e[1], e[2])
      BY <1>2, <2>2, <2>3, FreshCaller
    <3>2. o \in CallerObject
      BY <2>2, <2>3, DefaultCallerFields
    <3>3. IF callersByRcl[e] = Nil THEN /\ callers[c] = Nil
                                        /\ o = DefaultCaller(e[1], e[2])
                                   ELSE c = callersByRcl[e] /\ o = callers[c]
      BY <2>3, <3>1
    <3>4. UNCHANGED <<outcome, nodes, nodeCallers>>
      BY <1>2 DEF Continue
    <3>. HIDE DEF e, c, o, k
    <3>. QED
      BY <1>2, <2>1, <2>2, <3>1, <3>2, <3>3, <3>4, CallbackAddedKeeps
  <2>4. CASE callersByRcl[e] # Nil
    <3>1. c = callersByRcl[e] /\ o = callers[c]
      BY <2>4
    <3>2. c \in Caller /\ o \in CallerObject
      BY <2>2, <2>4 DEF IInv, TypeOK, RegistriesHoldLive
    <3>3. IF callersByRcl[e] = Nil THEN /\ callers[c] = Nil
                                        /\ o = DefaultCaller(e[1], e[2])
                                   ELSE c = callersByRcl[e] /\ o = callers[c]
      BY <2>4, <3>1
    <3>4. UNCHANGED <<outcome, nodes, nodeCallers>>
      BY <1>2 DEF Continue
    <3>. HIDE DEF e, c, o, k
    <3>. QED
      BY <1>2, <2>1, <2>2, <3>2, <3>3, <3>4, CallbackAddedKeeps
  <2>. QED
    BY <2>3, <2>4
<1>. QED
  BY <1>1, <1>2 DEF CallbackAdded, Fail, FailReporting, Stop

LEMMA RclInitKeeps ==
  ASSUME IInv, NEW kind \in {"service", "client"}, NEW h \in Handle, NEW n \in NodeHandle,
         RclInit(kind, h, n)
  PROVE  IInv'
<1>1. CASE UNCHANGED <<registry, heaps>> /\ outcome' \in {"failed", "hung"}
  BY <1>1, StopKeeps
<1>2. CASE Initialise(<<kind, h>>, n)
  <2>1. <<kind, h>> \in Kind \X Handle /\ n \in Maybe(NodeHandle)
    BY DEF Kind, Maybe
  <2>. QED
    BY <1>2, <2>1, InitialiseKeeps
<1>. QED
  BY <1>1, <1>2 DEF RclInit, FailReporting, Stop

LEMMA RclTimerInitKeeps ==
  ASSUME IInv, NEW h \in Handle, RclTimerInit(h)
  PROVE  IInv'
<1>1. <<"timer", h>> \in Kind \X Handle /\ Unknown \in Maybe(NodeHandle)
  BY DEF Kind, Maybe
<1>2. <<"timer", h>>[1] = "timer"
  OBVIOUS
<1>. QED
  BY <1>1, <1>2, InitialiseKeeps DEF RclTimerInit
-----------------------------------------------------------------------------
LEMMA InitHolds == Init => IInv
<1>. SUFFICES ASSUME Init PROVE IInv
  OBVIOUS
<1>1. TypeOK
  BY DEF Init, TypeOK
<1>2. RegistriesHoldLive /\ KnownCallbacks /\ ListedByNode /\ Mutual
  BY DEF Init, RegistriesHoldLive, KnownCallbacks, ListedByNode, Mutual
<1>. QED
  BY <1>1, <1>2 DEF IInv

LEMMA StepKeeps == IInv /\ [Next]_vars => IInv'
<1>. SUFFICES ASSUME IInv, [Next]_vars PROVE IInv'
  OBVIOUS
<1>1. CASE Registration
  BY <1>1, NodeAppearsKeeps, RclInitKeeps, RclTimerInitKeeps, TimerLinkNodeKeeps,
     CallbackAddedStepKeeps, CallbackRegisterKeeps DEF Registration
<1>2. CASE Execution
  BY <1>2, CallbackStartKeeps, CallbackEndKeeps DEF Execution
<1>3. CASE UNCHANGED vars
  <2>1. UNCHANGED <<registry, heaps>> /\ outcome' = outcome
    BY <1>3 DEF vars
  <2>. QED
    BY <2>1, StopKeeps DEF IInv, TypeOK
<1>. QED
  BY <1>1, <1>2, <1>3 DEF Next

LEMMA Inductive == Spec => []IInv
  BY InitHolds, StepKeeps, PTL DEF Spec

(* The state keeps its type: no handler updates an object through a reference
   that dangles, whatever events the processor is fed. *)
THEOREM TypeCorrect == Spec => []TypeOK
<1>1. IInv => TypeOK
  BY DEF IInv
<1>. QED
  BY <1>1, Inductive, PTL

(* The registry of a kind holds exactly the objects of its handles that are not
   marked removed, so the assertions of rcl_init, set_callback and link_node of
   services, clients and timers cannot fail. *)
THEOREM RegistriesAlwaysHoldLive == Spec => []RegistriesHoldLive
<1>1. IInv => RegistriesHoldLive
  BY DEF IInv
<1>. QED
  BY <1>1, Inductive, PTL

LEMMA LivesReach == IInv => CallerIsReached
<1>. SUFFICES ASSUME IInv, NEW k \in Callback, callbacks[k] # Nil
              PROVE  LET c == callbacks[k].caller IN
                     /\ callers[c] # Nil
                     /\ callers[c].callback = k
                     /\ ~Held(c) => /\ callers[c].kind = "timer"
                                    /\ callers[c].removed
                                    /\ IsUnknown(callers[c].node)
  BY DEF CallerIsReached
<1>. DEFINE c == callbacks[k].caller
<1>1. /\ c \in Caller /\ callers[c] # Nil /\ callers[c].callback = k
      /\ callers[c] \in CallerObject
  BY DEF IInv, TypeOK, Mutual, CallbackObject
<1>. HIDE DEF c
<1>2. ASSUME ~Held(c)
      PROVE  callers[c].kind = "timer" /\ callers[c].removed /\ IsUnknown(callers[c].node)
  <2>1. callers[c].removed
    BY <1>1, <1>2 DEF Held, IInv, RegistriesHoldLive
  <2>2. IsUnknown(callers[c].node)
    <3>1. IsKnown(callers[c].node) => callers[c].node \in NodeHandle
      BY <1>1 DEF CallerObject, Maybe, IsKnown
    <3>2. ~IsKnown(callers[c].node)
      BY <3>1, <1>1, <1>2 DEF Held, IInv, ListedByNode
    <3>. QED
      BY <3>2 DEF IsKnown, IsUnknown
  <2>3. callers[c].kind = "timer"
    BY <1>1, <2>1, <2>2 DEF IInv, ListedByNode, IsKnown, IsUnknown
  <2>. QED
    BY <2>1, <2>2, <2>3
<1>. QED
  BY <1>1, <1>2 DEF c

(* A callback and its caller refer to each other for good, and the weak reference
   of CallbackInstance::new can only fail for a replaced timer that was never
   linked to a node. *)
THEOREM CallerAlwaysReached == Spec => []CallerIsReached
  BY Inductive, LivesReach, PTL

(* No error report on a callback or its caller locks an object it is showing. *)
LEMMA ReportsEnd ==
  ASSUME NEW k, NEW c
  PROVE  ~CallbackReportBlocks(k, c) /\ ~CallerReportBlocks(c)
  BY DEF CallbackReportBlocks, CallerReportBlocks, ShownByCaller, ShownByCallback

(* The handlers report every error: none blocks on a mutex its thread holds. *)
THEOREM ErrorsAlwaysReported == Spec => []NeverHangs
<1>1. Init => NeverHangs
  BY DEF Init, NeverHangs
<1>2. NeverHangs /\ [Next]_vars => NeverHangs'
  <2>. SUFFICES ASSUME NeverHangs, [Next]_vars PROVE NeverHangs'
    OBVIOUS
  <2>1. CASE Registration
    <3>1. ASSUME NEW e, NEW n, Initialise(e, n) PROVE outcome' = outcome
      BY <3>1 DEF Initialise, Continue
    <3>2. ASSUME NEW kind, NEW h, NEW n, RclInit(kind, h, n) PROVE outcome' # "hung"
      BY <3>1, <3>2, ReportsEnd DEF RclInit, FailReporting, Stop, NeverHangs
    <3>3. ASSUME NEW h, RclTimerInit(h) PROVE outcome' # "hung"
      BY <3>1, <3>3 DEF RclTimerInit, NeverHangs
    <3>4. ASSUME NEW h, NEW n, TimerLinkNode(h, n) PROVE outcome' # "hung"
      BY <3>4, ReportsEnd DEF TimerLinkNode, Continue, Fail, FailReporting, Stop, NeverHangs
    <3>5. ASSUME NEW kind, NEW f, NEW h, CallbackAdded(kind, f, h) PROVE outcome' # "hung"
      BY <3>5, ReportsEnd DEF CallbackAdded, Continue, Fail, FailReporting, Stop, NeverHangs
    <3>6. ASSUME NEW n, NodeAppears(n) PROVE outcome' # "hung"
      BY <3>6 DEF NodeAppears, Continue, NeverHangs
    <3>7. ASSUME NEW f, CallbackRegister(f) PROVE outcome' # "hung"
      BY <3>7 DEF CallbackRegister, Continue, Fail, Stop, NeverHangs
    <3>. QED
      BY <2>1, <3>2, <3>3, <3>4, <3>5, <3>6, <3>7 DEF Registration, NeverHangs
  <2>2. CASE Execution
    BY <2>2 DEF Execution, CallbackStart, CallbackEnd, Continue, Fail, Panic, Stop, NeverHangs
  <2>3. CASE UNCHANGED vars
    BY <2>3 DEF vars, NeverHangs
  <2>. QED
    BY <2>1, <2>2, <2>3 DEF Next
<1>. QED
  BY <1>1, <1>2, PTL DEF Spec

-----------------------------------------------------------------------------
(* The application. *)
Current(h) == callersByRcl[<<slots[h].kind, h>>]

(* What the processor has of the object the application has at handle h: nothing
   of a handle it never used; of another one an initialised caller, without
   callback until one is added and without node until it is linked. *)
SlotOK(h) ==
  LET k == callbacksById[CallbackAt[h]] IN
  /\ k # Nil => callers[callbacks[k].caller].rcl = h
  /\ slots[h] = Nil => k = Nil /\ \A kind \in Kind : callersByRcl[<<kind, h>>] = Nil
  /\ slots[h] # Nil =>
       /\ \A kind \in Kind : kind # slots[h].kind => callersByRcl[<<kind, h>>] = Nil
       /\ Current(h) # Nil
       /\ callers[Current(h)].initialised
       /\ slots[h].phase = "created" => callers[Current(h)].callback = Unknown
       /\ slots[h].phase \in {"added", "ready", "executing"} =>
            /\ k # Nil
            /\ callbacks[k].caller = Current(h)
            /\ callbacks[k].named <=> slots[h].phase # "added"
            /\ callbacks[k].running <=> slots[h].phase = "executing"
       /\ slots[h].phase # "destroyed" /\ slots[h].kind = "timer" /\ ~slots[h].linked
            => callers[Current(h)].node = Unknown

AppInv ==
  /\ IInv
  /\ slots \in Slots
  /\ complete => outcome = "running" /\ \A h \in Handle : SlotOK(h)
-----------------------------------------------------------------------------
(* A step of the application is one of the processor, or none. *)
LEMMA AppStepIsStep ==
  ASSUME IInv, slots \in Slots, [AppNext]_allVars
  PROVE  [Next]_vars /\ (complete' = complete)
<1>0. nodes \subseteq NodeHandle
  BY DEF IInv, TypeOK
<1>1. CASE UNCHANGED allVars
  BY <1>1 DEF allVars, appVars
<1>2. CASE outcome = "running" /\ (Registration \/ Execution) /\ UNCHANGED appVars
  BY <1>2 DEF Next, appVars
<1>3. ASSUME outcome = "running", NEW h \in Handle, NEW kind \in Kind, Create(kind, h)
      PROVE  Next /\ complete' = complete
  <2>1. CASE kind = "timer"
    BY <1>3, <2>1 DEF Create, Next, Registration
  <2>2. CASE kind # "timer"
    <3>1. kind \in {"service", "client"}
      BY <2>2 DEF Kind
    <3>2. PICK n \in nodes : RclInit(kind, h, n)
      BY <1>3, <2>2 DEF Create
    <3>. QED
      BY <1>0, <1>3, <3>1, <3>2 DEF Create, Next, Registration
  <2>. QED
    BY <2>1, <2>2
<1>4. ASSUME outcome = "running", NEW h \in Handle, AddCallback(h)
      PROVE  Next /\ complete' = complete
  <2>1. slots[h].kind \in {"service", "timer"}
    BY <1>4 DEF AddCallback, In, Slots, SlotObject, Kind
  <2>2. CallbackAt[h] \in CallbackHandle
    BY CallerAppAssumption
  <2>. QED
    BY <1>4, <2>1, <2>2 DEF AddCallback, Advance, Next, Registration
<1>5. ASSUME outcome = "running", NEW h \in Handle,
             RegisterCallback(h) \/ StartCallback(h) \/ EndCallback(h)
      PROVE  Next /\ complete' = complete
  <2>1. CallbackAt[h] \in CallbackHandle
    BY CallerAppAssumption
  <2>. QED
    BY <1>5, <2>1 DEF RegisterCallback, StartCallback, EndCallback, Advance, Next, Registration,
       Execution
<1>6. ASSUME outcome = "running", NEW h \in Handle, Link(h)
      PROVE  Next /\ complete' = complete
  <2>1. PICK n \in nodes : TimerLinkNode(h, n)
    BY <1>6 DEF Link
  <2>. QED
    BY <1>0, <1>6, <2>1 DEF Link, Next, Registration
<1>7. ASSUME NEW h \in Handle, Destroy(h)
      PROVE  UNCHANGED vars /\ complete' = complete
  BY <1>7 DEF Destroy, Advance
<1>8. ASSUME outcome = "running", NEW n \in NodeHandle, NodeAppears(n), UNCHANGED appVars
      PROVE  Next /\ complete' = complete
  BY <1>8 DEF Next, Registration, appVars
<1>9. CASE outcome = "running" /\ Application
  BY <1>3, <1>4, <1>5, <1>6, <1>7, <1>8, <1>9 DEF Application
<1>. QED
  BY <1>1, <1>2, <1>9 DEF AppNext

-----------------------------------------------------------------------------
(* A step at handle g: what belongs to another handle stays. *)
Elsewhere(g) ==
  /\ \A h \in Handle : h # g =>
       /\ slots'[h] = slots[h]
       /\ callbacksById'[CallbackAt[h]] = callbacksById[CallbackAt[h]]
       /\ \A kind \in Kind : callersByRcl'[<<kind, h>>] = callersByRcl[<<kind, h>>]
  /\ \A c \in Caller : callers[c] # Nil /\ callers[c].rcl # g => callers'[c] = callers[c]
  /\ \A k \in Callback :
       callbacks[k] # Nil /\ callers[callbacks[k].caller].rcl # g
         => callbacks'[k] = callbacks[k]

(* The caller the processor has for the object at h, and the callback. *)
LEMMA CurrentFields ==
  ASSUME IInv, slots \in Slots, NEW h \in Handle, slots[h] # Nil, Current(h) # Nil
  PROVE  /\ slots[h].kind \in Kind
         /\ Current(h) \in Caller
         /\ callers[Current(h)] \in CallerObject
         /\ callers[Current(h)] # Nil
         /\ callers[Current(h)].kind = slots[h].kind
         /\ callers[Current(h)].rcl = h
         /\ ~callers[Current(h)].removed
<1>. DEFINE e == <<slots[h].kind, h>>
            c == Current(h)
<1>1. slots[h] \in SlotObject /\ slots[h].kind \in Kind
  BY DEF Slots, SlotObject
<1>2. e \in Kind \X Handle /\ c = callersByRcl[e]
  BY <1>1 DEF Current
<1>3. c \in Caller
  BY <1>2 DEF IInv, TypeOK
<1>4. callers[c] # Nil /\ <<callers[c].kind, callers[c].rcl>> = e
  BY <1>2 DEF IInv, RegistriesHoldLive
<1>5. callers[c] \in CallerObject
  BY <1>3, <1>4 DEF IInv, TypeOK
<1>6. callers[c].kind = slots[h].kind /\ callers[c].rcl = h
  BY <1>4
<1>7. callers[c].removed <=> callersByRcl[<<callers[c].kind, callers[c].rcl>>] # c
  BY <1>3, <1>4 DEF IInv, RegistriesHoldLive
<1>. QED
  BY <1>1, <1>2, <1>3, <1>4, <1>5, <1>6, <1>7

LEMMA AddressFields ==
  ASSUME IInv, NEW h \in Handle, callbacksById[CallbackAt[h]] # Nil
  PROVE  LET k == callbacksById[CallbackAt[h]] IN
         /\ k \in Callback
         /\ callbacks[k] # Nil
         /\ callbacks[k] \in CallbackObject
         /\ callbacks[k].caller \in Caller
         /\ callers[callbacks[k].caller] # Nil
         /\ callers[callbacks[k].caller] \in CallerObject
         /\ callers[callbacks[k].caller].callback = k
<1>. DEFINE k == callbacksById[CallbackAt[h]]
<1>1. CallbackAt[h] \in CallbackHandle
  BY CallerAppAssumption
<1>2. k \in Callback /\ callbacks[k] # Nil /\ callbacks[k] \in CallbackObject
  BY <1>1, CallbackAtAddress
<1>. HIDE DEF k
<1>3. callbacks[k].caller \in Caller
  BY <1>2 DEF CallbackObject
<1>4. callers[callbacks[k].caller] # Nil /\ callers[callbacks[k].caller].callback = k
  BY <1>2 DEF IInv, Mutual
<1>5. callers[callbacks[k].caller] \in CallerObject
  BY <1>3, <1>4 DEF IInv, TypeOK
<1>. QED
  BY <1>2, <1>3, <1>4, <1>5 DEF k

LEMMA ElsewhereKept ==
  ASSUME IInv, slots \in Slots, NEW g \in Handle, Elsewhere(g),
         NEW h \in Handle, h # g, SlotOK(h)
  PROVE  SlotOK(h)'
<1>. DEFINE k == callbacksById[CallbackAt[h]]
<1>1. /\ slots'[h] = slots[h]
      /\ callbacksById'[CallbackAt[h]] = k
      /\ \A kind \in Kind : callersByRcl'[<<kind, h>>] = callersByRcl[<<kind, h>>]
  BY DEF Elsewhere
<1>2. k # Nil => /\ callbacks'[k] = callbacks[k]
                 /\ callers'[callbacks[k].caller].rcl = h
  <2>1. k # Nil => /\ k \in Callback /\ callbacks[k] # Nil
                   /\ callbacks[k].caller \in Caller /\ callers[callbacks[k].caller] # Nil
                   /\ callers[callbacks[k].caller].rcl = h
    BY AddressFields DEF SlotOK
  <2>. QED
    BY <2>1 DEF Elsewhere
<1>3. slots[h] # Nil => /\ Current(h)' = Current(h)
                        /\ callers'[Current(h)] = callers[Current(h)]
  <2>1. slots[h] # Nil => /\ slots[h].kind \in Kind /\ Current(h) \in Caller
                          /\ callers[Current(h)] # Nil /\ callers[Current(h)].rcl = h
    BY CurrentFields DEF SlotOK
  <2>2. slots[h] # Nil => Current(h)' = Current(h)
    BY <1>1, <2>1 DEF Current
  <2>. QED
    BY <2>1, <2>2 DEF Elsewhere
<1>. HIDE DEF k
<1>4. /\ callbacksById'[CallbackAt[h]] # Nil =>
           callers'[callbacks'[callbacksById'[CallbackAt[h]]].caller].rcl = h
      /\ slots'[h] = Nil => /\ callbacksById'[CallbackAt[h]] = Nil
                            /\ \A kind \in Kind : callersByRcl'[<<kind, h>>] = Nil
  BY <1>1, <1>2 DEF SlotOK, k
<1>5. ASSUME slots'[h] # Nil
      PROVE  /\ \A kind \in Kind : kind # slots'[h].kind => callersByRcl'[<<kind, h>>] = Nil
             /\ Current(h)' # Nil
             /\ callers'[Current(h)'].initialised
             /\ slots'[h].phase = "created" => callers'[Current(h)'].callback = Unknown
             /\ slots'[h].phase # "destroyed" /\ slots'[h].kind = "timer" /\ ~slots'[h].linked
                  => callers'[Current(h)'].node = Unknown
  BY <1>1, <1>3, <1>5 DEF SlotOK
<1>6. ASSUME slots'[h] # Nil, slots'[h].phase \in {"added", "ready", "executing"}
      PROVE  LET j == callbacksById'[CallbackAt[h]] IN
             /\ j # Nil
             /\ callbacks'[j].caller = Current(h)'
             /\ callbacks'[j].named <=> slots'[h].phase # "added"
             /\ callbacks'[j].running <=> slots'[h].phase = "executing"
  <2>1. /\ k # Nil
        /\ callbacks[k].caller = Current(h)
        /\ callbacks[k].named <=> slots[h].phase # "added"
        /\ callbacks[k].running <=> slots[h].phase = "executing"
    BY <1>1, <1>6 DEF SlotOK, k
  <2>2. callbacksById'[CallbackAt[h]] = k /\ slots'[h] = slots[h]
    BY <1>1
  <2>. QED
    BY <1>2, <1>3, <1>6, <2>1, <2>2
<1>. QED
  BY <1>4, <1>5, <1>6 DEF SlotOK

(* What the step of the application at handle h does. *)
Kept(h) == outcome' = "running" /\ slots' \in Slots /\ Elsewhere(h) /\ SlotOK(h)'

LEMMA KeptSuffices ==
  ASSUME AppInv, complete, IInv', NEW h \in Handle, Kept(h)
  PROVE  AppInv'
<1>1. \A g \in Handle : g # h => SlotOK(g)'
  BY ElsewhereKept DEF AppInv, Kept
<1>. QED
  BY <1>1 DEF AppInv, Kept

(* A phase further. *)
LEMMA AdvancedSlot ==
  ASSUME slots \in Slots, NEW h \in Handle, slots[h] # Nil, NEW phase \in Phase, Advance(h, phase)
  PROVE  /\ slots' \in Slots
         /\ slots'[h] # Nil
         /\ slots'[h].kind = slots[h].kind
         /\ slots'[h].phase = phase
         /\ slots'[h].linked = slots[h].linked
         /\ \A g \in Handle : g # h => slots'[g] = slots[g]
<1>. DEFINE u == [slots[h] EXCEPT !.phase = phase]
<1>1. slots[h] \in SlotObject
  BY DEF Slots
<1>2. slots' = [slots EXCEPT ![h] = u]
  BY DEF Advance
<1>3. /\ u \in SlotObject /\ u.kind = slots[h].kind /\ u.phase = phase
      /\ u.linked = slots[h].linked
  BY <1>1 DEF SlotObject
<1>. HIDE DEF u
<1>4. u # Nil
  BY <1>3, CallerAppAssumption
<1>. QED
  BY <1>2, <1>3, <1>4 DEF Slots

-----------------------------------------------------------------------------
(* The init events: the caller the processor knows is one of an earlier object at
   the handle, initialised, so it is replaced. *)
LEMMA InitialiseReplaces ==
  ASSUME IInv, NEW e \in Kind \X Handle, NEW n \in Maybe(NodeHandle),
         callersByRcl[e] # Nil => callers[callersByRcl[e]].initialised,
         Initialise(e, n)
  PROVE  \E b \in Caller :
           /\ callers[b] = Nil
           /\ callers'[b] = AfterInit(DefaultCaller(e[1], e[2]), n)
           /\ \A d \in Caller : callers[d] # Nil =>
                /\ callers'[d].rcl = callers[d].rcl
                /\ d # callersByRcl[e] => callers'[d] = callers[d]
           /\ callersByRcl' = [callersByRcl EXCEPT ![e] = b]
           /\ UNCHANGED <<outcome, callbacksById, callbacks>>
<1>. DEFINE c == callersByRcl[e]
            gone == AfterRemoval(callers[c])
            old == IF c = Nil THEN callers ELSE [callers EXCEPT ![c] = gone]
            b == NewCaller
            o == AfterInit(DefaultCaller(e[1], e[2]), n)
<1>1. FreeCaller
  BY DEF Initialise, AcceptsInit
<1>2. /\ callers' = [old EXCEPT ![b] = o]
      /\ callersByRcl' = [callersByRcl EXCEPT ![e] = b]
      /\ UNCHANGED <<outcome, callbacksById, callbacks>>
  BY DEF Initialise, AcceptsInit, Continue
<1>3. b \in Caller /\ callers[b] = Nil
  BY <1>1, FreshCaller
<1>4. /\ callers \in [Caller -> CallerObject \cup {Nil}]
      /\ c # Nil => c \in Caller /\ callers[c] # Nil
  BY DEF IInv, TypeOK, RegistriesHoldLive
<1>5. c # Nil => gone.rcl = callers[c].rcl
  <2>1. c # Nil => callers[c] \in CallerObject
    BY <1>4
  <2>. QED
    BY <2>1, AfterRemovalFields
<1>. HIDE DEF b, o, gone, c
<1>6. /\ old \in [Caller -> UNION {CallerObject, {Nil}, {gone}}]
      /\ \A d \in Caller : callers[d] # Nil =>
           old[d].rcl = callers[d].rcl /\ (d # c => old[d] = callers[d])
  BY <1>4, <1>5
<1>. HIDE DEF old
<1>7. callers'[b] = o /\ \A d \in Caller : d # b => callers'[d] = old[d]
  BY <1>2, <1>3, <1>6
<1>8. \A d \in Caller : callers[d] # Nil => d # b
  BY <1>3
<1>. QED
  BY <1>2, <1>3, <1>6, <1>7, <1>8 DEF o, c

LEMMA CreateKeeps ==
  ASSUME AppInv, complete, outcome = "running",
         NEW h \in Handle, NEW kind \in Kind, Create(kind, h)
  PROVE  Kept(h)
<1>. DEFINE e == <<kind, h>>
            k == callbacksById[CallbackAt[h]]
            new == [kind |-> kind, phase |-> "created", linked |-> FALSE]
<1>0. IInv /\ slots \in Slots /\ SlotOK(h)
  BY DEF AppInv
<1>1. /\ slots[h] # Nil => slots[h].kind = kind
      /\ slots' = [slots EXCEPT ![h] = new]
  BY DEF Create
<1>2. e \in Kind \X Handle /\ e[1] = kind /\ e[2] = h
  OBVIOUS
<1>3. callersByRcl[e] # Nil => callers[callersByRcl[e]].initialised
  BY <1>0, <1>1 DEF SlotOK, Current
<1>4. \E n \in Maybe(NodeHandle) : Initialise(e, n) /\ (kind = "timer" => n = Unknown)
  <2>1. CASE kind = "timer"
    BY <2>1 DEF Create, RclTimerInit, Maybe
  <2>2. CASE kind # "timer"
    <3>1. PICK n \in nodes : RclInit(kind, h, n)
      BY <2>2 DEF Create
    <3>2. n \in NodeHandle
      BY <1>0 DEF IInv, TypeOK
    <3>. QED
      BY <2>2, <3>1, <3>2 DEF RclInit, Maybe
  <2>. QED
    BY <2>1, <2>2
<1>5. PICK n \in Maybe(NodeHandle) : Initialise(e, n) /\ (kind = "timer" => n = Unknown)
  BY <1>4
<1>. DEFINE o == AfterInit(DefaultCaller(e[1], e[2]), n)
<1>6. PICK b \in Caller :
        /\ callers[b] = Nil
        /\ callers'[b] = o
        /\ \A d \in Caller : callers[d] # Nil =>
             /\ callers'[d].rcl = callers[d].rcl
             /\ d # callersByRcl[e] => callers'[d] = callers[d]
        /\ callersByRcl' = [callersByRcl EXCEPT ![e] = b]
        /\ UNCHANGED <<outcome, callbacksById, callbacks>>
  BY <1>0, <1>2, <1>3, <1>5, InitialiseReplaces
<1>7. o.initialised /\ o.callback = Unknown /\ o.node = n
  <2>1. DefaultCaller(kind, h) \in CallerObject /\ DefaultCaller(kind, h).callback = Unknown
    BY DefaultCallerFields DEF IsUnknown
  <2>. QED
    BY <1>2, <2>1, AfterInitFields
<1>. HIDE DEF o
<1>8. new \in SlotObject /\ new # Nil
  <2>1. new \in SlotObject
    BY DEF SlotObject, Phase
  <2>. QED
    BY <2>1, CallerAppAssumption
<1>9. new.kind = kind /\ new.phase = "created" /\ ~new.linked
  OBVIOUS
<1>. HIDE DEF new
<1>10. slots' \in Slots /\ slots'[h] = new /\ \A g \in Handle : g # h => slots'[g] = slots[g]
  BY <1>0, <1>1, <1>8 DEF Slots
<1>11. /\ callersByRcl'[e] = b
       /\ \A x \in Kind \X Handle : x # e => callersByRcl'[x] = callersByRcl[x]
  BY <1>0, <1>2, <1>6 DEF IInv, TypeOK
<1>12. Elsewhere(h)
  <2>1. ASSUME NEW g \in Handle, g # h, NEW x \in Kind
        PROVE  callersByRcl'[<<x, g>>] = callersByRcl[<<x, g>>]
    BY <1>11, <2>1
  <2>2. callersByRcl[e] # Nil => callers[callersByRcl[e]].rcl = h
    <3>1. callersByRcl[e] # Nil =>
            <<callers[callersByRcl[e]].kind, callers[callersByRcl[e]].rcl>> = e
      BY <1>0, <1>2 DEF IInv, RegistriesHoldLive
    <3>. QED
      BY <3>1
  <2>3. ASSUME NEW d \in Caller, callers[d] # Nil, callers[d].rcl # h
        PROVE  callers'[d] = callers[d]
    <3>1. d # Nil
      BY NilIsNothing
    <3>. QED
      BY <1>6, <2>2, <2>3, <3>1
  <2>. QED
    BY <1>6, <1>10, <2>1, <2>3 DEF Elsewhere
<1>13. SlotOK(h)'
  <2>1. Current(h)' = b /\ b # Nil
    BY <1>9, <1>10, <1>11, NilIsNothing DEF Current
  <2>2. \A x \in Kind : x # kind => callersByRcl'[<<x, h>>] = Nil
    <3>1. \A x \in Kind : x # kind => callersByRcl[<<x, h>>] = Nil
      BY <1>0, <1>1 DEF SlotOK
    <3>. QED
      BY <1>11, <3>1
  <2>3. k # Nil => callers'[callbacks[k].caller].rcl = h
    BY <1>0, <1>6, AddressFields DEF SlotOK
  <2>4. UNCHANGED <<callbacksById, callbacks>>
    BY <1>6
  <2>. QED
    BY <1>5, <1>6, <1>7, <1>8, <1>9, <1>10, <2>1, <2>2, <2>3, <2>4 DEF SlotOK
<1>. QED
  BY <1>6, <1>10, <1>12, <1>13 DEF Kept

-----------------------------------------------------------------------------
(* The callback the processor knew at the address is one of an earlier object of
   this handle, which was replaced since: the address is free. *)
LEMMA AddressIsFree ==
  ASSUME IInv, slots \in Slots, NEW h \in Handle, SlotOK(h), In(h, "created")
  PROVE  ~TakenAddress(CallbackAt[h])
<1>. DEFINE k == callbacksById[CallbackAt[h]]
            d == callbacks[k].caller
            c == Current(h)
<1>. SUFFICES ASSUME k # Nil PROVE callers[d].removed
  BY DEF TakenAddress
<1>1. /\ k \in Callback /\ d \in Caller /\ callers[d] # Nil
      /\ callers[d] \in CallerObject /\ callers[d].callback = k
  BY AddressFields
<1>2. callers[d].rcl = h /\ slots[h] # Nil /\ c # Nil /\ callers[c].callback = Unknown
  BY DEF SlotOK, In
<1>3. d # c
  BY <1>1, <1>2, CallersAssumption
<1>. HIDE DEF k, d
<1>4. callers[d].kind \in Kind
  BY <1>1 DEF CallerObject
<1>5. callersByRcl[<<callers[d].kind, callers[d].rcl>>] # d
  <2>1. CASE callers[d].kind = slots[h].kind
    BY <1>2, <1>3, <2>1 DEF Current
  <2>2. CASE callers[d].kind # slots[h].kind
    BY <1>1, <1>2, <1>4, <2>2, NilIsNothing DEF SlotOK
  <2>. QED
    BY <2>1, <2>2
<1>. QED
  BY <1>1, <1>5 DEF IInv, RegistriesHoldLive, d

LEMMA AddCallbackKeeps ==
  ASSUME AppInv, complete, outcome = "running", NEW h \in Handle, AddCallback(h)
  PROVE  Kept(h)
<1>. DEFINE f == CallbackAt[h]
            e == <<slots[h].kind, h>>
            c == Current(h)
            k == NewCallback
            o == AfterSetCallback(callers[c], k)
            w == [caller |-> c, named |-> FALSE, running |-> FALSE]
<1>0. IInv /\ slots \in Slots /\ SlotOK(h)
  BY DEF AppInv
<1>1. /\ slots[h] # Nil /\ slots[h].phase = "created" /\ slots[h].kind # "client"
      /\ Advance(h, "added")
      /\ CallbackAdded(slots[h].kind, f, h)
  BY DEF AddCallback, In
<1>2. /\ slots[h].kind \in Kind /\ c \in Caller /\ callers[c] \in CallerObject
      /\ callers[c].rcl = h /\ c # Nil /\ callers[c].callback = Unknown
      /\ callers[c].initialised
  BY <1>0, <1>1, CurrentFields, NilIsNothing DEF SlotOK
<1>3. c = callersByRcl[e]
  BY DEF Current
<1>4. ~TakenAddress(f)
  BY <1>0, <1>1, AddressIsFree DEF In
<1>5. /\ FreeCallback
      /\ callers' = [callers EXCEPT ![c] = o]
      /\ callersByRcl' = [callersByRcl EXCEPT ![e] = c]
      /\ callbacks' = [callbacks EXCEPT ![k] = w]
      /\ callbacksById' = [callbacksById EXCEPT ![f] = k]
      /\ outcome' = outcome
  <2>1. AcceptsCallback(callers[c])
    BY <1>2 DEF AcceptsCallback, IsUnknown
  <2>. QED
    BY <1>1, <1>2, <1>3, <1>4, <2>1 DEF CallbackAdded, Continue
<1>6. k \in Callback /\ callbacks[k] = Nil /\ k # Nil
  BY <1>5, FreshCallback, NilIsNothing
<1>7. /\ o.rcl = h /\ o.initialised /\ o.node = callers[c].node
  BY <1>2, <1>6, AfterSetCallbackFields
<1>8. w.caller = c /\ ~w.named /\ ~w.running
  OBVIOUS
<1>9. /\ slots' \in Slots /\ slots'[h] # Nil
      /\ slots'[h].kind = slots[h].kind /\ slots'[h].phase = "added"
      /\ slots'[h].linked = slots[h].linked
      /\ \A g \in Handle : g # h => slots'[g] = slots[g]
  BY <1>0, <1>1, AdvancedSlot DEF Phase
<1>10. e \in Kind \X Handle /\ f \in CallbackHandle
  BY <1>2, CallerAppAssumption
<1>. HIDE DEF c, k, o, w
<1>11. callersByRcl' = callersByRcl
  BY <1>0, <1>3, <1>5, <1>10 DEF IInv, TypeOK
<1>12. callers'[c] = o /\ \A d \in Caller : d # c => callers'[d] = callers[d]
  BY <1>0, <1>2, <1>5 DEF IInv, TypeOK
<1>13. callbacks'[k] = w /\ \A j \in Callback : j # k => callbacks'[j] = callbacks[j]
  BY <1>0, <1>5, <1>6 DEF IInv, TypeOK
<1>14. /\ callbacksById'[f] = k
       /\ \A g \in Handle : g # h => callbacksById'[CallbackAt[g]] = callbacksById[CallbackAt[g]]
  BY <1>0, <1>5, <1>10, CallerAppAssumption DEF IInv, TypeOK
<1>15. Elsewhere(h)
  BY <1>2, <1>6, <1>9, <1>11, <1>12, <1>13, <1>14 DEF Elsewhere
<1>16. Current(h)' = c
  BY <1>3, <1>9, <1>11 DEF Current
<1>17. SlotOK(h)'
  BY <1>0, <1>1, <1>2, <1>6, <1>7, <1>8, <1>9, <1>11, <1>12, <1>13, <1>14, <1>16 DEF SlotOK, c
<1>. QED
  BY <1>5, <1>9, <1>15, <1>17 DEF Kept

(* The callback of the object at h is written, the object goes a phase further. *)
LEMMA CallbackWriteKeepsSlot ==
  ASSUME IInv, slots \in Slots, NEW h \in Handle, SlotOK(h), outcome' = "running",
         slots[h] # Nil, slots[h].phase \in {"added", "ready", "executing"},
         NEW phase \in {"ready", "executing"}, Advance(h, phase),
         NEW w, w.caller = callbacks[callbacksById[CallbackAt[h]]].caller,
         w.named, w.running <=> phase = "executing",
         callbacks' = [callbacks EXCEPT ![callbacksById[CallbackAt[h]]] = w],
         UNCHANGED <<registry, callers>>
  PROVE  Kept(h)
<1>. DEFINE k == callbacksById[CallbackAt[h]]
            c == Current(h)
<1>1. /\ k # Nil /\ callbacks[k].caller = c /\ c # Nil
      /\ callers[c].initialised /\ callers[c].rcl = h
  BY CurrentFields DEF SlotOK
<1>2. k \in Callback
  BY <1>1, AddressFields
<1>3. /\ slots' \in Slots /\ slots'[h] # Nil
      /\ slots'[h].kind = slots[h].kind /\ slots'[h].phase = phase
      /\ slots'[h].linked = slots[h].linked
      /\ \A g \in Handle : g # h => slots'[g] = slots[g]
  BY AdvancedSlot DEF Phase
<1>. HIDE DEF k
<1>4. callbacks'[k] = w /\ \A j \in Callback : j # k => callbacks'[j] = callbacks[j]
  BY <1>2 DEF IInv, TypeOK, k
<1>5. UNCHANGED <<callersByRcl, callbacksById, callers>>
  BY DEF registry
<1>6. Elsewhere(h)
  BY <1>1, <1>3, <1>4, <1>5 DEF Elsewhere
<1>7. Current(h)' = c
  BY <1>3, <1>5 DEF Current
<1>. HIDE DEF c
<1>8. SlotOK(h)'
  BY <1>1, <1>3, <1>4, <1>5, <1>7 DEF SlotOK, k, c
<1>. QED
  BY <1>3, <1>6, <1>8 DEF Kept

(* What the object at h has in its later phases: a callback of its own caller,
   which its registry holds. *)
LEMMA ObjectOfSlot ==
  ASSUME IInv, slots \in Slots, NEW h \in Handle, SlotOK(h), slots[h] # Nil,
         slots[h].phase \in {"added", "ready", "executing"}
  PROVE  LET k == callbacksById[CallbackAt[h]] IN
         /\ k # Nil
         /\ callbacks[k] \in CallbackObject
         /\ Held(callbacks[k].caller)
         /\ callbacks[k].named <=> slots[h].phase # "added"
         /\ callbacks[k].running <=> slots[h].phase = "executing"
<1>. DEFINE k == callbacksById[CallbackAt[h]]
            c == Current(h)
<1>1. /\ k # Nil /\ callbacks[k].caller = c /\ c # Nil
      /\ callbacks[k].named <=> slots[h].phase # "added"
      /\ callbacks[k].running <=> slots[h].phase = "executing"
  BY DEF SlotOK
<1>2. callbacks[k] \in CallbackObject
  BY <1>1, AddressFields
<1>3. callers[c].kind = slots[h].kind /\ callers[c].rcl = h
  BY <1>1, CurrentFields
<1>4. Held(c)
  BY <1>3 DEF Held, Current
<1>. QED
  BY <1>1, <1>2, <1>4

LEMMA RegisterCallbackKeeps ==
  ASSUME AppInv, complete, outcome = "running", NEW h \in Handle, RegisterCallback(h)
  PROVE  Kept(h)
<1>. DEFINE k == callbacksById[CallbackAt[h]]
            w == [callbacks[k] EXCEPT !.named = TRUE]
<1>0. IInv /\ slots \in Slots /\ SlotOK(h)
  BY DEF AppInv
<1>1. slots[h] # Nil /\ slots[h].phase = "added" /\ Advance(h, "ready")
  BY DEF RegisterCallback, In
<1>2. k # Nil /\ callbacks[k] \in CallbackObject /\ ~callbacks[k].named /\ ~callbacks[k].running
  BY <1>0, <1>1, ObjectOfSlot
<1>3. /\ callbacks' = [callbacks EXCEPT ![k] = w]
      /\ outcome' = outcome /\ UNCHANGED <<registry, callers>>
  BY <1>2 DEF RegisterCallback, CallbackRegister, Continue
<1>4. w.caller = callbacks[k].caller /\ w.named /\ ~w.running
  BY <1>2 DEF CallbackObject
<1>. HIDE DEF w
<1>. QED
  BY <1>0, <1>1, <1>3, <1>4, CallbackWriteKeepsSlot

LEMMA StartCallbackKeeps ==
  ASSUME AppInv, complete, outcome = "running", NEW h \in Handle, StartCallback(h)
  PROVE  Kept(h)
<1>. DEFINE k == callbacksById[CallbackAt[h]]
            w == [callbacks[k] EXCEPT !.running = TRUE]
<1>0. IInv /\ slots \in Slots /\ SlotOK(h)
  BY DEF AppInv
<1>1. slots[h] # Nil /\ slots[h].phase = "ready" /\ Advance(h, "executing")
  BY DEF StartCallback, In
<1>2. /\ k # Nil /\ callbacks[k] \in CallbackObject /\ callbacks[k].named
      /\ ~callbacks[k].running /\ Held(callbacks[k].caller)
  BY <1>0, <1>1, ObjectOfSlot
<1>3. /\ callbacks' = [callbacks EXCEPT ![k] = w]
      /\ outcome' = outcome /\ UNCHANGED <<registry, callers>>
  BY <1>2 DEF StartCallback, CallbackStart, Continue
<1>4. w.caller = callbacks[k].caller /\ w.named /\ w.running
  BY <1>2 DEF CallbackObject
<1>. HIDE DEF w
<1>. QED
  BY <1>0, <1>1, <1>3, <1>4, CallbackWriteKeepsSlot

LEMMA EndCallbackKeeps ==
  ASSUME AppInv, complete, outcome = "running", NEW h \in Handle, EndCallback(h)
  PROVE  Kept(h)
<1>. DEFINE k == callbacksById[CallbackAt[h]]
            w == [callbacks[k] EXCEPT !.running = FALSE]
<1>0. IInv /\ slots \in Slots /\ SlotOK(h)
  BY DEF AppInv
<1>1. slots[h] # Nil /\ slots[h].phase = "executing" /\ Advance(h, "ready")
  BY DEF EndCallback, In
<1>2. k # Nil /\ callbacks[k] \in CallbackObject /\ callbacks[k].named /\ callbacks[k].running
  BY <1>0, <1>1, ObjectOfSlot
<1>3. /\ callbacks' = [callbacks EXCEPT ![k] = w]
      /\ outcome' = outcome /\ UNCHANGED <<registry, callers>>
  BY <1>2 DEF EndCallback, CallbackEnd, Continue
<1>4. w.caller = callbacks[k].caller /\ w.named /\ ~w.running
  BY <1>2 DEF CallbackObject
<1>. HIDE DEF w
<1>. QED
  BY <1>0, <1>1, <1>3, <1>4, CallbackWriteKeepsSlot

LEMMA LinkKeeps ==
  ASSUME AppInv, complete, outcome = "running", NEW h \in Handle, Link(h)
  PROVE  Kept(h)
<1>. DEFINE c == Current(h)
            x == [slots[h] EXCEPT !.linked = TRUE]
<1>0. IInv /\ slots \in Slots /\ SlotOK(h)
  BY DEF AppInv
<1>1. /\ slots[h] # Nil /\ slots[h].phase # "destroyed" /\ slots[h].kind = "timer"
      /\ ~slots[h].linked
      /\ slots' = [slots EXCEPT ![h] = x]
  BY DEF Link
<1>2. PICK n \in nodes : TimerLinkNode(h, n)
  BY DEF Link
<1>3. n \in NodeHandle
  BY <1>0 DEF IInv, TypeOK
<1>4. /\ c \in Caller /\ c # Nil /\ callers[c] \in CallerObject /\ callers[c].rcl = h
      /\ callers[c].initialised /\ callers[c].node = Unknown
  BY <1>0, <1>1, CurrentFields DEF SlotOK
<1>5. c = callersByRcl[<<"timer", h>>]
  BY <1>1 DEF Current
<1>. DEFINE o == AfterLink(callers[c], n)
<1>6. /\ callers' = [callers EXCEPT ![c] = o]
      /\ outcome' = outcome
      /\ UNCHANGED <<callersByRcl, callbacksById, callbacks>>
  BY <1>2, <1>4, <1>5 DEF TimerLinkNode, AcceptsLink, IsUnknown, Continue
<1>7. o.rcl = h /\ o.initialised /\ o.callback = callers[c].callback
  BY <1>3, <1>4, AfterLinkFields
<1>8. /\ x \in SlotObject /\ x.kind = slots[h].kind /\ x.phase = slots[h].phase /\ x.linked
  BY <1>0, <1>1 DEF Slots, SlotObject
<1>. HIDE DEF x, o, c
<1>9. x # Nil
  BY <1>8, CallerAppAssumption
<1>10. slots' \in Slots /\ slots'[h] = x /\ \A g \in Handle : g # h => slots'[g] = slots[g]
  BY <1>0, <1>1, <1>8 DEF Slots
<1>11. callers'[c] = o /\ \A d \in Caller : d # c => callers'[d] = callers[d]
  BY <1>0, <1>4, <1>6 DEF IInv, TypeOK
<1>12. Elsewhere(h)
  BY <1>4, <1>6, <1>10, <1>11 DEF Elsewhere
<1>13. Current(h)' = c
  BY <1>6, <1>8, <1>10 DEF Current, c
<1>14. callbacksById[CallbackAt[h]] # Nil =>
         callers'[callbacks[callbacksById[CallbackAt[h]]].caller].rcl = h
  BY <1>0, <1>7, <1>11, AddressFields DEF SlotOK
<1>15. SlotOK(h)'
  BY <1>0, <1>1, <1>4, <1>6, <1>7, <1>8, <1>9, <1>10, <1>11, <1>13, <1>14 DEF SlotOK, c
<1>. QED
  BY <1>6, <1>10, <1>12, <1>15 DEF Kept

LEMMA DestroyKeeps ==
  ASSUME AppInv, complete, outcome = "running", NEW h \in Handle, Destroy(h)
  PROVE  Kept(h)
<1>0. IInv /\ slots \in Slots /\ SlotOK(h)
  BY DEF AppInv
<1>1. slots[h] # Nil /\ Advance(h, "destroyed") /\ UNCHANGED vars
  BY DEF Destroy
<1>2. /\ slots' \in Slots /\ slots'[h] # Nil
      /\ slots'[h].kind = slots[h].kind /\ slots'[h].phase = "destroyed"
      /\ \A g \in Handle : g # h => slots'[g] = slots[g]
  BY <1>0, <1>1, AdvancedSlot DEF Phase
<1>3. UNCHANGED <<outcome, callersByRcl, callbacksById, callers, callbacks>>
  BY <1>1 DEF vars, registry, heaps
<1>4. Elsewhere(h)
  BY <1>2, <1>3 DEF Elsewhere
<1>5. Current(h)' = Current(h)
  BY <1>2, <1>3 DEF Current
<1>6. SlotOK(h)'
  BY <1>0, <1>1, <1>2, <1>3, <1>5 DEF SlotOK
<1>. QED
  BY <1>2, <1>3, <1>4, <1>6 DEF Kept

-----------------------------------------------------------------------------
LEMMA AppInitHolds == AppInit => AppInv
<1>. SUFFICES ASSUME AppInit PROVE AppInv
  OBVIOUS
<1>1. IInv
  BY InitHolds DEF AppInit
<1>2. slots \in Slots /\ outcome = "running"
  BY DEF AppInit, Init, Slots
<1>3. ASSUME NEW h \in Handle PROVE SlotOK(h)
  <2>1. CallbackAt[h] \in CallbackHandle
    BY CallerAppAssumption
  <2>. QED
    BY <2>1 DEF AppInit, Init, SlotOK
<1>. QED
  BY <1>1, <1>2, <1>3 DEF AppInv

(* No handle of the application is concerned. *)
LEMMA NothingMoves ==
  ASSUME AppInv, IInv', UNCHANGED <<outcome, appVars, callersByRcl, callbacksById, heaps>>
  PROVE  AppInv'
<1>1. UNCHANGED <<complete, slots, callers, callbacks>>
  BY DEF appVars, heaps
<1>2. ASSUME NEW h \in Handle, SlotOK(h) PROVE SlotOK(h)'
  <2>1. Current(h)' = Current(h)
    BY <1>1 DEF Current
  <2>. QED
    BY <1>1, <1>2, <2>1 DEF SlotOK
<1>. QED
  BY <1>1, <1>2 DEF AppInv

LEMMA AppStepKeeps == AppInv /\ [AppNext]_allVars => AppInv'
<1>. SUFFICES ASSUME AppInv, [AppNext]_allVars PROVE AppInv'
  OBVIOUS
<1>1. IInv' /\ complete' = complete
  BY AppStepIsStep, StepKeeps DEF AppInv
<1>2. CASE UNCHANGED allVars
  BY <1>1, <1>2, NothingMoves DEF allVars, vars, registry
<1>3. CASE ~complete /\ UNCHANGED appVars
  BY <1>1, <1>3 DEF AppInv, appVars
<1>4. CASE complete /\ outcome = "running" /\ Application
  <2>1. ASSUME NEW n \in NodeHandle, NodeAppears(n), UNCHANGED appVars PROVE AppInv'
    BY <1>1, <2>1, NothingMoves DEF NodeAppears, Continue
  <2>2. ASSUME NEW h \in Handle,
               \/ \E kind \in Kind : Create(kind, h)
               \/ AddCallback(h) \/ RegisterCallback(h) \/ Link(h)
               \/ StartCallback(h) \/ EndCallback(h)
               \/ Destroy(h)
        PROVE  AppInv'
    BY <1>1, <1>4, <2>2, CreateKeeps, AddCallbackKeeps, RegisterCallbackKeeps, LinkKeeps,
       StartCallbackKeeps, EndCallbackKeeps, DestroyKeeps, KeptSuffices
  <2>. QED
    BY <1>4, <2>1, <2>2 DEF Application
<1>. QED
  BY <1>2, <1>3, <1>4 DEF AppNext

LEMMA AppInductive == AppSpec => []AppInv
  BY AppInitHolds, AppStepKeeps, PTL DEF AppSpec

(* "Assuming old service was deleted. Creating new.": the complete trace of an
   application is processed to its end, whatever objects are created, destroyed and
   created again at the addresses of others, and its events reach the object that
   is at the handle now. *)
THEOREM EventsAlwaysReachCurrent == AppSpec => []EventsReachCurrent
<1>1. AppInv => EventsReachCurrent
  BY DEF AppInv, SlotOK, Current, EventsReachCurrent
<1>. QED
  BY <1>1, AppInductive, PTL

(* An application only takes steps the processor takes for any events: what
   the theorems above show of every stream holds of its traces. *)
THEOREM AppIsStream == AppSpec => Spec
<1>1. AppInit => Init
  BY DEF AppInit
<1>2. AppInv /\ [AppNext]_allVars => [Next]_vars
  BY AppStepIsStep DEF AppInv
<1>. QED
  BY <1>1, <1>2, AppInductive, PTL DEF AppSpec, Spec
=============================================================================
