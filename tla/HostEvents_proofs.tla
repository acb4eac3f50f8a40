--------------------------- MODULE HostEvents_proofs ---------------------------
(***************************************************************************)
(* Proofs about an event's way from Rust to TypeScript: about EventPolling *)
(* for every set of subscription keys and of loops, and however many        *)
(* unsubscribe functions are held; about EventSink for any number of sinks, *)
(* threads and events and every capacity of the bus; and about HostEvents,  *)
(* which has both.                                                         *)
(***************************************************************************)
EXTENDS HostEvents, FiniteSetTheorems, TLAPS

USE DEF deliveryVars, pollVars, fixedVars
USE DEF Bus!sinkVars, Bus!gateVars, Bus!swapVars, Bus!emitVars, Bus!busVars

(* The conjuncts of the inductive invariant. *)

\* On the push path nothing polls, and the listener follows the table.
PushPath ==
  /\ mode = "push" => adapter = "node" /\ Live = {} /\ timer = NoTimer
  /\ attached <=> mode = "push" /\ table # {}

\* What the adapters believe of their loops is true: a set flag (Node) and a kept
\* handle (Bun) stand for a loop that is under way.
Believed ==
  /\ adapter = "node" /\ polling => Live # {}
  /\ adapter = "bun" /\ timer # NoTimer /\ ~disposed => loop[timer] # "idle"
  /\ disposed => adapter = "bun" /\ table = {}

\* With subscribers, the adapter that polls has a loop and knows it.
Served ==
  mode = "polling" /\ table # {} =>
    IF adapter = "node" THEN polling ELSE Live # {}

IInv == TypeOK /\ PushPath /\ Believed /\ Served

(***************************************************************************)
(* Helpers: what each change of the loops does to Live.                    *)
(***************************************************************************)
LEMMA LiveAfter ==
  ASSUME TypeOK, NEW l \in Loops, NEW s \in {"idle", "draining", "waiting"},
         loop' = [loop EXCEPT ![l] = s], s # "idle"
  PROVE  Live' # {} /\ loop'[l] # "idle"
  BY DEF TypeOK, Live

LEMMA EnsureType ==
  ASSUME TypeOK, EnsurePolling
  PROVE  /\ polling' \in BOOLEAN /\ timer' \in Loops \cup {NoTimer}
         /\ loop' \in [Loops -> {"idle", "draining", "waiting"}]
  BY DEF TypeOK, EnsurePolling, Drains, Throws

\* After it a loop is under way, if what the adapter believes is true.
LEMMA EnsureLive ==
  ASSUME TypeOK, Believed, EnsurePolling, ~disposed
  PROVE  /\ Live' # {}
         /\ adapter = "node" => polling'
         /\ timer' # NoTimer /\ adapter = "bun" => loop'[timer'] # "idle"
  <1>1. CASE LoopRuns
    BY <1>1 DEF TypeOK, Believed, EnsurePolling, LoopRuns, Live
  <1>2. CASE ~LoopRuns
    <2>1. PICK l \in Loops : Drains(l) \/ Throws(l)
      BY <1>2 DEF EnsurePolling
    <2>2. polling' = (adapter = "node")
      BY <1>2 DEF EnsurePolling
    <2>3. loop' = [loop EXCEPT ![l] = "draining"] \/ loop' = [loop EXCEPT ![l] = "waiting"]
      BY <2>1 DEF Drains, Throws
    <2>4. Live' # {} /\ loop'[l] # "idle"
      BY <2>3, LiveAfter
    <2>5. adapter = "bun" => timer = NoTimer
      BY <1>2 DEF LoopRuns
    <2>6. timer' = timer \/ timer' = l
      BY <2>1 DEF Drains, Throws
    <2> QED BY <2>2, <2>4, <2>5, <2>6
  <1> QED BY <1>1, <1>2

LEMMA ClearType ==
  ASSUME TypeOK, ClearTimer
  PROVE  /\ polling' \in BOOLEAN /\ timer' = NoTimer
         /\ loop' \in [Loops -> {"idle", "draining", "waiting"}]
         /\ (polling' => polling /\ loop' = loop)
         /\ (Live = {} => Live' = {})
  <1>1. CASE timer = NoTimer
    BY <1>1 DEF TypeOK, ClearTimer, Live
  <1>2. CASE timer # NoTimer
    BY <1>2 DEF TypeOK, ClearTimer, Live
  <1> QED BY <1>1, <1>2

(***************************************************************************)
(* Initial states and steps.                                               *)
(***************************************************************************)
LEMMA InvInit == Init => IInv
  <1> SUFFICES ASSUME Init PROVE IInv
    OBVIOUS
  <1>1. /\ adapter \in {"node", "bun"} /\ transport.push \in BOOLEAN
        /\ mode \in {"push", "polling"}
        /\ mode = "push" => adapter = "node"
    BY PollingAssumption DEF Init
  <1>2. /\ open \in [Keys -> 0..MaxOpen] /\ table = {}
        /\ loop \in [Loops -> {"idle", "draining", "waiting"}] /\ Live = {}
    BY PollingAssumption DEF Init, Live
  <1>3. TypeOK
    BY <1>1, <1>2 DEF Init, TypeOK
  <1>4. PushPath /\ Believed /\ Served
    BY <1>1, <1>2 DEF Init, PushPath, Believed, Served
  <1> QED BY <1>3, <1>4 DEF IInv

LEMMA InvSubscribe ==
  ASSUME IInv, NEW k \in Keys, Subscribe(k) PROVE IInv'
  <1> USE DEF IInv
  <1>1. table' # {} /\ ~disposed /\ ~disposed' /\ table' \subseteq Keys
    BY DEF TypeOK, Subscribe
  <1>2. open' \in [Keys -> 0..MaxOpen] /\ verdict' \in {"none", "waiting", "settled"}
    BY PollingAssumption DEF TypeOK, Subscribe
  <1>3. CASE mode = "push"
    BY <1>1, <1>2, <1>3 DEF TypeOK, Subscribe, PushPath, Believed, Served, Live
  <1>4. CASE mode # "push"
    <2>1. EnsurePolling /\ mode' = mode /\ attached' = attached
      BY <1>4 DEF Subscribe
    <2>2. TypeOK'
      BY <1>1, <1>2, <2>1, EnsureType DEF TypeOK, Subscribe
    <2>3. PushPath' /\ Believed' /\ Served'
      BY <1>1, <1>4, <2>1, EnsureLive DEF TypeOK, Subscribe, PushPath, Believed, Served
    <2> QED BY <2>2, <2>3
  <1> QED BY <1>3, <1>4

LEMMA InvUnsubscribe ==
  ASSUME IInv, NEW k \in Keys, Unsubscribe(k) PROVE IInv'
  <1> USE DEF IInv
  <1>1. open' \in [Keys -> 0..MaxOpen] /\ table' \subseteq Keys
    BY PollingAssumption DEF TypeOK, Unsubscribe
  <1>2. table' # {} => table # {}
    BY DEF Unsubscribe
  <1>3. CASE table' = {} /\ (adapter = "node" => k \in table)
    <2>1. ClearTimer /\ attached' = FALSE
      BY <1>3 DEF Unsubscribe
    <2>2. TypeOK'
      BY <1>1, <2>1, ClearType DEF TypeOK, Unsubscribe
    <2>3. Believed'
      BY <1>3, <2>1, ClearType DEF TypeOK, Unsubscribe, Believed, Live
    <2>4. PushPath' /\ Served'
      BY <1>3, <2>1, ClearType DEF TypeOK, Unsubscribe, PushPath, Served
    <2> QED BY <2>2, <2>3, <2>4
  <1>4. CASE ~(table' = {} /\ (adapter = "node" => k \in table))
    <2>1. UNCHANGED <<pollVars, attached>>
      BY <1>4 DEF Unsubscribe
    <2>2. TypeOK' /\ Believed'
      BY <1>1, <1>2, <2>1 DEF TypeOK, Unsubscribe, Believed, Live
    <2>3. table' = {} => table = {} /\ adapter = "node"
      BY <1>4 DEF TypeOK, Unsubscribe
    <2>4. PushPath' /\ Served'
      BY <1>2, <2>1, <2>3 DEF TypeOK, Unsubscribe, PushPath, Served, Live
    <2> QED BY <2>2, <2>4
  <1> QED BY <1>3, <1>4

LEMMA InvDispose == ASSUME IInv, Dispose PROVE IInv'
  <1> USE DEF IInv
  <1>1. ClearTimer /\ table' = {}
    BY DEF Dispose
  <1>2. TypeOK'
    BY <1>1, ClearType DEF TypeOK, Dispose
  <1>3. PushPath' /\ Believed' /\ Served'
    BY <1>1, ClearType DEF TypeOK, Dispose, PushPath, Believed, Served
  <1> QED BY <1>2, <1>3

LEMMA InvFire ==
  ASSUME IInv, NEW l \in Loops, Fire(l) PROVE IInv'
  <1> USE DEF IInv
  <1>1. Live # {} /\ mode = "polling"
    BY DEF TypeOK, PushPath, Live, Fire, FireDrains, FireThrows, FireEnds, Fires
  <1>2. CASE FireDrains(l)
    <2>1. loop' = [loop EXCEPT ![l] = "draining"]
      BY <1>2 DEF FireDrains, Drains
    <2>2. Live' # {} /\ loop'[l] # "idle"
      BY <2>1, LiveAfter
    <2>3. TypeOK' /\ PushPath'
      BY <1>1, <1>2, <2>1 DEF TypeOK, FireDrains, Drains, PushPath
    <2>4. Believed' /\ Served'
      BY <1>1, <1>2, <2>1, <2>2 DEF TypeOK, FireDrains, Drains, Believed, Served
    <2> QED BY <2>3, <2>4
  <1>3. CASE FireThrows(l)
    <2>1. loop' = [loop EXCEPT ![l] = "waiting"] /\ timer' = l
      BY <1>3 DEF FireThrows, Throws
    <2>2. Live' # {} /\ loop'[l] # "idle"
      BY <2>1, LiveAfter
    <2>3. TypeOK' /\ PushPath'
      BY <1>1, <1>3, <2>1 DEF TypeOK, FireThrows, Throws, PushPath
    <2>4. Believed' /\ Served'
      BY <1>1, <1>3, <2>1, <2>2 DEF TypeOK, FireThrows, Throws, Believed, Served
    <2> QED BY <2>3, <2>4
  <1>4. CASE FireEnds(l)
    <2>1. TypeOK' /\ PushPath'
      BY <1>1, <1>4 DEF TypeOK, FireEnds, Ends, PushPath
    <2>2. Believed' /\ Served'
      BY <1>1, <1>4 DEF TypeOK, FireEnds, NothingToDo, Believed, Served
    <2> QED BY <2>1, <2>2
  <1> QED BY <1>2, <1>3, <1>4 DEF Fire

LEMMA InvDrained ==
  ASSUME IInv, NEW l \in Loops, Drained(l) PROVE IInv'
  <1> USE DEF IInv
  <1>1. Live # {} /\ mode = "polling"
    BY DEF TypeOK, PushPath, Live, Drained
  <1>2. CASE disposed \/ table = {}
    BY <1>1, <1>2 DEF TypeOK, Drained, Ends, PushPath, Believed, Served
  <1>3. CASE ~(disposed \/ table = {})
    <2>1. loop' = [loop EXCEPT ![l] = "waiting"] /\ timer' = l /\ polling' = polling
      BY <1>3 DEF Drained
    <2>2. Live' # {} /\ loop'[l] # "idle"
      BY <2>1, LiveAfter
    <2>3. TypeOK' /\ PushPath'
      BY <1>1, <2>1 DEF TypeOK, Drained, PushPath
    <2>4. Believed' /\ Served'
      BY <1>1, <2>1, <2>2 DEF TypeOK, Drained, Believed, Served
    <2> QED BY <2>3, <2>4
  <1> QED BY <1>2, <1>3

LEMMA InvVerdict == ASSUME IInv, Verdict PROVE IInv'
  <1> USE DEF IInv
  <1>1. CASE mode = "push" /\ ~transport.capable
    <2>1. adapter = "node" /\ ~disposed /\ attached' = FALSE /\ mode' = "polling"
      BY <1>1 DEF Verdict, PushPath, Believed
    <2>2. CASE table # {}
      <3>1. EnsurePolling
        BY <1>1, <2>2 DEF Verdict
      <3>2. TypeOK'
        BY <1>1, <2>1, <3>1, EnsureType DEF TypeOK, Verdict
      <3>3. PushPath' /\ Believed' /\ Served'
        BY <1>1, <2>1, <3>1, EnsureLive DEF TypeOK, Verdict, PushPath, Believed, Served
      <3> QED BY <3>2, <3>3
    <2>3. CASE table = {}
      <3>1. UNCHANGED pollVars
        BY <1>1, <2>3 DEF Verdict
      <3> QED BY <1>1, <2>1, <2>3, <3>1
              DEF TypeOK, Verdict, PushPath, Believed, Served, Live
    <2> QED BY <2>2, <2>3
  <1>2. CASE ~(mode = "push" /\ ~transport.capable)
    BY <1>2 DEF TypeOK, Verdict, PushPath, Believed, Served, Live
  <1> QED BY <1>1, <1>2

LEMMA InvNext == IInv /\ [Next]_vars => IInv'
  <1> SUFFICES ASSUME IInv, [Next]_vars PROVE IInv'
    OBVIOUS
  <1>1. CASE UNCHANGED vars
    BY <1>1 DEF vars, IInv, TypeOK, PushPath, Believed, Served, Live
  <1>2. ASSUME NEW k \in Keys, Subscribe(k) \/ Unsubscribe(k) PROVE IInv'
    BY <1>2, InvSubscribe, InvUnsubscribe
  <1>3. ASSUME NEW l \in Loops, Fire(l) \/ Drained(l) PROVE IInv'
    BY <1>3, InvFire, InvDrained
  <1>4. CASE Verdict \/ Dispose
    BY <1>4, InvVerdict, InvDispose
  <1> QED BY <1>1, <1>2, <1>3, <1>4 DEF Next

(***************************************************************************)
(* The theorems.                                                           *)
(***************************************************************************)

\* The inductive invariant holds.
THEOREM Invariance == Spec => []IInv
  <1> QED BY InvInit, InvNext, PTL DEF Spec

\* Every variable keeps its type.
THEOREM TypeCorrect == Spec => []TypeOK
  <1>1. IInv => TypeOK
    BY DEF IInv
  <1> QED BY Invariance, <1>1, PTL

\* Whoever is subscribed has a push listener or a loop that serves it
\* (ensureDelivery in node-events.ts, subscribeEvent in bun-events.ts).
THEOREM SubscribersAreServed == Spec => []NoDeadStream
  <1>1. IInv => NoDeadStream
    BY DEF IInv, TypeOK, PushPath, Believed, Served, NoDeadStream
  <1> QED BY Invariance, <1>1, PTL

\* Push and polling exclude each other, and the push listener goes with its last
\* subscriber (scheduleCapabilityVerdict and the unsubscribe of node-events.ts).
THEOREM PathsExclude == Spec => []OnePath
  <1>1. IInv => OnePath
    BY DEF IInv, PushPath, OnePath
  <1> QED BY Invariance, <1>1, PTL

(* Subscribers are served by exactly one way. *)
THEOREM ServedAlways == Spec => []ServedByOnePath
  <1>1. NoDeadStream /\ OnePath => ServedByOnePath
    BY DEF ServedByOnePath
  <1> QED BY <1>1, SubscribersAreServed, PathsExclude, PTL

-----------------------------------------------------------------------------
(***************************************************************************)
(* EventSink.  The conjuncts of its inductive invariant.                   *)
(***************************************************************************)

\* The mutex is held from the exchange to the installation; without a holder the
\* package has the registered sink or none, and with one the sink before, or none.
SinkInv ==
  /\ \A t \in Swappers :
       /\ swapPc[t] = "installing" <=> globalLock = t
       /\ globalLock = t => next[t] = globalSink /\ packageSink \in {NoSink, previous[t]}
  /\ globalLock = NoOne => packageSink \in {NoSink, globalSink}
  /\ ~registered => packageSink = NoSink
  /\ \A r \in Registrars : registrarPc[r] = "pending" => registered
  /\ Bus!PackageFollowsRegistration

\* Who waits has closed the gate; who has returned left nobody inside.
GateInv ==
  /\ \A t \in Swappers :
       /\ swapPc[t] \in {"closing", "asleep", "woken"} => previous[t] \in Sinks
       /\ swapPc[t] \in {"asleep", "woken"} => gate[previous[t]] = "closed"
  /\ \A s \in released : gate[s] = "closed" /\ active[s] = 0

\* The callers inside a gate are those its count counts.
Inside(s) == {e \in Events : using[e] = s /\ emitPc[e] \in {"callback", "leaving"}}

CountInv ==
  /\ \A e \in Events : emitPc[e] \in {"cloned", "callback", "leaving"} => using[e] \in Sinks
  /\ \A s \in Sinks : active[s] = Cardinality(Inside(s))

\* The queue has every event once, and what left it otherwise was counted.
Queued == {e \in Events : fate[e] = "queued"}

QueueInv ==
  /\ \A e \in Events : emitPc[e] \in {"idle", "cloned", "queueing"} => fate[e] = "none"
  /\ \A i, j \in 1..Len(queue) : queue[i] = queue[j] => i = j
  /\ \A i \in 1..Len(queue) : queue[i] \in Queued
  /\ Cardinality(Queued) = Len(queue) + dropped

BusInv == Bus!TypeOK /\ SinkInv /\ GateInv /\ CountInv /\ QueueInv

LEMMA InsideFinite ==
  ASSUME NEW s
  PROVE  IsFiniteSet(Inside(s)) /\ Cardinality(Inside(s)) \in Nat
  <1>1. Inside(s) \subseteq Events
    BY DEF Inside
  <1> QED BY <1>1, EventsAssumption, FS_Subset, FS_CardinalityType

LEMMA QueuedFinite == IsFiniteSet(Queued) /\ Cardinality(Queued) \in Nat
  <1>1. Queued \subseteq Events
    BY DEF Queued
  <1> QED BY <1>1, EventsAssumption, FS_Subset, FS_CardinalityType

LEMMA BusInit == Bus!Init => BusInv
  <1> SUFFICES ASSUME Bus!Init PROVE BusInv
    OBVIOUS
  <1>1. Bus!TypeOK
    <2>1. queue \in Seq(Events) /\ Len(queue) <= Capacity
      BY CapacityAssumption DEF Bus!Init
    <2> QED BY <2>1 DEF Bus!Init, Bus!TypeOK
  <1>2. SinkInv /\ GateInv
    BY SwappersAssumption DEF Bus!Init, SinkInv, GateInv, Bus!PackageFollowsRegistration
  <1>3. Queued = {} /\ \A s : Inside(s) = {}
    BY DEF Bus!Init, Inside, Queued
  <1>4. CountInv
    BY <1>3, FS_EmptySet DEF Bus!Init, CountInv
  <1>5. QueueInv
    BY <1>3, FS_EmptySet DEF Bus!Init, QueueInv
  <1> QED BY <1>1, <1>2, <1>4, <1>5 DEF BusInv

(***************************************************************************)
(* The steps of threads that register, unregister and release.             *)
(***************************************************************************)
LEMMA EmitsUntouched ==
  ASSUME CountInv, QueueInv, UNCHANGED <<active, emitPc, using, queue, dropped, fate>>
  PROVE  CountInv' /\ QueueInv'
  <1>1. Queued' = Queued /\ \A s : Inside(s)' = Inside(s)
    BY DEF Queued, Inside
  <1> QED BY <1>1 DEF CountInv, QueueInv

LEMMA InvSwap ==
  ASSUME BusInv, NEW t \in Swappers, NEW sink \in Sinks \cup {NoSink}, Bus!Swap(t, sink),
         gate' \in [Sinks -> {"new", "open", "closed"}],
         \A s \in Sinks : gate[s] = "closed" => gate'[s] = "closed"
  PROVE  BusInv'
  <1> USE DEF BusInv
  <1>1. Bus!TypeOK'
    BY DEF Bus!TypeOK, Bus!Swap
  <1>2. SinkInv'
    BY SwappersAssumption DEF Bus!TypeOK, SinkInv, Bus!Swap, Bus!PackageFollowsRegistration
  <1>3. GateInv'
    BY DEF Bus!TypeOK, GateInv, Bus!Swap
  <1>4. CountInv' /\ QueueInv'
    BY EmitsUntouched DEF Bus!Swap
  <1> QED BY <1>1, <1>2, <1>3, <1>4

LEMMA InvRegister ==
  ASSUME BusInv, NEW t \in Swappers, NEW s \in Sinks, Bus!Register(t, s) PROVE BusInv'
  <1>1. /\ gate' \in [Sinks -> {"new", "open", "closed"}]
        /\ \A x \in Sinks : gate[x] = "closed" => gate'[x] = "closed"
    BY DEF Bus!Register, BusInv, Bus!TypeOK
  <1> QED BY <1>1, InvSwap DEF Bus!Register

LEMMA InvRemoval ==
  ASSUME BusInv, NEW t \in Swappers, NEW id, Bus!Unregister(t) \/ Bus!Release(t, id) PROVE BusInv'
  <1>1. Bus!Swap(t, NoSink) /\ UNCHANGED gate
    BY DEF Bus!Unregister, Bus!Release
  <1> QED BY <1>1, InvSwap DEF BusInv, Bus!TypeOK

LEMMA InvInstall ==
  ASSUME BusInv, NEW t \in Swappers, Bus!Install(t) PROVE BusInv'
  <1> USE DEF BusInv
  <1>1. Bus!TypeOK'
    BY DEF Bus!TypeOK, Bus!Install
  <1>2. globalLock = t /\ next[t] = globalSink /\ globalLock' = NoOne
    BY DEF SinkInv, Bus!Install
  <1>3. /\ swapPc'[t] # "installing"
        /\ \A x \in Swappers \ {t} : swapPc'[x] = swapPc[x] /\ swapPc[x] # "installing"
    BY <1>2 DEF Bus!TypeOK, SinkInv, Bus!Install
  <1>4. SinkInv'
    BY <1>2, <1>3, SwappersAssumption
       DEF Bus!TypeOK, SinkInv, Bus!Install, Bus!PackageFollowsRegistration
  <1>5. GateInv'
    BY DEF Bus!TypeOK, GateInv, Bus!Install
  <1>6. CountInv' /\ QueueInv'
    BY EmitsUntouched DEF Bus!Install
  <1> QED BY <1>1, <1>4, <1>5, <1>6

LEMMA InvClose ==
  ASSUME BusInv, NEW t \in Swappers, Bus!Close(t) \/ Bus!Wake(t) PROVE BusInv'
  <1> USE DEF BusInv
  <1>1. /\ swapPc[t] \in {"closing", "woken"} /\ previous[t] \in Sinks
        /\ gate' = [gate EXCEPT ![previous[t]] = "closed"]
        /\ Bus!WaitQuiescent(t)
        /\ UNCHANGED <<registered, globalSink, globalLock, packageSink, active, next, previous,
                       registrarPc, emitPc, using, queue, dropped, fate>>
    BY DEF Bus!Close, Bus!Wake, GateInv, Bus!TypeOK
  <1>2. \/ /\ active[previous[t]] = 0 /\ swapPc' = [swapPc EXCEPT ![t] = "idle"]
           /\ released' = released \cup {previous[t]}
        \/ swapPc' = [swapPc EXCEPT ![t] = "asleep"] /\ released' = released
    BY <1>1 DEF Bus!WaitQuiescent
  <1>3. Bus!TypeOK'
    BY <1>1, <1>2 DEF Bus!TypeOK
  <1>4. SinkInv'
    BY <1>1, <1>2 DEF Bus!TypeOK, SinkInv, Bus!PackageFollowsRegistration
  <1>5. GateInv'
    BY <1>1, <1>2 DEF Bus!TypeOK, GateInv
  <1>6. CountInv' /\ QueueInv'
    BY <1>1, EmitsUntouched
  <1> QED BY <1>3, <1>4, <1>5, <1>6

LEMMA InvRegistrar ==
  ASSUME BusInv, NEW r \in Registrars, Bus!RegisterFfi(r) \/ Bus!InstallPending(r) PROVE BusInv'
  <1> USE DEF BusInv
  <1>1. Bus!TypeOK'
    <2>1. CASE Bus!RegisterFfi(r)
      BY <2>1 DEF Bus!TypeOK, Bus!RegisterFfi
    <2>2. CASE Bus!InstallPending(r)
      BY <2>2 DEF Bus!TypeOK, Bus!InstallPending
    <2> QED BY <2>1, <2>2
  <1>2. SinkInv'
    <2>1. CASE Bus!RegisterFfi(r)
      BY <2>1 DEF Bus!TypeOK, SinkInv, Bus!RegisterFfi, Bus!PackageFollowsRegistration
    <2>2. CASE Bus!InstallPending(r)
      <3>1. globalLock = NoOne /\ globalLock' = NoOne /\ packageSink' = globalSink
        BY <2>2 DEF SinkInv, Bus!InstallPending
      <3>2. registered /\ \A x \in Registrars : registrarPc'[x] = "pending" => registered
        BY <2>2 DEF Bus!TypeOK, SinkInv, Bus!InstallPending
      <3>3. UNCHANGED <<registered, globalSink, next, previous, swapPc>>
        BY <2>2 DEF Bus!InstallPending
      <3> QED BY <3>1, <3>2, <3>3, SwappersAssumption
              DEF SinkInv, Bus!PackageFollowsRegistration
    <2> QED BY <2>1, <2>2
  <1>3. GateInv'
    BY DEF GateInv, Bus!RegisterFfi, Bus!InstallPending
  <1>4. CountInv' /\ QueueInv'
    BY EmitsUntouched DEF Bus!RegisterFfi, Bus!InstallPending
  <1> QED BY <1>1, <1>2, <1>3, <1>4

(***************************************************************************)
(* The steps of an emit and of the polling host.                           *)
(***************************************************************************)
LEMMA CountKept ==
  ASSUME CountInv, UNCHANGED active,
         \A e \in Events :
           /\ emitPc'[e] \in {"callback", "leaving"} <=> emitPc[e] \in {"callback", "leaving"}
           /\ emitPc'[e] \in {"cloned", "callback", "leaving"} => using'[e] \in Sinks
           /\ emitPc[e] \in {"callback", "leaving"} => using'[e] = using[e]
  PROVE  CountInv'
  <1>1. \A s : Inside(s)' = Inside(s)
    BY DEF Inside
  <1> QED BY <1>1 DEF CountInv

\* What a step changes of one event that was not queued leaves the bus as it is.
LEMMA QueueKept ==
  ASSUME QueueInv, Bus!TypeOK, NEW e \in Events, UNCHANGED <<queue, dropped>>,
         UNCHANGED fate \/ (/\ fate[e] # "queued" /\ fate'[e] # "queued"
                            /\ emitPc'[e] \notin {"idle", "cloned", "queueing"}
                            /\ \A x \in Events \ {e} : fate'[x] = fate[x]),
         emitPc'[e] \in {"idle", "cloned", "queueing"} =>
           emitPc[e] \in {"idle", "cloned", "queueing"},
         \A x \in Events \ {e} : emitPc'[x] = emitPc[x]
  PROVE  QueueInv'
  <1>1. Queued' = Queued
    BY DEF Queued
  <1>2. \A x \in Events : emitPc'[x] \in {"idle", "cloned", "queueing"} => fate'[x] = "none"
    BY DEF QueueInv
  <1> QED BY <1>1, <1>2 DEF QueueInv

LEMMA InvEmit ==
  ASSUME BusInv, NEW e \in Events, Bus!Emit(e) PROVE BusInv'
  <1> USE DEF BusInv
  <1>1. /\ emitPc[e] = "idle" /\ emitPc'[e] \in {"queueing", "cloned"}
        /\ emitPc'[e] = "cloned" => using'[e] \in Sinks
        /\ \A x \in Events \ {e} : emitPc'[x] = emitPc[x] /\ using'[x] = using[x]
        /\ UNCHANGED <<active, queue, dropped, fate>>
    BY DEF Bus!TypeOK, Bus!Emit
  <1>2. Bus!TypeOK'
    BY DEF Bus!TypeOK, Bus!Emit
  <1>3. SinkInv' /\ GateInv'
    BY DEF SinkInv, GateInv, Bus!Emit, Bus!PackageFollowsRegistration
  <1>4. CountInv'
    BY <1>1, CountKept DEF CountInv
  <1>5. QueueInv'
    BY <1>1, QueueKept
  <1> QED BY <1>2, <1>3, <1>4, <1>5

LEMMA InvEnter ==
  ASSUME BusInv, NEW e \in Events, Bus!Enter(e) PROVE BusInv'
  <1> USE DEF BusInv
  <1> DEFINE s == using[e]
  <1>1. /\ emitPc[e] = "cloned" /\ s \in Sinks /\ UNCHANGED using
        /\ emitPc'[e] \in {"callback", "done", "leaving"} /\ fate'[e] \in {"delivered", "lost"}
        /\ \A x \in Events \ {e} : emitPc'[x] = emitPc[x] /\ fate'[x] = fate[x]
        /\ UNCHANGED <<gate, queue, dropped>>
    BY DEF CountInv, Bus!TypeOK, Bus!Enter
  <1>2. Bus!TypeOK'
    <2>1. active' \in [Sinks -> Nat]
      BY <1>1 DEF Bus!TypeOK, Bus!Enter
    <2>2. /\ emitPc' \in [Events -> {"idle", "cloned", "callback", "leaving", "queueing", "done"}]
          /\ fate' \in [Events -> {"none", "delivered", "queued", "taken", "lost"}]
      BY DEF Bus!TypeOK, Bus!Enter
    <2> QED BY <2>1, <2>2 DEF Bus!TypeOK, Bus!Enter
  <1>3. SinkInv'
    BY DEF SinkInv, Bus!Enter, Bus!PackageFollowsRegistration
  <1>4. QueueInv'
    <2>1. fate[e] = "none"
      BY <1>1 DEF QueueInv
    <2> QED BY <1>1, <2>1, QueueKept
  <1>5. CASE gate[s] = "open"
    <2>1. /\ emitPc'[e] \in {"callback", "leaving"}
          /\ active'[s] = active[s] + 1 /\ \A x \in Sinks \ {s} : active'[x] = active[x]
      BY <1>1, <1>5 DEF Bus!Enter, Bus!TypeOK
    <2>2. Inside(s)' = Inside(s) \cup {e} /\ e \notin Inside(s)
      BY <1>1, <2>1 DEF Inside
    <2>3. \A x \in Sinks \ {s} : Inside(x)' = Inside(x)
      BY <1>1, <2>1 DEF Inside
    <2>4. Cardinality(Inside(s)') = Cardinality(Inside(s)) + 1
      BY <2>2, InsideFinite, FS_AddElement
    <2>5. CountInv'
      BY <1>1, <2>1, <2>3, <2>4 DEF CountInv
    <2>6. GateInv'
      BY <1>1, <1>5, <2>1 DEF GateInv, Bus!TypeOK, Bus!Enter
    <2> QED BY <1>2, <1>3, <1>4, <2>5, <2>6
  <1>6. CASE gate[s] # "open"
    <2>1. emitPc'[e] = "done" /\ UNCHANGED active
      BY <1>6 DEF Bus!Enter, Bus!TypeOK
    <2>2. CountInv'
      BY <1>1, <2>1, CountKept DEF CountInv
    <2>3. GateInv'
      BY <2>1 DEF GateInv, Bus!Enter
    <2> QED BY <1>2, <1>3, <1>4, <2>2, <2>3
  <1> QED BY <1>5, <1>6

LEMMA InvCallbackReturns ==
  ASSUME BusInv, NEW e \in Events, Bus!CallbackReturns(e) PROVE BusInv'
  <1> USE DEF BusInv
  <1>1. /\ emitPc[e] = "callback" /\ emitPc'[e] = "leaving"
        /\ \A x \in Events \ {e} : emitPc'[x] = emitPc[x]
        /\ UNCHANGED <<using, active, queue, dropped, fate>>
    BY DEF Bus!TypeOK, Bus!CallbackReturns
  <1>2. Bus!TypeOK'
    BY DEF Bus!TypeOK, Bus!CallbackReturns
  <1>3. SinkInv' /\ GateInv'
    BY DEF SinkInv, GateInv, Bus!CallbackReturns, Bus!PackageFollowsRegistration
  <1>4. CountInv'
    BY <1>1, CountKept DEF CountInv
  <1>5. QueueInv'
    BY <1>1, QueueKept
  <1> QED BY <1>2, <1>3, <1>4, <1>5

LEMMA InvLeave ==
  ASSUME BusInv, NEW e \in Events, Bus!Leave(e) PROVE BusInv'
  <1> USE DEF BusInv
  <1> DEFINE s == using[e]
  <1>1. /\ emitPc[e] = "leaving" /\ s \in Sinks /\ emitPc'[e] = "done"
        /\ \A x \in Events \ {e} : emitPc'[x] = emitPc[x]
        /\ UNCHANGED <<using, gate, previous, released, queue, dropped, fate>>
    BY DEF CountInv, Bus!TypeOK, Bus!Leave
  <1>2. /\ active'[s] = IF active[s] = 0 THEN 0 ELSE active[s] - 1
        /\ \A x \in Sinks \ {s} : active'[x] = active[x]
        /\ active' \in [Sinks -> Nat]
    BY <1>1 DEF Bus!TypeOK, Bus!Leave
  <1>3. /\ swapPc' \in [Swappers -> {"idle", "installing", "closing", "asleep", "woken"}]
        /\ \A t \in Swappers : swapPc'[t] = swapPc[t] \/ (swapPc[t] = "asleep" /\ swapPc'[t] = "woken")
    BY DEF Bus!Leave, Bus!Notified, Bus!TypeOK
  <1>4. Bus!TypeOK'
    BY <1>2, <1>3 DEF Bus!TypeOK, Bus!Leave
  <1>5. SinkInv'
    BY <1>3 DEF SinkInv, Bus!Leave, Bus!PackageFollowsRegistration
  <1>6. GateInv'
    BY <1>1, <1>2, <1>3 DEF GateInv, Bus!TypeOK
  <1>7. CountInv'
    <2>1. e \in Inside(s) /\ Inside(s)' = Inside(s) \ {e}
      BY <1>1 DEF Inside
    <2>2. \A x \in Sinks \ {s} : Inside(x)' = Inside(x)
      BY <1>1 DEF Inside
    <2>3. /\ Cardinality(Inside(s)') = Cardinality(Inside(s)) - 1
          /\ Cardinality(Inside(s)) # 0
      BY <2>1, InsideFinite, FS_RemoveElement, FS_EmptySet
    <2> QED BY <1>1, <1>2, <2>2, <2>3 DEF CountInv
  <1>8. QueueInv'
    BY <1>1, QueueKept
  <1> QED BY <1>4, <1>5, <1>6, <1>7, <1>8

LEMMA InvQueueEvent ==
  ASSUME BusInv, NEW e \in Events, Bus!QueueEvent(e) PROVE BusInv'
  <1> USE DEF BusInv
  <1>1. /\ emitPc[e] = "queueing" /\ emitPc'[e] = "done" /\ fate[e] = "none" /\ fate'[e] = "queued"
        /\ \A x \in Events \ {e} : emitPc'[x] = emitPc[x] /\ fate'[x] = fate[x]
        /\ UNCHANGED <<using, active>>
    BY DEF QueueInv, Bus!TypeOK, Bus!QueueEvent, Bus!Push
  <1> DEFINE full == Len(queue) >= Capacity
             kept == IF full THEN Tail(queue) ELSE queue
  <1>2. /\ queue \in Seq(Events) /\ Len(queue) \in Nat /\ Len(queue) <= Capacity
        /\ dropped \in Nat /\ Capacity \in Nat \ {0}
    BY CapacityAssumption DEF Bus!TypeOK
  <1>3. /\ kept \in Seq(Events) /\ Len(kept) = IF full THEN Len(queue) - 1 ELSE Len(queue)
        /\ \A i \in 1..Len(kept) : kept[i] = queue[IF full THEN i + 1 ELSE i]
    BY <1>2
  <1>4. queue' = Append(kept, e) /\ dropped' = IF full THEN dropped + 1 ELSE dropped
    BY DEF Bus!QueueEvent, Bus!Push
  <1>5. /\ queue' \in Seq(Events) /\ Len(queue') = Len(kept) + 1
        /\ \A i \in 1..Len(kept) : queue'[i] = kept[i]
        /\ queue'[Len(kept) + 1] = e
    BY <1>3, <1>4
  <1>6. Bus!TypeOK'
    BY <1>2, <1>3, <1>4, <1>5 DEF Bus!TypeOK, Bus!QueueEvent, Bus!Push
  <1>7. SinkInv' /\ GateInv'
    BY DEF SinkInv, GateInv, Bus!QueueEvent, Bus!PackageFollowsRegistration
  <1>8. CountInv'
    BY <1>1, CountKept DEF CountInv
  <1>9. QueueInv'
    <2>1. Queued' = Queued \cup {e} /\ e \notin Queued
      BY <1>1 DEF Queued
    <2>2. Cardinality(Queued') = Cardinality(Queued) + 1
      BY <2>1, QueuedFinite, FS_AddElement
    <2>3. Cardinality(Queued') = Len(queue') + dropped'
      <3> HIDE DEF full, kept
      <3>1. Cardinality(Queued) = Len(queue) + dropped
        BY DEF QueueInv
      <3>2. dropped' - dropped = Len(queue) - Len(kept)
        BY <1>2, <1>3, <1>4
      <3>3. dropped' \in Nat /\ Len(kept) \in Nat
        BY <1>2, <1>3, <1>4
      <3>4. Cardinality(Queued) + 1 = Len(kept) + 1 + dropped'
        BY <1>2, <3>1, <3>2, <3>3
      <3>5. Cardinality(Queued') = Len(kept) + 1 + dropped'
        BY <2>2, <3>4, Zenon
      <3> QED BY <1>5, <3>5, Zenon
    <2>4. \A i \in 1..Len(kept) : kept[i] \in Queued
      BY <1>2, <1>3 DEF QueueInv
    <2>5. \A i, j \in 1..Len(kept) : kept[i] = kept[j] => i = j
      BY <1>2, <1>3 DEF QueueInv
    <2>6. \A i \in 1..Len(queue') : queue'[i] \in Queued'
      BY <1>3, <1>5, <2>1, <2>4
    <2>7. \A i, j \in 1..Len(queue') : queue'[i] = queue'[j] => i = j
      BY <1>3, <1>5, <2>1, <2>4, <2>5
    <2>8. \A x \in Events : emitPc'[x] \in {"idle", "cloned", "queueing"} => fate'[x] = "none"
      BY <1>1 DEF QueueInv
    <2> QED BY <2>3, <2>6, <2>7, <2>8 DEF QueueInv
  <1> QED BY <1>6, <1>7, <1>8, <1>9

LEMMA InvTake ==
  ASSUME BusInv, Bus!TakePendingEvents PROVE BusInv'
  <1> USE DEF BusInv
  <1> DEFINE waiting == {queue[i] : i \in 1..Len(queue)}
  <1>1. /\ queue' = << >> /\ UNCHANGED <<emitPc, using, active, dropped>>
        /\ \A x \in Events : fate'[x] = IF x \in waiting THEN "taken" ELSE fate[x]
        /\ fate' \in [Events -> {"none", "delivered", "queued", "taken", "lost"}]
    BY DEF Bus!TakePendingEvents, Bus!TypeOK
  <1>2. queue \in Seq(Events) /\ Len(queue) \in Nat
    BY DEF Bus!TypeOK
  <1>3. queue' \in Seq(Events) /\ Len(queue') = 0
    BY <1>1
  <1>4. Bus!TypeOK'
    BY <1>1, <1>3, CapacityAssumption DEF Bus!TypeOK, Bus!TakePendingEvents
  <1>5. SinkInv' /\ GateInv'
    BY DEF SinkInv, GateInv, Bus!TakePendingEvents, Bus!PackageFollowsRegistration
  <1>6. CountInv'
    BY <1>1, CountKept DEF CountInv
  <1>7. waiting \subseteq Queued
    BY DEF QueueInv
  <1>8. Cardinality(waiting) = Len(queue)
    <2> DEFINE f == [i \in 1..Len(queue) |-> queue[i]]
    <2>1. f \in Bijection(1..Len(queue), waiting)
      BY DEF QueueInv, Bijection, Injection, Surjection, IsInjective
    <2> QED BY <1>2, <2>1, FS_CountingElements DEF ExistsBijection
  <1>9. Queued' = Queued \ waiting
    BY <1>1 DEF Queued
  <1>10. Cardinality(Queued') = Len(queue') + dropped'
    <2>1. Queued \cap waiting = waiting
      BY <1>7
    <2> HIDE DEF waiting
    <2>2. Cardinality(Queued') = Cardinality(Queued) - Len(queue)
      <3>1. Cardinality(Queued \ waiting) = Cardinality(Queued) - Cardinality(Queued \cap waiting)
        BY QueuedFinite, FS_Difference
      <3>2. Cardinality(Queued') = Cardinality(Queued) - Cardinality(waiting)
        BY <3>1, <1>9, <2>1, Zenon
      <3> QED BY <3>2, <1>8
    <2>3. Cardinality(Queued) = Len(queue) + dropped /\ dropped \in Nat
      BY DEF QueueInv, Bus!TypeOK
    <2> QED BY <1>1, <1>2, <1>3, <2>2, <2>3
  <1>11. \A x \in Events : emitPc'[x] \in {"idle", "cloned", "queueing"} => fate'[x] = "none"
    BY <1>1, <1>7 DEF QueueInv, Queued
  <1>12. QueueInv'
    BY <1>3, <1>10, <1>11 DEF QueueInv
  <1> QED BY <1>4, <1>5, <1>6, <1>12

LEMMA BusNext == BusInv /\ Bus!Next => BusInv'
  <1> SUFFICES ASSUME BusInv, Bus!Next PROVE BusInv'
    OBVIOUS
  <1>1. ASSUME NEW t \in Swappers, Bus!SwapNext(t) PROVE BusInv'
    BY <1>1, InvRegister, InvRemoval, InvInstall, InvClose DEF Bus!SwapNext
  <1>2. ASSUME NEW r \in Registrars, Bus!RegisterFfi(r) \/ Bus!InstallPending(r) PROVE BusInv'
    BY <1>2, InvRegistrar
  <1>3. ASSUME NEW e \in Events, Bus!EmitNext(e) PROVE BusInv'
    BY <1>3, InvEmit, InvEnter, InvCallbackReturns, InvLeave, InvQueueEvent DEF Bus!EmitNext
  <1> QED BY <1>1, <1>2, <1>3, InvTake DEF Bus!Next

LEMMA BusKept == BusInv /\ UNCHANGED busVars => BusInv'
  <1> SUFFICES ASSUME BusInv, UNCHANGED busVars PROVE BusInv'
    OBVIOUS
  <1> USE DEF busVars, BusInv
  <1>1. Bus!TypeOK'
    BY DEF Bus!TypeOK
  <1>2. SinkInv' /\ GateInv'
    BY DEF SinkInv, GateInv, Bus!PackageFollowsRegistration
  <1>3. CountInv' /\ QueueInv'
    BY EmitsUntouched
  <1> QED BY <1>1, <1>2, <1>3

(***************************************************************************)
(* The theorems about both.                                                *)
(***************************************************************************)

\* The invariants of the two parts hold together.
LEMMA EventsInvariance == EventsSpec => [](IInv /\ BusInv)
  <1>1. EventsInit => IInv /\ BusInv
    BY InvInit, BusInit DEF EventsInit
  <1>2. ASSUME IInv /\ BusInv, [(AtBus /\ Bus!Next) \/ (AtAdapter /\ Next)]_all
        PROVE  (IInv /\ BusInv)'
    <2>1. CASE AtBus /\ Bus!Next
      BY <1>2, <2>1, BusNext, InvNext DEF AtBus
    <2>2. CASE AtAdapter /\ Next
      BY <1>2, <2>2, BusKept, InvNext DEF AtAdapter
    <2>3. CASE UNCHANGED all
      BY <1>2, <2>3, BusKept, InvNext DEF all
    <2> QED BY <1>2, <2>1, <2>2, <2>3
  <1> QED BY <1>1, <1>2, PTL DEF EventsSpec

\* When the call that replaced or removed a sink has returned, user_data may be
\* freed (ffi_event_entries.rs:33-35); no registered sink is lost and none that was
\* removed comes back (ffi_prelude.rs); and the bus counts what it drops
\* (events_bus.rs).
THEOREM SinksAreSound == EventsSpec => []SinksSound
  <1>1. ASSUME BusInv, NEW s \in released, NEW e \in Events, using[e] = s, emitPc[e] = "callback"
        PROVE  FALSE
    <2>1. s \in Sinks /\ active[s] = 0
      BY <1>1 DEF BusInv, GateInv, Bus!TypeOK
    <2>2. e \in Inside(s) /\ Cardinality(Inside(s)) = 0
      BY <1>1, <2>1 DEF Inside, BusInv, CountInv
    <2> QED BY <2>2, InsideFinite, FS_EmptySet
  <1>2. BusInv => Bus!NoCallbackAfterRelease
    BY <1>1 DEF Bus!NoCallbackAfterRelease
  <1>3. BusInv => Bus!EventsKept
    <2>1. QueueInv => Bus!DropsAreCounted
      BY DEF QueueInv, Queued, Bus!DropsAreCounted, Bus!Cardinality, Cardinality
    <2>2. SinkInv => Bus!PackageFollowsRegistration
      BY DEF SinkInv
    <2> QED BY <2>1, <2>2 DEF BusInv, Bus!EventsKept
  <1>4. BusInv => SinksSound
    BY <1>2, <1>3 DEF SinksSound
  <1> QED BY <1>4, EventsInvariance, PTL

\* In the composition, too, subscribers are served by one path (node-events.ts,
\* bun-events.ts).
THEOREM HostServes == EventsSpec => []ServedByOnePath
  <1>1. IInv => ServedByOnePath
    BY DEF IInv, TypeOK, PushPath, Believed, Served, NoDeadStream, OnePath, ServedByOnePath
  <1> QED BY <1>1, EventsInvariance, PTL
================================================================================
