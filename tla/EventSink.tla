------------------------------- MODULE EventSink -------------------------------
(***************************************************************************)
(* Events from Rust to the host (crates/rustra/src):                       *)
(*   package_events.rs, events_state.rs, events_bus.rs   emit, sink or bus *)
(*   ffi_event_core.rs     the gate of a C sink, swap_global_event_sink    *)
(*   ffi_event_entries.rs  register, unregister, the pending installation  *)
(*   ffi_scriptc.rs        register and release by identity                *)
(*   ffi_prelude.rs        register_ffi                                    *)
(*                                                                         *)
(* An element of Sinks is one registration: FfiEventSink::new makes a new  *)
(* gate every time, Identity is the (callback, user_data) pair behind it.  *)
(* An element of Events is one emit together with the thread that does it. *)
(* The seq stamp of a queued event is left out: nothing in the core reads  *)
(* it, and it is drawn outside the bus mutex.                              *)
(***************************************************************************)
EXTENDS Integers, Sequences, FiniteSets

CONSTANTS
  Sinks,       \* registrations of C callbacks
  NoSink,
  Identity,    \* the (callback, user_data) of each registration
  Plain,       \* those registered through the scriptc entry (a plain C callback)
  Swappers,    \* host threads that register and unregister
  Registrars,  \* threads that call register_ffi
  NoOne,
  Events,      \* emits
  NulEvents,   \* those whose name or payload has an interior NUL
  Capacity     \* of the bus

VARIABLES
  registered,   \* FFI_CONTEXT is set
  globalSink,   \* FFI_EVENT_SINK
  globalLock,   \* who holds its mutex across two steps
  packageSink,  \* EventState.sink of the registered package
  gate,         \* "new" before the registration, then "open" until disabled
  active,       \* FfiEventActivity.active_calls of each gate
  swapPc, next, previous,  \* each swapper: its place, what it installs, replaced
  registrarPc,  \* each register_ffi call
  emitPc, using,           \* each emit: its place, the sink it cloned
  queue, dropped,          \* EventBusState
  released,     \* history: sinks whose replacement or removal has returned
  fate          \* history: what became of each event

sinkVars  == <<registered, globalSink, globalLock, packageSink>>
gateVars  == <<gate, active>>
swapVars  == <<swapPc, next, previous, released>>
emitVars  == <<emitPc, using>>
busVars   == <<queue, dropped>>

Init ==
  /\ registered = FALSE
  /\ globalSink = NoSink /\ packageSink = NoSink
  /\ globalLock = NoOne
  /\ gate = [s \in Sinks |-> "new"]
  /\ active = [s \in Sinks |-> 0]
  /\ swapPc = [t \in Swappers |-> "idle"]
  /\ next = [t \in Swappers |-> NoSink]
  /\ previous = [t \in Swappers |-> NoSink]
  /\ released = {}
  /\ registrarPc = [r \in Registrars |-> "idle"]
  /\ emitPc = [e \in Events |-> "idle"]
  /\ using = [e \in Events |-> NoSink]
  /\ queue = << >> /\ dropped = 0
  /\ fate = [e \in Events |-> "none"]

-----------------------------------------------------------------------------
(* swap_global_event_sink: under the global mutex the registration changes   *)
(* hands and the package is given the new sink; the replaced one is waited   *)
(* for after the mutex is dropped.                                           *)

Swap(t, sink) ==
  /\ swapPc[t] = "idle" /\ globalLock = NoOne
  /\ globalLock' = t
  /\ previous' = [previous EXCEPT ![t] = globalSink]
  /\ next' = [next EXCEPT ![t] = sink]
  /\ globalSink' = sink
  /\ swapPc' = [swapPc EXCEPT ![t] = "installing"]
  /\ UNCHANGED <<registered, packageSink, active, released, registrarPc, emitVars, busVars, fate>>

Register(t, s) ==
  /\ gate[s] = "new"
  /\ gate' = [gate EXCEPT ![s] = "open"]
  /\ Swap(t, s)

Unregister(t) == Swap(t, NoSink) /\ UNCHANGED gate

Owns(id) == globalSink \in Plain /\ Identity[globalSink] = id

(* A release by somebody else's identity returns at once. *)
Release(t, id) == Owns(id) /\ Swap(t, NoSink) /\ UNCHANGED gate

(* Mutant: the mutex is dropped before the package is told. *)
MutInstall(t) ==
  /\ swapPc[t] = "installing"
  /\ \/ /\ globalLock = t
        /\ globalLock' = NoOne
        /\ UNCHANGED <<packageSink, swapPc>>
     \/ /\ globalLock # t
        /\ packageSink' = IF registered THEN next[t] ELSE packageSink
        /\ swapPc' = [swapPc EXCEPT ![t] = IF previous[t] = NoSink THEN "idle" ELSE "closing"]
        /\ UNCHANGED globalLock
  /\ UNCHANGED <<registered, globalSink, gateVars, next, previous, released, registrarPc,
                 emitVars, busVars, fate>>

Install(t) ==
  /\ swapPc[t] = "installing"
  /\ packageSink' = IF registered THEN next[t] ELSE packageSink
  /\ globalLock' = NoOne
  /\ swapPc' = [swapPc EXCEPT ![t] = IF previous[t] = NoSink THEN "idle" ELSE "closing"]
  /\ UNCHANGED <<registered, globalSink, gateVars, next, previous, released, registrarPc,
                 emitVars, busVars, fate>>

(* Under the mutex of the gate: return when nothing is active, or sleep on    *)
(* the condition variable.                                                   *)
WaitQuiescent(t) ==
  IF active[previous[t]] = 0
    THEN /\ swapPc' = [swapPc EXCEPT ![t] = "idle"]
         /\ released' = released \cup {previous[t]}
    ELSE /\ swapPc' = [swapPc EXCEPT ![t] = "asleep"]
         /\ UNCHANGED released

(* Mutant: the gate is left open while the caller waits. *)
MutClose(t) ==
  /\ swapPc[t] = "closing"
  /\ WaitQuiescent(t)
  /\ UNCHANGED <<sinkVars, gateVars, next, previous, registrarPc, emitVars, busVars, fate>>

Close(t) ==
  /\ swapPc[t] = "closing"
  /\ gate' = [gate EXCEPT ![previous[t]] = "closed"]
  /\ WaitQuiescent(t)
  /\ UNCHANGED <<sinkVars, active, next, previous, registrarPc, emitVars, busVars, fate>>

Wake(t) ==
  /\ swapPc[t] = "woken"
  /\ WaitQuiescent(t)
  /\ UNCHANGED <<sinkVars, gateVars, next, previous, registrarPc, emitVars, busVars, fate>>

-----------------------------------------------------------------------------
(* register_ffi: the first package wins; every call then installs the sink   *)
(* that was registered before there was a package.                           *)

RegisterFfi(r) ==
  /\ registrarPc[r] = "idle"
  /\ registered' = TRUE
  /\ registrarPc' = [registrarPc EXCEPT ![r] = "pending"]
  /\ UNCHANGED <<globalSink, globalLock, packageSink, gateVars, swapVars, emitVars, busVars, fate>>

InstallPending(r) ==
  /\ registrarPc[r] = "pending" /\ globalLock = NoOne
  /\ packageSink' = IF globalSink # NoSink THEN globalSink ELSE packageSink
  /\ registrarPc' = [registrarPc EXCEPT ![r] = "done"]
  /\ UNCHANGED <<registered, globalSink, globalLock, gateVars, swapVars, emitVars, busVars, fate>>

-----------------------------------------------------------------------------
(* emit: the sink is cloned under the read lock and called outside it.       *)

Emit(e) ==
  /\ emitPc[e] = "idle"
  /\ using' = [using EXCEPT ![e] = packageSink]
  /\ emitPc' = [emitPc EXCEPT ![e] = IF packageSink = NoSink THEN "queueing" ELSE "cloned"]
  /\ UNCHANGED <<sinkVars, gateVars, swapVars, registrarPc, busVars, fate>>

(* A closed gate drops the event; so does a NUL, once inside. *)
Enter(e) ==
  /\ emitPc[e] = "cloned"
  /\ LET inside == gate[using[e]] = "open"
         called == inside /\ e \notin NulEvents
     IN  /\ active' = IF inside THEN [active EXCEPT ![using[e]] = @ + 1] ELSE active
         /\ emitPc' = [emitPc EXCEPT ![e] = CASE called  -> "callback"
                                              [] ~inside -> "done"
                                              [] OTHER   -> "leaving"]
         /\ fate' = [fate EXCEPT ![e] = IF called THEN "delivered" ELSE "lost"]
  /\ UNCHANGED <<sinkVars, gate, swapVars, registrarPc, using, busVars>>

(* The host's callback is over, by returning or by a caught panic. *)
CallbackReturns(e) ==
  /\ emitPc[e] = "callback"
  /\ emitPc' = [emitPc EXCEPT ![e] = "leaving"]
  /\ UNCHANGED <<sinkVars, gateVars, swapVars, registrarPc, using, busVars, fate>>

(* Mutant: the last call out does not notify. *)
MutNotified(s) == swapPc

Notified(s) ==
  [t \in Swappers |-> IF swapPc[t] = "asleep" /\ previous[t] = s /\ active'[s] = 0
                        THEN "woken" ELSE swapPc[t]]

(* Drop of FfiActivityGuard. *)
Leave(e) ==
  /\ emitPc[e] = "leaving"
  /\ active' = [active EXCEPT ![using[e]] = IF @ = 0 THEN 0 ELSE @ - 1]
  /\ swapPc' = Notified(using[e])
  /\ emitPc' = [emitPc EXCEPT ![e] = "done"]
  /\ UNCHANGED <<sinkVars, gate, next, previous, released, registrarPc, using, busVars, fate>>

(* Mutant: the bus notices one event too late that it is full. *)
MutPushLate(e) ==
  /\ queue' = Append(IF Len(queue) > Capacity THEN Tail(queue) ELSE queue, e)
  /\ fate' = [fate EXCEPT ![e] = "queued"]
  /\ dropped' = IF Len(queue) > Capacity THEN dropped + 1 ELSE dropped

(* Mutant: the drop is not counted. *)
MutPush(e) ==
  /\ queue' = Append(IF Len(queue) >= Capacity THEN Tail(queue) ELSE queue, e)
  /\ fate' = [fate EXCEPT ![e] = "queued"]
  /\ UNCHANGED dropped

(* EventBus::emit: drop the oldest, count it. *)
Push(e) ==
  /\ queue' = Append(IF Len(queue) >= Capacity THEN Tail(queue) ELSE queue, e)
  /\ fate' = [fate EXCEPT ![e] = "queued"]
  /\ dropped' = IF Len(queue) >= Capacity THEN dropped + 1 ELSE dropped

QueueEvent(e) ==
  /\ emitPc[e] = "queueing"
  /\ Push(e)
  /\ emitPc' = [emitPc EXCEPT ![e] = "done"]
  /\ UNCHANGED <<sinkVars, gateVars, swapVars, registrarPc, using>>

(* A polling host. *)
TakePendingEvents ==
  /\ queue # << >>
  /\ queue' = << >>
  /\ fate' = [e \in Events |-> IF \E k \in DOMAIN queue : queue[k] = e THEN "taken" ELSE fate[e]]
  /\ UNCHANGED <<sinkVars, gateVars, swapVars, registrarPc, emitVars, dropped>>

-----------------------------------------------------------------------------
SwapNext(t) ==
  \/ \E s \in Sinks : Register(t, s)
  \/ Unregister(t)
  \/ \E s \in Sinks : Release(t, Identity[s])
  \/ Install(t) \/ Close(t) \/ Wake(t)

EmitNext(e) == Emit(e) \/ Enter(e) \/ CallbackReturns(e) \/ Leave(e) \/ QueueEvent(e)

Next ==
  \/ \E t \in Swappers : SwapNext(t)
  \/ \E r \in Registrars : RegisterFfi(r) \/ InstallPending(r)
  \/ \E e \in Events : EmitNext(e)
  \/ TakePendingEvents

-----------------------------------------------------------------------------
(* The states of every variable. *)
TypeOK ==
  /\ registered \in BOOLEAN
  /\ {globalSink, packageSink} \subseteq Sinks \cup {NoSink}
  /\ globalLock \in Swappers \cup {NoOne}
  /\ gate \in [Sinks -> {"new", "open", "closed"}]
  /\ active \in [Sinks -> Nat]
  /\ swapPc \in [Swappers -> {"idle", "installing", "closing", "asleep", "woken"}]
  /\ {next, previous} \subseteq [Swappers -> Sinks \cup {NoSink}]
  /\ released \subseteq Sinks
  /\ registrarPc \in [Registrars -> {"idle", "pending", "done"}]
  /\ emitPc \in [Events -> {"idle", "cloned", "callback", "leaving", "queueing", "done"}]
  /\ using \in [Events -> Sinks \cup {NoSink}]
  /\ queue \in Seq(Events) /\ Len(queue) <= Capacity
  /\ dropped \in Nat
  /\ fate \in [Events -> {"none", "delivered", "queued", "taken", "lost"}]

(* Once the call that replaced or removed a sink has returned, its callback  *)
(* neither runs nor ever runs again, whoever cloned it before: the host may  *)
(* let go of user_data (ffi_event_entries.rs:33-35).                         *)
NoCallbackAfterRelease ==
  \A s \in released, e \in Events : using[e] = s => emitPc[e] # "callback"

(* A sink registered before the package exists is not lost, and a removed one *)
(* does not come back: when nobody is in between, the package has the sink    *)
(* that is registered.                                                        *)
PackageFollowsRegistration ==
  registered /\ globalLock = NoOne /\ (\A r \in Registrars : registrarPc[r] # "pending") =>
    packageSink = globalSink

(* The bus loses nothing silently: what was queued and neither waits nor was  *)
(* taken has been counted as dropped.                                         *)
DropsAreCounted ==
  Cardinality({e \in Events : fate[e] = "queued"}) = Len(queue) + dropped

(* Types, and with them the capacity of the queue; and the sink and the bus   *)
(* lose nothing.                                                              *)
EventsKept == TypeOK /\ PackageFollowsRegistration /\ DropsAreCounted
===============================================================================
