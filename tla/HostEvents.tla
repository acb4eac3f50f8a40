------------------------------- MODULE HostEvents -------------------------------
(***************************************************************************)
(* The two ends of an event's way from Rust to TypeScript: the sink a host *)
(* registers with the core, or the bus where events wait without one       *)
(* (EventSink), and the loops of an adapter that drain the bus for its      *)
(* subscribers (EventPolling).  What the first leaves in the bus the       *)
(* second takes out in one step, and neither waits for the other; so a     *)
(* behaviour is that of one of them, chosen at the start (`part').         *)
(***************************************************************************)
EXTENDS EventPolling, Sequences

CONSTANTS
  Sinks, NoSink, Identity, Plain, Swappers, Registrars, NoOne,
  Events, NulEvents, Capacity                              \* of EventSink

ASSUME SinksAssumption ==
  NoSink \notin Sinks /\ Plain \subseteq Sinks /\ DOMAIN Identity = Sinks
ASSUME SwappersAssumption == NoOne \notin Swappers
ASSUME EventsAssumption   == IsFiniteSet(Events) /\ NulEvents \subseteq Events
ASSUME CapacityAssumption == Capacity \in Nat \ {0}

VARIABLES
  part,
  registered, globalSink, globalLock, packageSink, gate, active, swapPc, next, previous,
  registrarPc, emitPc, using, queue, dropped, released, fate  \* of EventSink

busVars == <<registered, globalSink, globalLock, packageSink, gate, active, swapPc, next,
             previous, registrarPc, emitPc, using, queue, dropped, released, fate>>

Bus == INSTANCE EventSink

all == <<part, vars, busVars>>

AtBus == part = "bus" /\ UNCHANGED <<part, vars>>
AtAdapter == part = "adapter" /\ UNCHANGED <<part, busVars>>

(* Of the part that does not run, one first state stands for all. *)
EventsInit ==
  /\ part \in {"bus", "adapter"} /\ Init /\ Bus!Init
  /\ part = "bus" =>
       adapter = "bun" /\ transport = [push |-> FALSE, ready |-> FALSE, capable |-> FALSE]

EventsSpec == EventsInit /\ [][(AtBus /\ Bus!Next) \/ (AtAdapter /\ Next)]_all

(* Threads inside the library get on, and a callback of the host comes back   *)
(* (the contract register asks of it).  Timers fire, drains and the handshake *)
(* settle, and drainEvents does not throw every time.  Nobody has to register *)
(* or emit, to subscribe or unsubscribe, or to dispose.                       *)
EventsFairness ==
  /\ \A t \in Swappers : WF_all(AtBus /\ (Bus!Install(t) \/ Bus!Close(t) \/ Bus!Wake(t)))
  /\ \A r \in Registrars : WF_all(AtBus /\ Bus!InstallPending(r))
  /\ \A e \in Events :
       WF_all(AtBus /\ (Bus!Enter(e) \/ Bus!CallbackReturns(e) \/ Bus!Leave(e) \/ Bus!QueueEvent(e)))
  /\ \A l \in Loops : WF_all(AtAdapter /\ Fire(l)) /\ WF_all(AtAdapter /\ Drained(l))
  /\ \A l \in Loops : SF_all(AtAdapter /\ FireDrains(l))
  /\ WF_all(AtAdapter /\ Verdict)

EventsFairSpec == EventsSpec /\ EventsFairness

-----------------------------------------------------------------------------
(* Once the call that replaced or removed a sink has returned, its callback   *)
(* neither runs nor ever runs again, whoever cloned it before: the host may   *)
(* let go of user_data (ffi_event_entries.rs:33-35).  And no registered sink   *)
(* is lost between register and register_ffi, no removed one comes back, and   *)
(* the bus loses no event without counting it (ffi_prelude.rs, events_bus.rs). *)
SinksSound == Bus!NoCallbackAfterRelease /\ Bus!EventsKept

(* The calls that replace or remove a sink come back, the sleeper is woken by *)
(* the last callback that leaves; and subscribers go on being served.         *)
EventsEnd ==
  /\ \A t \in Swappers : []<>(swapPc[t] = "idle")
  /\ ListenersServed
================================================================================
