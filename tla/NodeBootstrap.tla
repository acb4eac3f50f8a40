---------------------------- MODULE NodeBootstrap ----------------------------
(***************************************************************************)
(* The life of a Node bootstrap (packages/node/src/node-bootstrap.ts, with *)
(* the probes of node-persistent.ts and the states that                    *)
(* types/src/bootstrap-lifecycle.ts defines): it claims the global engine  *)
(* slot, opens a transport when the engine is first needed, checks the     *)
(* contract and the events of the runtime, and can be reloaded, disposed   *)
(* or replaced by somebody else's registration at every await in between.  *)
(*                                                                         *)
(* Of the slot (module EngineSlot) only what a bootstrap sees is kept: who *)
(* holds it, the installed engine and the shared initialization.  Names of *)
(* transports and runs are used again once they are closed or have ended.  *)
(* A step is one job of the event loop with its reactions.                 *)
(***************************************************************************)
EXTENDS Integers, FiniteSets

CONSTANTS
  Transports,     \* processes, or what createTransport returns
  NoTransport,
  Runs,           \* executions of the initializer
  NoRun,
  Readers,        \* calls of ready()
  Reload,         \* the call of ready() inside reload()
  Subscriptions,
  MaxTries        \* candidate binaries one run finds

ASSUME BootstrapAssumption ==
  /\ IsFiniteSet(Transports) /\ NoTransport \notin Transports
  /\ IsFiniteSet(Runs) /\ NoRun \notin Runs /\ Reload \notin Readers
  /\ MaxTries \in Nat \ {0}

VARIABLES
  custom, persistent,       \* options.createTransport, options.persistent
  holder,                   \* who has the slot: "self", "other", "nobody"
  engine,                   \* the transport behind the engine in the slot
  flight,                   \* the initialization all callers share
  state,                    \* "initializing", "ready", "disposed"
  owned,                    \* transport and closeResource
  runPc, runTransport, tries,
  transport,                \* of each: "unborn", "open", "closed"
  readerPc, awaits,         \* ready(): its state, the run whose promise it awaits
  reloadPc,                 \* "idle", "readying", "draining", "restarting"
  subscribed, attached      \* subscriptions, and the transport each listens to

slotVars == <<holder, engine, flight>>
runVars  == <<runPc, runTransport, tries>>
readVars == <<readerPc, awaits>>
eventVars == <<subscribed, attached>>
vars == <<custom, persistent, slotVars, state, owned, runVars, transport,
          readVars, reloadPc, eventVars>>

Init ==
  /\ custom \in BOOLEAN /\ persistent \in BOOLEAN
  /\ holder = "self"
  /\ engine = NoTransport /\ flight = NoRun
  /\ state = "initializing" /\ owned = NoTransport
  /\ runPc = [n \in Runs |-> "idle"]
  /\ runTransport = [n \in Runs |-> NoTransport]
  /\ tries = [n \in Runs |-> 0]
  /\ transport = [t \in Transports |-> "closed"]
  /\ readerPc = [c \in Readers |-> "idle"]
  /\ awaits = [c \in Readers \cup {Reload} |-> NoRun]
  /\ reloadPc = "idle"
  /\ subscribed = {} /\ attached = [s \in Subscriptions |-> NoTransport]

IsCurrent == holder = "self"
Active == state # "disposed" /\ IsCurrent      \* assertActive does not throw

InFlight(n) == runPc[n] # "idle"

(* attachEvents and closeEvents. *)
AttachTo(t, S) ==
  attached' = [s \in Subscriptions |->
                 IF s \in S /\ attached[s] = NoTransport THEN t ELSE attached[s]]
CloseEvents == attached' = [s \in Subscriptions |-> NoTransport]

-----------------------------------------------------------------------------
(* ensureConfigured starts the initializer unless it runs already.           *)

Start(n) ==
  /\ runPc[n] = "idle"
  /\ runPc' = [runPc EXCEPT ![n] = "starting"]
  /\ flight' = n

Installed == engine # NoTransport

(* ready() of caller c (a Reader, or reload) in a bootstrap that is active:   *)
(* the shared promise, or a new run.                                          *)
Await(c) ==
  IF flight # NoRun
  THEN /\ awaits' = [awaits EXCEPT ![c] = flight]
       /\ UNCHANGED <<flight, runPc>>
  ELSE \E n \in Runs : Start(n) /\ awaits' = [awaits EXCEPT ![c] = n]

(* A generated call needs the engine. *)
Use ==
  /\ IsCurrent /\ ~Installed /\ flight = NoRun
  /\ \E n \in Runs : Start(n)
  /\ UNCHANGED <<custom, persistent, holder, engine, state, owned,
                 runTransport, tries, transport, readVars, reloadPc, eventVars>>

ReadyFails(c) ==
  /\ readerPc[c] # "waiting" /\ ~Active
  /\ readerPc' = [readerPc EXCEPT ![c] = "failed"]
  /\ UNCHANGED <<custom, persistent, slotVars, state, owned, runVars, transport,
                 awaits, reloadPc, eventVars>>

ReadyAtOnce(c) ==
  /\ readerPc[c] # "waiting" /\ Active /\ Installed
  /\ readerPc' = [readerPc EXCEPT ![c] = "ready"]
  /\ state' = "ready"
  /\ UNCHANGED <<custom, persistent, slotVars, owned, runVars, transport,
                 awaits, reloadPc, eventVars>>

ReadyWaits(c) ==
  /\ readerPc[c] # "waiting" /\ Active /\ ~Installed
  /\ readerPc' = [readerPc EXCEPT ![c] = "waiting"]
  /\ Await(c)
  /\ UNCHANGED <<custom, persistent, holder, engine, state, owned,
                 runTransport, tries, transport, reloadPc, eventVars>>

Subscribe(s) ==
  /\ s \notin subscribed /\ Active
  /\ subscribed' = subscribed \cup {s}
  /\ IF owned # NoTransport /\ state = "ready"
     THEN AttachTo(owned, {s}) /\ UNCHANGED <<flight, runPc>>
     ELSE /\ UNCHANGED attached
          /\ IF Installed \/ flight # NoRun
             THEN UNCHANGED <<flight, runPc>>
             ELSE \E n \in Runs : Start(n)
  /\ UNCHANGED <<custom, persistent, holder, engine, state, owned,
                 runTransport, tries, transport, readVars, reloadPc>>

Unsubscribe(s) ==
  /\ s \in subscribed
  /\ subscribed' = subscribed \ {s}
  /\ attached' = [attached EXCEPT ![s] = NoTransport]
  /\ UNCHANGED <<custom, persistent, slotVars, state, owned, runVars, transport,
                 readVars, reloadPc>>

-----------------------------------------------------------------------------
(* A run goes through adopt.                                                 *)

(* Mutant: reload goes on only when the run it awaits succeeds. *)
MutResume(n, how) ==
  /\ readerPc' = [c \in Readers |-> IF awaits[c] = n THEN how ELSE readerPc[c]]
  /\ awaits' = [c \in Readers \cup {Reload} |-> IF awaits[c] = n THEN NoRun ELSE awaits[c]]
  /\ reloadPc' = IF awaits[Reload] # n \/ how = "failed" THEN reloadPc
                 ELSE IF reloadPc = "readying" THEN "draining" ELSE "idle"

(* Who awaits run n goes on. A ready() whose registration was superseded, or  *)
(* whose run failed, rejects; reload drains, or has restarted, or rejects.    *)
Resume(n, how) ==
  /\ readerPc' = [c \in Readers |-> IF awaits[c] = n THEN how ELSE readerPc[c]]
  /\ awaits' = [c \in Readers \cup {Reload} |-> IF awaits[c] = n THEN NoRun ELSE awaits[c]]
  /\ reloadPc' = IF awaits[Reload] # n THEN reloadPc
                 ELSE IF how = "ready" /\ reloadPc = "readying" THEN "draining"
                 ELSE "idle"

(* close() of the resource a run adopted, in the catch of adopt. *)
CloseOf(n) ==
  /\ transport' = [transport EXCEPT ![runTransport[n]] = "closed"]
  /\ owned' = IF owned = runTransport[n] THEN NoTransport ELSE owned
  /\ CloseEvents

Reject(n) ==
  /\ runPc' = [runPc EXCEPT ![n] = "idle"]
  /\ flight' = IF flight = n THEN NoRun ELSE flight
  /\ Resume(n, "failed")
  /\ UNCHANGED <<custom, persistent, holder, engine, state, runTransport,
                 subscribed>>

(* assertActive and createTransport(), or the first candidate. *)
Begin(n) ==
  /\ runPc[n] = "starting" /\ Active /\ custom
  /\ runPc' = [runPc EXCEPT ![n] = "creating"]
  /\ UNCHANGED <<custom, persistent, slotVars, state, owned, runTransport, tries,
                 transport, readVars, reloadPc, eventVars>>

OpenFails(n) ==
  /\ runPc[n] \in {"starting", "creating"}
  /\ runPc[n] = "starting" => ~Active \/ ~custom
  /\ Reject(n)
  /\ UNCHANGED <<transport, tries, owned, attached>>

Opened(n, t) ==
  /\ runPc[n] = IF custom THEN "creating" ELSE "starting"
  /\ transport[t] = "closed" /\ Active
  /\ runPc' = [runPc EXCEPT ![n] = "contract"]
  /\ runTransport' = [runTransport EXCEPT ![n] = t]
  /\ tries' = [tries EXCEPT ![n] = 1]
  /\ transport' = [transport EXCEPT ![t] = "open"]
  /\ owned' = t
  /\ UNCHANGED <<custom, persistent, slotVars, state, readVars, reloadPc, eventVars>>

(* Mutant: what arrives after the end is dropped without closing it. *)
MutOpenedLate(n, t) ==
  /\ runPc[n] = "creating" /\ transport[t] = "closed" /\ ~Active
  /\ transport' = [transport EXCEPT ![t] = "open"]
  /\ Reject(n)
  /\ UNCHANGED <<owned, tries, attached>>

OpenedLate(n, t) ==
  /\ runPc[n] = "creating" /\ transport[t] = "closed" /\ ~Active
  /\ transport' = [transport EXCEPT ![t] = "closed"]
  /\ CloseEvents
  /\ Reject(n)
  /\ UNCHANGED <<owned, tries>>

(* The last check of adopt: the events are attached, the state is ready, and  *)
(* the slot installs the engine if the run is still the one it waits for.     *)
Adopted(n) ==
  /\ AttachTo(runTransport[n], subscribed)
  /\ state' = "ready"
  /\ runPc' = [runPc EXCEPT ![n] = "idle"]
  /\ engine' = IF flight = n THEN runTransport[n] ELSE engine
  /\ flight' = IF flight = n THEN NoRun ELSE flight
  /\ Resume(n, IF flight = n THEN "ready" ELSE "failed")
  /\ UNCHANGED <<custom, persistent, holder, owned, runTransport, tries,
                 transport, subscribed>>

ContractHolds(n) ==
  /\ runPc[n] = "contract" /\ Active
  /\ IF persistent
     THEN /\ runPc' = [runPc EXCEPT ![n] = "events"]
          /\ UNCHANGED <<slotVars, state, owned, runTransport, tries, transport,
                         readVars, reloadPc, eventVars, custom, persistent>>
     ELSE Adopted(n)

EventsHold(n) == runPc[n] = "events" /\ Active /\ Adopted(n)

(* A mismatch, a missing endpoint or a timeout, which disposes the transport. *)
(* Only this lets a run go on to its next candidate.                          *)
NextCandidate(n) ==
  /\ runPc[n] = "contract" /\ Active /\ ~custom /\ tries[n] < MaxTries
  /\ tries' = [tries EXCEPT ![n] = @ + 1]
  /\ \E t \in Transports :
       /\ transport[t] = "closed"
       /\ runTransport' = [runTransport EXCEPT ![n] = t]
       /\ transport' = [transport EXCEPT ![runTransport[n]] = "closed", ![t] = "open"]
       /\ owned' = t
  /\ CloseEvents
  /\ UNCHANGED <<custom, persistent, slotVars, state, runPc, readVars, reloadPc,
                 subscribed>>

(* The last candidate is rejected, the event probe fails, or either answers   *)
(* after the bootstrap has ended.                                             *)
AdoptFails(n) ==
  /\ \/ runPc[n] = "contract" /\ (~Active \/ custom \/ tries[n] = MaxTries)
     \/ runPc[n] = "events"
  /\ CloseOf(n)
  /\ Reject(n)
  /\ UNCHANGED tries

-----------------------------------------------------------------------------
(* dispose, reload, and the registration of somebody else.                   *)

(* Mutant: the subscriptions are left on the closed transport. *)
MutCloseOwned ==
  /\ transport' = IF owned = NoTransport THEN transport ELSE [transport EXCEPT ![owned] = "closed"]
  /\ owned' = NoTransport
  /\ UNCHANGED attached

CloseOwned ==
  /\ transport' = IF owned = NoTransport THEN transport ELSE [transport EXCEPT ![owned] = "closed"]
  /\ owned' = NoTransport
  /\ IF owned = NoTransport THEN UNCHANGED attached ELSE CloseEvents

(* Mutant: the slot is not released. *)
MutDispose ==
  /\ state # "disposed"
  /\ state' = "disposed"
  /\ CloseOwned
  /\ subscribed' = {}
  /\ UNCHANGED <<custom, persistent, slotVars, runVars, readVars, reloadPc>>

Dispose ==
  /\ state # "disposed"
  /\ state' = "disposed"
  /\ IF IsCurrent
     THEN holder' = "nobody" /\ engine' = NoTransport /\ flight' = NoRun
     ELSE UNCHANGED <<holder, engine, flight>>
  /\ CloseOwned
  /\ subscribed' = {}
  /\ UNCHANGED <<custom, persistent, runVars, readVars, reloadPc>>

(* Mutant: reload does not finish an initialization that is under way. *)
MutReloadStarts ==
  /\ reloadPc = "idle" /\ Active
  /\ reloadPc' = "draining"
  /\ UNCHANGED <<custom, persistent, slotVars, state, owned, runVars, transport,
                 readVars, eventVars>>

ReloadStarts ==
  /\ reloadPc = "idle" /\ Active
  /\ IF state = "ready"
     THEN reloadPc' = "draining" /\ UNCHANGED <<awaits, flight, runPc>>
     ELSE reloadPc' = "readying" /\ Await(Reload)
  /\ UNCHANGED <<custom, persistent, holder, engine, state, owned,
                 runTransport, tries, transport, readerPc, eventVars>>

(* The drain is over, by success or by its timeout. *)
ReloadFails ==
  /\ reloadPc = "draining" /\ ~Active
  /\ reloadPc' = "idle"
  /\ UNCHANGED <<custom, persistent, slotVars, state, owned, runVars, transport,
                 readVars, eventVars>>

(* Close, register again; ready() starts a run for the new registration. *)
Restart ==
  \E n \in Runs :
    /\ Start(n)
    /\ holder' = "self"
    /\ engine' = NoTransport
    /\ state' = "initializing"
    /\ CloseOwned
    /\ reloadPc' = "restarting"
    /\ awaits' = [awaits EXCEPT ![Reload] = n]
    /\ UNCHANGED <<custom, persistent, runTransport, tries, readerPc, subscribed>>

(* Mutant: no assertActive after the drain. *)
MutReloadRestarts == reloadPc = "draining" /\ Restart

ReloadRestarts == reloadPc = "draining" /\ Active /\ Restart

(* configure or configureLazy of another owner. *)
Replaced ==
  /\ IsCurrent
  /\ holder' = "other"
  /\ engine' = NoTransport /\ flight' = NoRun
  /\ UNCHANGED <<custom, persistent, state, owned, runVars, transport,
                 readVars, reloadPc, eventVars>>

-----------------------------------------------------------------------------
Run(n) ==
  \/ Begin(n) \/ OpenFails(n) \/ ContractHolds(n) \/ EventsHold(n) \/ NextCandidate(n) \/ AdoptFails(n)
  \/ \E t \in Transports : Opened(n, t) \/ OpenedLate(n, t)

Next ==
  \/ Use \/ Dispose \/ ReloadStarts \/ ReloadFails \/ ReloadRestarts \/ Replaced
  \/ \E c \in Readers : ReadyFails(c) \/ ReadyAtOnce(c) \/ ReadyWaits(c)
  \/ \E s \in Subscriptions : Subscribe(s) \/ Unsubscribe(s)
  \/ \E n \in Runs : Run(n)

Spec == Init /\ [][Next]_vars

-----------------------------------------------------------------------------
(* Type invariant. *)
TypeOK ==
  /\ custom \in BOOLEAN /\ persistent \in BOOLEAN
  /\ holder \in {"self", "other", "nobody"}
  /\ engine \in Transports \cup {NoTransport} /\ owned \in Transports \cup {NoTransport}
  /\ flight \in Runs \cup {NoRun}
  /\ state \in {"initializing", "ready", "disposed"}
  /\ runPc \in [Runs -> {"idle", "starting", "creating", "contract", "events"}]
  /\ runTransport \in [Runs -> Transports \cup {NoTransport}]
  /\ tries \in [Runs -> 0..MaxTries]
  /\ transport \in [Transports -> {"open", "closed"}]
  /\ readerPc \in [Readers -> {"idle", "waiting", "ready", "failed"}]
  /\ awaits \in [Readers \cup {Reload} -> Runs \cup {NoRun}]
  /\ reloadPc \in {"idle", "readying", "draining", "restarting"}
  /\ subscribed \subseteq Subscriptions
  /\ attached \in [Subscriptions -> Transports \cup {NoTransport}]

(* Every process that was started can be ended: an open transport is the one  *)
(* that dispose and reload would close, and a disposed bootstrap has none,    *)
(* however late its transports arrive (node-bootstrap.ts adopt, dispose).     *)
TransportsAreOwned ==
  /\ \A t \in Transports : transport[t] = "open" => owned = t
  /\ owned # NoTransport => transport[owned] = "open" /\ state # "disposed"

(* At most one run is between its start and its end, so no late run closes    *)
(* the events of its successor (node-bootstrap.ts reload, "Finish any initial *)
(* ready/global invoke before replacing its owned resource").                 *)
OneRunAtATime ==
  \A m, n \in Runs : InFlight(m) /\ InFlight(n) => m = n

(* While this bootstrap holds the slot, the engine in it leads to the open    *)
(* transport, and only then does the bootstrap say it is ready                *)
(* (node-bootstrap.ts adopt, reload).                                         *)
EngineIsLive ==
  IsCurrent => /\ engine # NoTransport => engine = owned /\ transport[engine] = "open"
               /\ state = "ready" <=> engine # NoTransport

(* A subscription follows the bootstrap: it listens exactly while there is a  *)
(* verified transport, and to that one (node-bootstrap.ts attachEvents,       *)
(* closeEvents).                                                              *)
EventsFollow ==
  \A s \in Subscriptions :
    attached[s] = IF s \in subscribed /\ state = "ready" THEN owned ELSE NoTransport

(* What calls and events go through is the transport that is owned now.       *)
NothingStale == EngineIsLive /\ EventsFollow

(* A bootstrap that was disposed or replaced never claims the slot again, not *)
(* even through a reload that was draining then (node-bootstrap.ts reload).   *)
NeverReclaims ==
  [][/\ holder' = "self" => holder = "self" /\ state' # "disposed"
     /\ state = "disposed" => state' = "disposed"]_vars

(* ready() and reload() settle, through failures, replacement and disposal.   *)
CallersSettle ==
  /\ \A c \in Readers : []<>(readerPc[c] # "waiting")
  /\ []<>(reloadPc = "idle")
==============================================================================
