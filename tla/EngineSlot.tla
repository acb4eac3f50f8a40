----------------------------- MODULE EngineSlot -----------------------------
(***************************************************************************)
(* The global engine slot of @rustra/types (packages/types/src):           *)
(*   global-config.ts   configure, configureLazy, release, ensureConfigured*)
(*   global-state.ts    the slot and resetConfiguredRoutes                 *)
(*   global-fields.ts, global-sync.ts, global-bytes.ts                     *)
(*                      generated calls and the routes they cache          *)
(*                                                                         *)
(* JavaScript runs one job at a time; a step is one job: a call of the     *)
(* application, or one reaction of a promise.  An element of Promises is   *)
(* one run of the body of ensureConfigured (its `initialization`), and it  *)
(* also names the engine its initializer makes.  The Symbol a registration *)
(* claims is named by the generation it is claimed at, which is never the  *)
(* same twice.                                                             *)
(***************************************************************************)
EXTENDS Integers

CONSTANTS
  Initializers,   \* the closures given to configureLazy
  Given,          \* the engines given to configure
  Promises,       \* the initializations
  MayFail,        \* those whose initializer may reject
  Functions,      \* generated functions, each with a route of its own
  Nothing,        \* null and undefined
  MaxGeneration   \* bound: applications reconfigure the slot below it

Engines == Promises \cup Given

ASSUME NothingAssumption ==
  Nothing \notin Initializers \cup Engines \cup Int
ASSUME EnginesAssumption == Promises \cap Given = {} /\ MayFail \subseteq Promises
ASSUME BoundAssumption   == MaxGeneration \in Nat

VARIABLES
  engine,           \* runtime.engine
  initializer,      \* runtime.engineInitializer
  initialization,   \* runtime.engineInitialization
  consumed,         \* runtime.engineInitializerConsumed
  generation,       \* runtime.engineGeneration
  registration,     \* runtime.engineRegistration
  sharedRoute,      \* runtime.generatedFieldsRoutes at the command's id
  status,           \* where each initialization is
  startedAt,        \* the generation it captured
  startedWith,      \* the initializer it captured
  follows,          \* the promise its stale result was replaced by
  value,            \* what it was fulfilled with
  route,            \* each function's own route ...
  routeGeneration,  \* ... and the generation it was resolved at
  waits,            \* the initialization a call waits for
  sent,             \* history: the engine the function's last call went to
  installed         \* history: the engines that have been in the slot

slotVars    == <<engine, initializer, initialization, consumed, generation,
                 registration, sharedRoute, installed>>
promiseVars == <<status, startedAt, startedWith, follows, value>>
callVars    == <<route, routeGeneration, waits, sent>>
vars == <<slotVars, promiseVars, callVars>>

Statuses == {"unused", "queued", "running", "produced", "failed", "following",
             "fulfilled", "rejected"}

\* A cached route is the engine it calls, null when the engine has none, or
\* undefined when nothing is cached.
NoRoute    == "null"
Unresolved == "undefined"
Routes     == Engines \cup {NoRoute, Unresolved}

Init ==
  /\ engine = Nothing /\ initializer = Nothing /\ initialization = Nothing
  /\ consumed = FALSE
  /\ generation = 0
  /\ registration = Nothing
  /\ sharedRoute = Unresolved
  /\ status          = [p \in Promises |-> "unused"]
  /\ startedAt       = [p \in Promises |-> -1]
  /\ startedWith     = [p \in Promises |-> Nothing]
  /\ follows         = [p \in Promises |-> Nothing]
  /\ value           = [p \in Promises |-> Nothing]
  /\ route           = [f \in Functions |-> NoRoute]
  /\ routeGeneration = [f \in Functions |-> -1]
  /\ waits           = [f \in Functions |-> Nothing]
  /\ sent            = [f \in Functions |-> Nothing]
  /\ installed = {}

\* Mutant: the routes outlive the engine.
MutKeepRoutes == generation' = generation + 1 /\ UNCHANGED sharedRoute

ResetConfiguredRoutes ==
  /\ generation' = generation + 1
  /\ sharedRoute' = Unresolved

(***************************************************************************)
(* Registration.                                                           *)
(***************************************************************************)
Configure(e) ==
  /\ generation < MaxGeneration
  /\ engine' = e
  /\ installed' = installed \cup {e}
  /\ initializer' = Nothing /\ initialization' = Nothing /\ consumed' = FALSE
  /\ ResetConfiguredRoutes
  /\ registration' = generation'
  /\ UNCHANGED <<promiseVars, callVars>>

\* A competing registration is refused while the pending one is fresh.
PendingFresh(i) ==
  /\ engine = Nothing /\ initializer # Nothing
  /\ initializer # i
  /\ ~consumed

\* Mutant: the initialization under way is kept.
MutConfigureLazy(i) ==
  /\ generation < MaxGeneration
  /\ ~PendingFresh(i)
  /\ engine' = Nothing
  /\ initializer' = i
  /\ consumed' = FALSE
  /\ ResetConfiguredRoutes
  /\ registration' = generation'
  /\ UNCHANGED <<initialization, installed, promiseVars, callVars>>

ConfigureLazy(i) ==
  /\ generation < MaxGeneration
  /\ ~PendingFresh(i)
  /\ engine' = Nothing
  /\ initializer' = i
  /\ initialization' = Nothing /\ consumed' = FALSE
  /\ ResetConfiguredRoutes
  /\ registration' = generation'
  /\ UNCHANGED <<installed, promiseVars, callVars>>

\* The handle a registration returned; that of an older one does nothing.
Release(token) ==
  /\ token = registration
  /\ generation < MaxGeneration
  /\ engine' = Nothing /\ initializer' = Nothing
  /\ initialization' = Nothing /\ consumed' = FALSE
  /\ registration' = Nothing
  /\ ResetConfiguredRoutes
  /\ UNCHANGED <<installed, promiseVars, callVars>>

(***************************************************************************)
(* ensureConfigured, called while there is an initializer and no engine.   *)
(* It returns p: the initialization under way, or a new one.               *)
(***************************************************************************)
Start(p) ==
  /\ status[p] = "unused"
  /\ consumed' = TRUE
  /\ initialization' = p
  /\ startedAt' = [startedAt EXCEPT ![p] = generation]
  /\ startedWith' = [startedWith EXCEPT ![p] = initializer]

Pending == engine = Nothing /\ initializer # Nothing

\* Mutant: a stale result is handed out all the same.
MutSuperseded(p) ==
  /\ status' = [status EXCEPT ![p] = "fulfilled"]
  /\ value' = [value EXCEPT ![p] = p]
  /\ UNCHANGED <<slotVars, startedAt, startedWith, follows>>

\* The stale branch: what the slot holds now, or another ensureConfigured().
Superseded(p) ==
  \/ /\ engine # Nothing
     /\ status' = [status EXCEPT ![p] = "fulfilled"]
     /\ value' = [value EXCEPT ![p] = engine]
     /\ UNCHANGED <<slotVars, startedAt, startedWith, follows>>
  \/ /\ Pending /\ initialization # Nothing
     /\ status' = [status EXCEPT ![p] = "following"]
     /\ follows' = [follows EXCEPT ![p] = initialization]
     /\ UNCHANGED <<slotVars, startedAt, startedWith, value>>
  \/ /\ Pending /\ initialization = Nothing
     /\ \E q \in Promises \ {p} :
          /\ Start(q)
          /\ status' = [status EXCEPT ![p] = "following", ![q] = "queued"]
          /\ follows' = [follows EXCEPT ![p] = q]
     /\ UNCHANGED <<engine, initializer, generation, registration, sharedRoute,
                    installed, value>>
  \/ /\ engine = Nothing /\ initializer = Nothing
     /\ status' = [status EXCEPT ![p] = "failed"]
     /\ UNCHANGED <<slotVars, startedAt, startedWith, follows, value>>

(***************************************************************************)
(* The reactions of an initialization.                                     *)
(***************************************************************************)
RunInitializer(p) ==
  /\ status[p] = "queued"
  /\ status' = [status EXCEPT ![p] = "running"]
  /\ UNCHANGED <<slotVars, startedAt, startedWith, follows, value, callVars>>

InitializerSettles(p) ==
  /\ status[p] = "running"
  /\ \/ status' = [status EXCEPT ![p] = "produced"]
     \/ p \in MayFail /\ status' = [status EXCEPT ![p] = "failed"]
  /\ UNCHANGED <<slotVars, startedAt, startedWith, follows, value, callVars>>

\* Mutant: only the initializer is compared.
MutStale(p) == initializer # startedWith[p]

Stale(p) == generation # startedAt[p] \/ initializer # startedWith[p]

Install(p) ==
  /\ ~Stale(p)
  /\ engine' = p
  /\ installed' = installed \cup {p}
  /\ initializer' = Nothing /\ initialization' = Nothing
  /\ ResetConfiguredRoutes
  /\ status' = [status EXCEPT ![p] = "fulfilled"]
  /\ value' = [value EXCEPT ![p] = p]
  /\ UNCHANGED <<consumed, registration, startedAt, startedWith, follows>>

Continue(p) ==
  /\ status[p] = "produced"
  /\ Install(p) \/ (Stale(p) /\ Superseded(p))
  /\ UNCHANGED callVars

\* A promise that follows another is settled as the other was.
Adopt(p) ==
  /\ status[p] = "following"
  /\ \/ /\ status[follows[p]] = "fulfilled"
        /\ status' = [status EXCEPT ![p] = "fulfilled"]
        /\ value' = [value EXCEPT ![p] = value[follows[p]]]
     \/ /\ status[follows[p]] = "rejected"
        /\ status' = [status EXCEPT ![p] = "failed"]
        /\ UNCHANGED value
  /\ UNCHANGED <<slotVars, startedAt, startedWith, follows, callVars>>

\* Mutant: whatever initialization is under way is dropped.
MutCatch(p) ==
  /\ status[p] = "failed"
  /\ status' = [status EXCEPT ![p] = "rejected"]
  /\ initialization' = Nothing
  /\ UNCHANGED <<engine, initializer, consumed, generation, registration,
                 sharedRoute, installed, startedAt, startedWith, follows, value,
                 callVars>>

\* The catch: only its own initialization is dropped, so the next call retries.
Catch(p) ==
  /\ status[p] = "failed"
  /\ status' = [status EXCEPT ![p] = "rejected"]
  /\ initialization' = IF initialization = p THEN Nothing ELSE initialization
  /\ UNCHANGED <<engine, initializer, consumed, generation, registration,
                 sharedRoute, installed, startedAt, startedWith, follows, value,
                 callVars>>

(***************************************************************************)
(* A call of a generated function.                                         *)
(***************************************************************************)
Goes(f, e) == sent' = [sent EXCEPT ![f] = e]

\* invokeFields with an engine in the slot: the shared route, resolved on
\* first use; without one the call goes to the engine itself.
InvokeFields(f) ==
  /\ engine # Nothing
  /\ \E r \in (IF sharedRoute = Unresolved THEN {engine, NoRoute} ELSE {sharedRoute}) :
       /\ sharedRoute' = r
       /\ Goes(f, IF r = NoRoute THEN engine ELSE r)
  /\ UNCHANGED <<engine, initializer, initialization, consumed, generation,
                 registration, installed, promiseVars>>

\* A function whose own route is current, or is resolved now.
Call(f) ==
  /\ waits[f] = Nothing
  /\ engine # Nothing
  /\ \E r \in (IF routeGeneration[f] = generation THEN {route[f]} ELSE {engine, NoRoute}) :
       /\ route' = [route EXCEPT ![f] = r]
       /\ routeGeneration' = [routeGeneration EXCEPT ![f] = generation]
       /\ \/ r # NoRoute /\ Goes(f, r) /\ UNCHANGED <<slotVars, promiseVars>>
          \/ r = NoRoute /\ InvokeFields(f)
  /\ UNCHANGED waits

\* The wait of a call that finds a pending lazy registration.
Await(f) ==
  /\ Pending
  /\ \/ /\ initialization # Nothing
        /\ waits' = [waits EXCEPT ![f] = initialization]
        /\ UNCHANGED <<slotVars, promiseVars>>
     \/ /\ initialization = Nothing
        /\ \E p \in Promises :
             /\ Start(p)
             /\ status' = [status EXCEPT ![p] = "queued"]
             /\ waits' = [waits EXCEPT ![f] = p]
        /\ UNCHANGED <<engine, initializer, generation, registration,
                       sharedRoute, installed, follows, value>>
  /\ UNCHANGED <<route, routeGeneration, sent>>

CallLazily(f) == waits[f] = Nothing /\ Await(f)

\* Mutant: a retry that finds the slot released keeps waiting.
MutRetry(f) ==
  /\ waits[f] # Nothing
  /\ status[waits[f]] = "fulfilled"
  /\ \/ /\ InvokeFields(f)
        /\ waits' = [waits EXCEPT ![f] = Nothing]
        /\ UNCHANGED <<route, routeGeneration>>
     \/ Await(f)
     \/ engine = Nothing /\ initializer = Nothing /\ UNCHANGED vars

\* ensureConfigured().then(retry): the call starts over, by invokeFields.
Retry(f) ==
  /\ waits[f] # Nothing
  /\ status[waits[f]] = "fulfilled"
  /\ \/ /\ InvokeFields(f)
        /\ waits' = [waits EXCEPT ![f] = Nothing]
        /\ UNCHANGED <<route, routeGeneration>>
     \/ Await(f)
     \/ /\ engine = Nothing /\ initializer = Nothing
        /\ waits' = [waits EXCEPT ![f] = Nothing]
        /\ UNCHANGED <<slotVars, promiseVars, route, routeGeneration, sent>>

CallFails(f) ==
  /\ waits[f] # Nothing
  /\ status[waits[f]] = "rejected"
  /\ waits' = [waits EXCEPT ![f] = Nothing]
  /\ UNCHANGED <<slotVars, promiseVars, route, routeGeneration, sent>>

\* A call without engine or lazy registration is refused.
Refuse(f) ==
  /\ waits[f] = Nothing /\ engine = Nothing /\ initializer = Nothing
  /\ UNCHANGED vars

Reactions(p) == RunInitializer(p) \/ Continue(p) \/ Adopt(p) \/ Catch(p)
Resumes(f)   == Retry(f) \/ CallFails(f)

Next ==
  \/ \E e \in Given : Configure(e)
  \/ \E i \in Initializers : ConfigureLazy(i)
  \/ \E token \in 1..generation : Release(token)
  \/ \E p \in Promises : Reactions(p) \/ InitializerSettles(p)
  \/ \E f \in Functions : Call(f) \/ CallLazily(f) \/ Refuse(f) \/ Resumes(f)

Spec == Init /\ [][Next]_vars

(***************************************************************************)
(* Fairness: the event loop runs every reaction that is ready, and the     *)
(* promise of an initializer settles (bootstraps bound theirs by           *)
(* readinessTimeoutMs).  Nobody has to call or configure.                  *)
(***************************************************************************)
Fairness ==
  /\ \A p \in Promises : WF_vars(Reactions(p)) /\ WF_vars(InitializerSettles(p))
  /\ \A f \in Functions : WF_vars(Resumes(f))

FairSpec == Spec /\ Fairness
------------------------------------------------------------------------------
(***************************************************************************)
(* Properties.                                                             *)
(***************************************************************************)
Live(p) == status[p] \in {"queued", "running", "produced"}

\* The states of every variable.
TypeOK ==
  /\ engine \in Engines \cup {Nothing}
  /\ initializer \in Initializers \cup {Nothing}
  /\ initialization \in Promises \cup {Nothing}
  /\ consumed \in BOOLEAN
  /\ generation \in Nat
  /\ registration \in (1..generation) \cup {Nothing}
  /\ sharedRoute \in Routes
  /\ status \in [Promises -> Statuses]
  /\ startedAt \in [Promises -> Nat \cup {-1}]
  /\ startedWith \in [Promises -> Initializers \cup {Nothing}]
  /\ follows \in [Promises -> Promises \cup {Nothing}]
  /\ value \in [Promises -> Engines \cup {Nothing}]
  /\ route \in [Functions -> Engines \cup {NoRoute}]
  /\ routeGeneration \in [Functions -> Nat \cup {-1}]
  /\ waits \in [Functions -> Promises \cup {Nothing}]
  /\ sent \in [Functions -> Engines \cup {Nothing}]
  /\ installed \subseteq Engines

\* The engine in the slot was made for the registration that holds the slot:
\* however late an initializer answers, it never installs its engine over a
\* newer registration, nor into a slot that was released meanwhile.
SlotBelongsToRegistration ==
  /\ engine \in Promises => startedAt[engine] = registration
  /\ initialization # Nothing => startedAt[initialization] = registration
  /\ registration = Nothing =>
       engine = Nothing /\ initializer = Nothing /\ initialization = Nothing

\* One registration has at most one initialization under way: concurrent
\* calls share it, and a failed one is replaced, never run beside another.
SingleFlight ==
  \A p, q \in Promises :
    Live(p) /\ Live(q) /\ startedAt[p] = startedAt[q] => p = q

\* An engine whose initialization lost the slot is handed to nobody: every
\* promise of ensureConfigured is fulfilled with an engine that was installed.
LosersAreDiscarded ==
  \A p \in Promises : status[p] = "fulfilled" => value[p] \in installed

\* A promise only follows one started for a later registration, so no two
\* initializations can wait for each other.
FollowsNewer ==
  \A p \in Promises :
    status[p] = "following" => startedAt[follows[p]] > startedAt[p]

\* A late or superseded initialization is seen by nobody: neither in the slot
\* nor by the callers that wait for it.
LateResultsLose == SlotBelongsToRegistration /\ LosersAreDiscarded

\* Initializations of one registration exclude each other, those of several
\* wait in the order of their registrations.
InitializationsOrdered == SingleFlight /\ FollowsNewer

\* A call goes to the engine in the slot, by whichever route it was cached.
CallsReachTheEngine ==
  [][\A f \in Functions : sent'[f] # sent[f] => sent'[f] = engine]_vars

\* Every call that waits for a lazy initialization is resumed, and comes back
\* with an engine's answer or an error.
CallsResume == \A f \in Functions : []<>(waits[f] = Nothing)
==============================================================================
