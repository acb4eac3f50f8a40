# Rustra: TLA+ models and proofs

Rustra lets a TypeScript application call Rust commands: a Rust core
(`src/crates/rustra`) keeps a registry of commands and serves calls, events and
channels over a C interface, and TypeScript packages (`src/packages`) connect
Node, Bun, React Native, Tauri and the browser to it through one global engine
slot. The hard parts are where several threads, or several asynchronous
reactions, meet on the same state. This directory models those parts in TLA+,
checks them with TLC on small instances and proves the central properties for
all instances with TLAPS.

    tlc -config MCAsyncDispatch.cfg MCAsyncDispatch.tla   # check a run
    tlapm AsyncDispatch_proofs.tla                        # check proofs

`PROJECT.json` lists the runs, the source lines every definition stands for,
the hazards and the theorems.

## 1. Inventory

Paths in this table are below `src/crates/rustra/src` (Rust) or
`src/packages` (TypeScript).

| Component | State | Operations | Talks to | What is hard |
|---|---|---|---|---|
| **Asynchronous dispatch**: `ffi_async_entries.rs`, `ffi_typed_async.rs`, `ffi_pool.rs`, `ffi_workers.rs`, `ffi_lifecycle_entries.rs`, `cancel.rs`, `limits.rs` | cancellation registry, bounded job channel, sender and receiver mutexes, counters, response frames, payload limit | the two entry families, submit, worker loop, cancel, set limit, free, drop of a pool | host threads, command registry | cancel against dispatch, refusal when full, who frees a frame, drain on drop, a handler that hangs |
| **Command ids**: `builder*.rs` | commands, aliases, next id | `command`, `alias_command_id`, `build` | command registry | displacement chains, end of the u16 space |
| **Command registry and live schema**: `registry.rs`, `package_*.rs`, `invoke_dispatch.rs`, `invoke_frame.rs`, `ffi_hot_reload.rs` | `RegistryState` behind an RwLock, the frozen flag and snapshot, generation, schema cache | register, replace, unregister, freeze, grant, hot reload, invoke, live schema | builder, dispatch, hosts | check outside, change inside the lock; two id tables; readers without a lock; stale schemas |
| **Event sink and bus**: `ffi_event_core.rs`, `ffi_event_entries.rs`, `ffi_scriptc.rs`, `ffi_prelude.rs`, `package_events.rs`, `events_*.rs` | global C sink, the package's sink, the gate and active calls of every sink, bounded queue | register, unregister, release, `register_ffi`, emit, take | host callbacks | quiescence before `user_data` is freed, the sink registered before the package |
| **Channels and resources**: `channels_host.rs`, `ffi_channel.rs`, `ffi_scriptc.rs` | handle counter, routes, sinks, gates, resources | create, send, drop, release, register and drop a resource | host callbacks, Tauri leases | creation in three steps, drop against send and against drop, handles that run out |
| **Global engine slot**: `types/src/global-*.ts` | engine, lazy initializer, shared initialization promise, generation, registration token, cached routes | configure, configureLazy, release, ensureConfigured, generated calls | every bootstrap | late initializers, failed ones, stale routes, callers that wait |
| **Node process transport**: `node/src/node-loop.ts`, `node-binary-*.ts`, `node-loop-contract.ts` | child process, pending requests, FIFO of binary waiters, handshake promise | spawn, prepare, invoke, dispose | Rust `serve` process | death with requests pending, answers without ids, respawn |
| **Node bootstrap**: `node/src/node-bootstrap.ts`, `node-persistent.ts`, `types/src/bootstrap-lifecycle.ts` | transport, state, close function, reload promise | ready, adopt, reload, dispose | engine slot, transport | dispose or reload during an await, probe timeouts |
| **Node and Bun events**: `node/src/node-events.ts`, `bun/src/bun-events.ts`, `node-channels.ts` | subscription table, timer, polling flag, push listener, verdict on push; channel handlers | subscribe, unsubscribe, tick, fall back to polling | transport, event bus | the last listener leaves during a drain, the handle of a timer that has fired, a runtime that does not push |
| **Hot core**: `hot_core_watch.rs`, `hot_core_dylib.rs` | baseline stat and hash, failure tracker, the core behind the host's `HotCoreHandle` | watch loop, swap | whoever builds, the host's calls | an artifact that changes between stat, hash and copy, half-written files, retry limits |
| **Abort, timeout, retry**: `types/src/cancel*.ts`, `retry.ts` | timers, listeners | invoke with options | engines | three-way races, what to retry |
| **Frame engine, live schema client**: `types/src/frame-engine-*.ts`, `live-schema.ts` | a buffer per generated command; schema cache, its generation, a codec cache per path | invoke with and without a signal, refresh | Rust live schema | which codec is valid after the generation moved, calls from within a call |
| **React bindings**: `react/src` | suspense cache; refs and state of each hook | read, expire, invalidate, configure; call, reset, refetch, subscribe; effects and their cleanups | engine | deadline against late answer, eviction, out-of-order results, effects that React takes down and puts up again |
| **Tauri**: `tauri_*.rs`, `tauri/src` | leases of channels by webview | publish, teardown | channels | teardown against publication |
| **Bun, React Native** | the C interface through other bindings | as Node | C entries, engine slot | as Node |
| **Dev server of the CLI**: `cli/src/dev.ts`, `legacy-dev.ts`, `watch.ts`, `rust-inputs.ts`, `parity-gate.ts` | snapshots of the watchers, debounce timer, queue of one, fingerprints of the last success, baseline of the gate | poll, schedule, run (configuration, Cargo, clients, build, gate, publication), dispose | files on disk, the hot core | edits at any moment of a run, what may be skipped, what is remembered after a failure, new watchers during a run, hooks that dispose |
| **Codecs, synchronous entries, macros, other CLI commands, devtools, testing** | none that outlives a call | encode, decode, generate | all | byte formats, text |

What makes each modelled component correct is the list of its properties in
section 3.

## 2. Modules

One module per component, an `MC` module for its small instances, and a
`_proofs` module for its theorems; the theorems about a component that is checked as
part of a composition are in the `_proofs` module of the composition.

| Module | Role |
|---|---|
| `AsyncCall` | abstract: what an asynchronous entry promises about one call |
| `AsyncDispatch`, `MCAsyncDispatch`, `AsyncDispatch_proofs` | the pool that implements it |
| `PackageIds` | the constants of command ids that builder and registry share |
| `PackageBuilder` | the command ids of a build |
| `CommandRegistry`, `CommandRegistry_proofs` | the registry |
| `PackageLife`, `MCPackageLife` | their composition: the builder delivers the build the registry starts from |
| `EventSink` | the C event sink and the bus |
| `ChannelHost`, `MCChannelHost` | channels and resources |
| `EngineSlot`, `MCEngineSlot`, `EngineSlot_proofs` | the engine slot |
| `RequestReply` | abstract: what a process transport promises about one request |
| `NodeLoop` | the transport and the process at its other end, which implement it |
| `NodeBootstrap` | the life of a Node bootstrap |
| `EventPolling` | how Node and Bun bring events to their subscribers |
| `ClientCall` | one client call with abort, timeout and retries |
| `FrameEngine` | what the engine sends for a call: buffers, live schema, codecs |
| `SuspenseCache`, `MutationHook`, `CommandHook`, `EventHook` | the Suspense cache, `useMutation`, `useCommand`, `useEvent` |
| `ReactBindings` | the four together, and what they owe a component |
| `HotCore` | the watcher of a hot core, the file it watches, the handle it swaps |
| `TauriLeases` | which webview owns which channel |
| `DevLoop`, `MCDevLoop` | `rustra dev`: watchers, loop, pipeline, gate, publication |
| `HostEvents`, `MCHostEvents`, `HostEvents_proofs` | `EventSink` and `EventPolling`: an event's way to its subscribers |
| `HostChannels`, `MCHostChannels`, `HostChannels_proofs` | `ChannelHost` and `TauriLeases`: who may send where, and when nobody may any more |
| `NodeHost`, `MCNodeHost`, `NodeHost_proofs` | `NodeBootstrap` and `NodeLoop`: the Node adapter |
| `ClientSide`, `MCClientSide`, `ClientSide_proofs` | `ClientCall`, `FrameEngine` and `ReactBindings`: the layers of the client |
| `HotReload`, `MCHotReload`, `HotReload_proofs` | `DevLoop` and `HotCore`: the two processes of a development session |

The last five put components side by side that meet only through a narrow
interface, which each side models in full from its own end: a bus that is drained in one
step, a sender that is registered or dropped, a request that is answered or
fails, a file that is renamed into place. Of its neighbour each side assumes
less than the neighbour keeps. Hence a behaviour of a composition is that of
one part, chosen at the start (`part`), and the run checks the properties of all, under
one statement of the fairness; as they share no variable, the product of their
states would add only steps that cannot affect one another. The compositions that do share state are models of their own:
`AsyncDispatch` with `AsyncCall`, `PackageLife`, in which what the builder delivers is what
the registry starts from, and `NodeLoop`, which has both ends of the pipes.

Definitions named `Mut...` stand before the definition they vary. Each changes
it the way a slip in the code would (a missing second check, a lock held too
long, a counter that is not moved) and makes one property fail; no
specification uses them. Variables marked *history* record what has happened
and never influence a step.

### Conventions

* Rust: a step is what one thread does between two accesses to state that
  another thread sees. Code under one lock is one step, unless the lock is held
  while something visible without it happens (`freeze` publishes the atomic
  `frozen` under the write lock and is two steps; `submit` sends under the sender's
  mutex while workers receive).
* TypeScript: a step is one job of the event loop, as JavaScript runs a job to
  its end.
* Names, payloads, wire contracts and callbacks are model values. Encodings are
  left out except for what depends on them: whether a reply fits the caller's
  buffer, whether a request is over the limit, whether text has a NUL.
* Atomics are sequentially consistent in the models. The code's weaker orders
  concern counters that nothing is decided on, or are acquire/release pairs.

## 3. What is modelled and what is shown

In the tables, a property with several parts is a conjunction; the parts are
definitions of the module.

### 3.1 AsyncDispatch and AsyncCall

An element of `Calls` is one call with the host thread that makes it. Its
`callerPc` follows `submit_alloc_async` (and the caller-buffer entry): register
the invocation, check the size, take the sender's mutex and count (`Reserve`),
`TrySend`, then `Accept`, or `Refuse` and settle on the host's own thread
(`FailComplete`, `FailDeliver`). `workerPc` follows the worker loop: lock the
receiver, receive (the mutex guard is a temporary of that statement), read the
cancellation status (`Checkpoint`), run the handler, complete the registry
entry, call back, count. A panicking handler is an error reply, as
`run_worker` normalises it. `DropPool` is the drop of an owned pool; the
process-wide pool is never dropped.

| Property | Says |
|---|---|
| `BooksBalance` | `CompleteBeforeCallback`: a running handler is in the registry, a called-back call is not. `InflightExact`: the counter is the number of jobs between reservation and the end of their run. `FrameOwned`: every heap frame has one owner at a time; a null callback leaks none |
| `ImplementsAsyncCall` | every behaviour is one of `AsyncCall` (a call is settled once, a cancel that returned true before the checkpoint keeps the handler from running, and the reply says so), with `phase`, `ran` and `result` computed from the pool's state |
| `CallsAndPoolEnd` (liveness) | `EveryCallSettled`: every registered call is settled although another call's handler hangs. `PoolEnds`: a dropped pool loses every worker but one that is in a hanging handler, and has then done every accepted job (`DropDrains`) |

Run `async`: two calls, of which one may hang and the other goes into the
caller's buffer, has no callback and asks for more than the smaller limit; two
workers, a channel of one place. With one place a call is refused while another
waits, and with two workers one waits while another runs. Were both workers in
hanging handlers nothing could be settled, in the code as in the model; that is
why one is left. `ExactlyOnce` and `CancelHonoured`, which the abstract
specification implies, are stated and proved directly as well.

### 3.2 PackageBuilder and PackageLife

`Command` and `AliasCommandId` are the two builder methods ids depend on.
`build` is cut into `BuildMerge`, one `Displace` per alias and `BuildTable`. The
variable `debug` is the build profile: where a debug build panics, a release
build wraps or compiles the assertion out.

`Served` is what a build owes the clients of all versions of a package:
`AliasesResolve` (an id an older client has reaches its command),
`RealIdsResolve` (so does the id the schema publishes), `NextIdFresh` (a later
registration gets an unused id) and `RoutesLive` (no id leads to a name that is
not a command). It is claimed of builds whose counter has not wrapped; what
happens after a wrap is in section 4.

`PackageLife` puts builder and registry in sequence: a chain of declarations
runs to its end, and if it delivers the build the registry of this behaviour
was given (`Delivers`), threads use that registry, mutable after a debug build and
frozen from birth after a release build. So the run does not take for granted
what the registry starts from, and neither do the proofs (section 5).

Run `package`, builder's part: every chain of three commands and two aliases
over five ids (`MaxId` = 4, and 0), in any order and both profiles. Two aliases
let a displaced command land where the next alias points; with five ids the
counter reaches the end and passes it. `MaxAliases` bounds the aliases, names
bound the commands.

### 3.3 CommandRegistry

`Mutators` register, replace, unregister, freeze and hot reload; each checks
`frozen` without the lock (`Begin`, `HotCheck`) and again under it.
`Callers` call by id or by name: `Invoke` reads `frozen`, `Lookup` clones the
Arc from the snapshot or from the tables, `CheckCapability` reads the grants.
`Hosts` run `live_schema`: the cache, or a rebuild under the write lock. An
Arc is a record with the `stamp` of its installation, so that two records are
equal exactly when the Arcs are the same.

| Property | Says |
|---|---|
| `IdsStable` | `RealIdsCoherent`: the published id of a command leads to it and to the handler installed now. `NoDanglingIds`: both id tables have the same ids, and each leads to a live command. `IdsNeverRebound`: no id is ever given to a second command |
| `UnlockedCallsSound` | `SnapshotCurrent`: a caller that sees `frozen` finds the registry in the snapshot. `RunsOnlyGranted`: a handler runs only with its capability granted |
| `SchemasCurrent` | `SchemaCacheCurrent`: a cached schema is that of the registry. `GenerationIdentifiesSchema`: a host with a schema of the current generation has the current commands |
| `RecheckedMutations` (action) | `FrozenIsFinal`: no step changes a frozen registry. `HotReloadKeepsContract`: a hot reload applies an entry only over the contract that is live then |

Run `package`, registry's part: two names, ids up to 4, two wires, one
capability, two mutators, one caller, one host; the build is one command with
an alias, which is one of those the builder's part delivers. The constraint
`FewChanges` stops after three structural mutations (bound
`MaxGeneration` = 2, tested before the step): enough for register, unregister
and register again, and for a replace that overtakes a hot reload which a freeze
then overtakes. Mutators are interchangeable, hence the symmetry.

### 3.4 EventSink and ChannelHost

`EventSink`: an element of `Sinks` is one registration (every registration makes
a new gate); `Identity` is the callback and context behind it, which the scriptc
release compares. `Swap` holds the global mutex from the exchange to the
installation into the package (`Install`), then closes the old gate and waits
(`Close`, `Wake`). `Emit` clones the package's sink, `Enter` looks at its gate
outside every lock. `RegisterFfi` and `InstallPending` are `register_ffi`.

`ChannelHost`: JSON and bytes channels share the handles; a handle has one kind
for life, so one table and one sink map hold both. A create is `Reserve`,
`InsertSink`, `RegisterChannel`; a drop is `DropChannel` (the route),
`RemoveSink`, `Close`, `Wake`. A send clones the sender (`Send`) and enters the
gate later (`Enter`). A release by callback identity (`ReleaseSink`, `Unroute`)
takes the newest sink of the pair first and the route after it; a completion of
an asynchronous call (`Submit`) sends its reply into a channel. `caught` records
handles released while their create was still on its way: those keep a route
without a sink until somebody drops the handle, and are excepted where that
matters.

| Property | Says |
|---|---|
| `SinksSound` | `NoCallbackAfterRelease`: after the call that replaced or removed an event sink has returned, its callback does not run. `PackageFollowsRegistration`: with nobody in between, the package has the registered sink: none lost, none resurrected. `DropsAreCounted`: queued events wait, were taken, or are counted as dropped |
| `NoCallbackAfterQuietDrop` | after a drop of a channel returned 1, or a release returned, and no other drop of the handle runs, no callback runs |
| `DropLeavesNothing` | a dropped handle has no route, and no sink that nobody closes |
| `EventsEnd`, `ChannelsEnd` (liveness) | the calls that replace, remove, drop or release return |

Run `events`, core's part: two registrations of different owners, two threads that
swap, one `register_ffi`, two emits (one with a NUL), a bus of one. Two swappers
can each wait for the other's predecessor, and a bus of one drops with two
events. Run `channels`, core's part: a JSON and a binary channel and a resource compete for two
handles, so that one of them meets the end of the handle space (`MaxHandle`
stands for `u32::MAX`); a JSON send and a completion are tried on every handle,
while two threads drop and release. Two droppers are what a double drop takes.
Sends with a NUL or over the limit end early and add nothing to the races; the
proofs cover them. `HandlesNeverReused` and `CreatedIsComplete` are only
proved.

### 3.5 EngineSlot

An element of `Promises` is one run of `ensureConfigured`'s body; it also names
the engine its initializer produces. `Start` captures generation and
initializer; `Continue` is the reaction when the initializer has answered: it
installs, or, when the slot has changed, takes what is there, follows the
initialization under way, starts another, or fails (`Superseded`). `Catch` clears
the shared promise only when it is its own. `Call`, `CallLazily`, `Retry`,
`CallFails` are a generated function with its own route cache (by generation)
over the shared one (by command id). A token is the generation at which it was
claimed.

| Property | Says |
|---|---|
| `LateResultsLose` | `SlotBelongsToRegistration`: the engine and the initialization in the slot were started for the registration that holds it. `LosersAreDiscarded`: `ensureConfigured` is fulfilled only with an engine that was installed |
| `InitializationsOrdered` | `SingleFlight`: one registration has at most one initialization under way. `FollowsNewer`: an initialization waits only for one of a later registration, so never in a circle |
| `CallsReachTheEngine` (action) | a call goes to the engine in the slot |
| `CallsResume` (liveness) | a waiting call is answered or rejected |

Run `engine_slot`: two lazy bootstraps and one given engine, four
initializations of which one may reject, two functions, up to three changes of
the slot (`MaxGeneration`; every registration, release and installation is
one). Three changes allow two registrations over a pending initialization and
its late result. Four initializations are never exhausted: each claim that is
lazy starts one at most, and a failure adds one. So the model is never stuck for
lack of a promise, and deadlock is checked.

### 3.6 NodeLoop and RequestReply

An element of `Procs` is one spawn of the command. What the transport believes
(`child`, `mode`, `handshake`, `pending`, `binQueue`, `waiting`) is kept apart
from what is true of each process and of its pipes (`status`, `speaks`,
`queued`, `stdin`, `stdout`): a process may be dead before node knows, exited
while its output is still read, or given up while it still runs. The `Invoke...`
actions are the ways an invoke can go: refused, written as a line or as a frame,
held behind the handshake, or the cause of a spawn. `Data` is a `data` event by
line or frame; `Lose` is `fail()` of the closures of the present process;
`Exit`, `Close`, `SpawnError` and `WriteError` are the events of a process that
ends. The runtime (`Answer`, `BeginHello`, `AnswerHello`) is that of
`loop-stdio.rs`; `AnswerHelloOld` is one without a binary mode or without the
handshake. `Noise` is text on stdout, or a push frame of another thread.

| Property | Says |
|---|---|
| `TransportSound` | `NoneForgotten`: a caller waits exactly when the transport holds its promise, in one of its tables, and has a process whose end would settle it. `OrphansAreKilled`: a process that was given up was told to end. `Aligned`: answers carry no id, yet the queue of waiters is the order of what lies between the two ends. `NeverGarbled`: the runtime never reads a line while it expects a frame, or the reverse |
| `ImplementsRequestReply` | a request is settled once, with the answer to this very request or with an error |
| `NodeSettles` (liveness), `RequestsSettle` | every request settles if runtimes answer, unless a push frame destroyed the answer of the handshake (section 4) |

Run `node_host`, transport's part: an ordinary request and one that creates a channel (which line
protocols refuse), two processes. Two requests are what a wrong order takes, two
processes what a late event of the first takes; a third process meets the second
as the second meets the first. One push frame or text is in a pipe at a time.

### 3.7 NodeBootstrap

Of the slot only what a bootstrap sees is kept: who holds it, the engine, the
shared initialization. `runPc` is an execution of the initializer: `Begin` and
`Opened` are `createTransport()` or a spawned candidate, `ContractHolds` and
`EventsHold` the two probes, `NextCandidate` goes on after a mismatch or a
timeout, `OpenedLate` and `AdoptFails` are what happens after the end.
`ReloadStarts`, `ReloadRestarts`, `ReloadFails` are `reload()` with its drain;
`Dispose`; `Replaced` is anybody else's registration. Names of runs and
transports are used again once they are over.

| Property | Says |
|---|---|
| `TransportsAreOwned` | an open transport is the one that dispose and reload would close; a disposed bootstrap has none, however late they arrive |
| `NothingStale` | `EngineIsLive`: while the bootstrap holds the slot, the engine leads to its open transport, and only then is it ready. `EventsFollow`: subscriptions listen to the verified transport and to no other |
| `NeverReclaims` (action) | a bootstrap that was disposed or replaced never takes the slot again, not even by a reload that was draining then |
| `NodeSettles` (liveness), `CallersSettle` | `ready()` and `reload()` settle |

Run `node_host`, bootstrap's part: two readers, two subscriptions, two transports, two runs,
two candidates per run. `OneRunAtATime`, proved, is why two runs are enough for
every order of an old and a new one; two transports are the old and the new.

### 3.8 EventPolling

`adapter` tells Node from Bun: what each takes for a running loop differs (a
flag there, the timer handle here), and so do the ends of a tick. `Subscribe`
and `Unsubscribe` are the table with push or polling behind it; a loop is a
chain of ticks (`FireDrains`, `Drained`); `Verdict` is the settlement of
`ready()` with its one fallback from push to polling. `timer` is the handle
stored last, which may belong to a timer that has fired.

| Property | Says |
|---|---|
| `ServedByOnePath` | `NoDeadStream`: while anybody is subscribed the push listener is attached or a loop is under way. `OnePath`: never both |
| `EventsEnd` (liveness), `ListenersServed` | `KeepsDraining`: while somebody is subscribed the bus is drained again and again. `NoStuckPush`: nobody stays on a push stream of a runtime that does not push. `IdleStops`: without subscribers every loop ends |

Run `events`, adapter's part: two listeners that come and go, each subscribed up to twice
(`MaxOpen`), three chains of ticks. Two chains at a time can be reached (section
4); the third shows that nothing changes with more. An instance in which all
three are live has no name for a fourth; the same listeners leave before.

### 3.9 ClientCall and FrameEngine

`ClientCall` is `withRetry` around `invoke` with a signal and a timeout. `Try` starts an attempt
(`Invoke`: without an engine it waits for the lazy one), `Dispatch` calls the
engine and arms the race, `Settle` is the job in which the awaiting function
sees an outcome of the race, `Return` and `Backoff` are the loop's decision,
`Wake` the end of the sleep. `Abort` may come between any two jobs, and, as
`DispatchAborts`, inside the call of the engine. An attempt that timed out leaves
its native call running, so `Answer` may come much later.

`FrameEngine` is what is sent for a call. A call is named by its depth, as one
job of the event loop makes it, but getters of the arguments (`"encoding"`) and
callbacks of the native side (`"native"`) may make calls from within it.
`InvokeStatic` lends the buffer of a generated command, or finds it lent; `End`
gives it back, whichever way the call ends. `InvokeDynamic` looks a command up:
`Poll` asks for the generation, `Resync` reads the schema when it has moved,
`Lookup` takes entry and codec from the caches, `LookupAgain` reads the schema
once more for a name the cache lacks. `Register` and `Unregister` are other
threads, between any two of these: the registry is what `CommandRegistry` shows
of itself, where a change and its generation are one step and no id is given twice.

| Property | Says |
|---|---|
| `AbortReachesNative` | an abort reaches every native call that still runs, also those of attempts nobody awaits any more |
| `NothingLeftBehind` | when the caller has its result no timer is armed, and no listener is on the signal but for calls that still run |
| `NoStartAfterAbort` (action) | no native call starts after the abort |
| `ClientSettles` (liveness), `Settles` | with an engine installed, an aborted call and one with a timeout end although the native side hangs |
| `FramesSound` | `FramesIntact`: a lent buffer has the frame of its call until the call returns, and nothing is lent for ever. `SentAsLive`: a dynamic command goes out under an id and a contract it had at some moment since the call began, if the host has a generation to ask for (section 4) and neither the question nor the schema failed. `MissingIsMissing`: a command reported missing was missing at some moment of the call |

Run `client`, first two layers: two retries, so that three native calls can be in flight; all
else is Boolean; more retries repeat the second. A call within a call, one
generated command, one dynamic name, two contracts, three changes of the
registry: register, unregister and register again gives a name a second id, and
a replacement between the reading of the schema and the call a second contract.

### 3.10 ReactBindings

`SuspenseCache` is the bounded Map of one engine with the two timers and the
invocation of each record. `entries` gives each record of the Map those before
it, which is the order a JavaScript Map keeps. `Resolve` is a render that reads a
key: what has run out goes, and then a hit moves to the end (`Hit`), a full Map
without a settled record refuses (`Refuse`), or the record enters, in the place of the oldest
settled one if there is none left (`Insert`). `Answer`, `Deadline` and `Expire`
are the reactions, `Invalidate` and `ConfigureSuspenseCache` the two operations. `MutationHook` has the scope of each
(engine, command) pair with its counters and effect: `Call`, `Succeed`, `Fail`
and `Failed` (with whatever `onError` and `onSettled` call in between), `Reset`,
and React's `Replace`, `RunEffects`, `Hide`, `Show`. `CommandHook` has runs that
abort the run before them, `EventHook` runs of an effect whose unsubscribe
function may come after the cleanup. What the code keeps as a growing number
only to compare it (a generation, a call number) is the record that drew it, and
a record nothing refers to any more is used again; so no bound cuts a behaviour
short.

The four share no state, so here, too, a behaviour is that of one of them (`part`).

| Property | Says |
|---|---|
| `CacheSound` | `Bounded`: the Map never outgrows its capacity and has one record of a key. `TimersOwn`: removals are by key, yet a timer acts on its own record; and nothing cached is for ever. `RealOutcomeLands`: after a deadline the next render reads what the invocation came to |
| `EntriesLeaveOnce` (action) | `NeverRepopulates`: a late answer does not bring back what was invalidated. `PendingKept`: a request under way is not evicted |
| `MutationShowsLast` | `NothingStale`: nothing from another scope or from before a reset. `LatestWins`: the outcome of the call made last. `LoadingExact`: loading exactly while a call may change what is shown |
| `QueryShowsPresent` | `OneLiveRun`, `ShowsPresent`: what is shown is of the input on view. `LoadingExact` |
| `EventsOnce` | `DeliveredOnce`: an event goes to the subscriber on view only, and no unsubscribe function is called twice |
| `HooksSound` | `CacheSound`, `MutationShowsLast`, `QueryShowsPresent` and `EventsOnce` together, as the run checks them |
| `ClientSettles` (liveness), `WokenAndReleased` | a suspended component is woken although the engine never answers; a subscription that was cleaned up leaves the emitter |

Run `client`, React's part: three keys of two commands over one or two places, three records;
two scopes, three calls, up to two pending (`MaxPending`); two inputs, three
runs; three runs of a subscription. A third record (call, run) is what an
invalidated one, its successor and a competitor for their place take.

### 3.11 HotCore and TauriLeases

The watcher of `HotCore` is a loop of ticks: `Look` (stat), `Hash`, `PrepareSwapCopy`,
`Open`, `Swap`, before the first of which it reads its baseline in two steps.
Each reads the file anew, and `Publish` puts other bytes there, half-written
ones included, or removes the file between any two. Callers hold the read lock
of the handle while they are inside a core. A fingerprint is only ever compared
with that of the file, so that it is a Boolean: is it still the file's? Rust's
`RwLock` is assumed to let a writer that waits go before new readers, as std's
implementation on Linux and macOS does.

In `TauriLeases` a channel is in three tables, each with a lock of its own: the
resource table of its webview (`leases`), the map of owners, and the channel
host (`routes`). `AddLease`, `InsertOwner`, `RegisterSender` are its creation,
under the first two locks; `FindOwner`, `CloseLease`, `CloseReturns` a close by
its page or by the host; `ClearMatching` and what follows the clean-up after
`Navigation`, `WindowDestroyed`, `WebviewCloses` (found by the next
`MainEventsCleared`) or `Exit`. Whoever takes the lease drops it on its own
thread: `Deactivate`, `RemoveOwner`, `DropChannel`. Tauri's part, that resources
are closed with their table locked and that events of the application come one at a
time, is external. `DropChannel` is one step of `ChannelHost`'s table; these
channels have no C callback to wait for.

| Property | Says |
|---|---|
| `BaselineSound` | `FilterSound`: a tick that skips the file because of its fingerprint skips bytes that are the baseline. `BaselineServed`: the baseline is what the handle serves, unless it was torn (section 4). `GivesUp`: a file that does not open is tried five times, whatever failed or succeeded before it |
| `LeasesAgree` | `NoOrphans`: a sender has its lease and its owner, or somebody is about to take it away. `GoneIsGone`: a channel whose close returned true, or that was cleared, is in no table and never comes back |
| `ReloadEnds` (liveness) | `ServesLatest`: what is published last is served in the end, unless it was given up or is the bytes of a torn baseline |
| `ChannelsEnd` (liveness) | closes and clean-ups come back, so no order of the locks can block; and what a webview owned loses its sender when the webview is gone, unless another of its name appears |

Run `hot_reload`, host's part: two cores, so that one can come back after the other, one file
that does not open, two callers, and the limit of the code (`MaxFailures` = 5);
publications are not bounded. Run `channels`, leases' part: two channels of a webview or of the application
and two threads that close: two channels are what one event clears in sequence,
two threads what finds a lease the other has taken.

### 3.12 DevLoop

`mode` tells the two pipelines apart: `rustra dev --config` (`dev.ts`) and the
older one with `--backend` and `--app` (`legacy-dev.ts`). Both run under the loop
of `watch.ts`: the snapshot watchers (`Poll`, `PollSchema`, `PollConfig`) start a
debounce timer, which starts a run, or, while one is on, queues one more
(`Queue`); `EndRun` takes that up; `Dispose` closes the session, from the host or
from a reload hook within a run, and `Joins` says who waits for the run.

`pc` is where the run stands, and each step is what it does between two awaits.
In `dev.ts`: `ReadConfig` (with the exchange of the watchers, the gate of a new
configuration and the decision what to skip), `PreArm`, `Codegen` and
`Generated`, `Built`, `Arm` or `Verify`, `Finish` (publication, new watchers, what
to remember), the hooks. In `legacy-dev.ts`: `LegacyClean`, `LegacyStart`,
`RustBin`, `TsCli`, `LegacyFinish`. Each stage may fail (`Fails`, `ReadFails`,
`PublishFails`, `SubscribeFails`), and the session may be closed at each
(`Aborted`). The first run begins before the session has given up its thread, and the
publication ends without an await, so nothing comes in between there (`Yields`).
Users edit inputs, schema and configuration between any two steps, as long as the session is open. Inputs are what Cargo is known to read and a file
that only the dep-info of a build shows, so that the set of watched paths
changes; a fingerprint is the inputs as far as the paths of the moment show them, or
`Unknown` when a file vanished under the hash.

| Property | Says |
|---|---|
| `DevLoopSound` | `NoEditLost`: however edits cross polls, runs and the exchange of the watchers, at rest the last usable state of the inputs is one a run was started for. `SkipsAreSound`: what is remembered as built is what is published, and the clients are of it, although runs fail and are refused in between |
| `PublishedRightly` (action) | a core is published by an open session, and under a gate that an earlier run armed only with the contract of its baseline; a closed session starts nothing |
| `ReloadEnds` (liveness), `DevSettles` | every run ends, what was noticed is taken up, whoever disposes comes back |

Each has exceptions that are behaviour of the code, listed in section 4: watchers
that are gone, fingerprints that could not be read, files that were edited while
they were built.

Run `hot_reload`, session's part: three contents, one of which Cargo refuses, with two
contracts; with and without the gate, and a configuration that is broken; two
edits (`MaxEdits`). Two edits are one and its reversal, on either side of any step, or
one that breaks and one that repairs; with dep-info from the start and
without.

### 3.13 Fairness and deadlock

Liveness is checked under weak fairness of

* every thread that is inside the library (entries, workers, swappers,
  droppers, emits): the operating system schedules it, and no lock here is held
  for ever. Mutexes are held across a step only by a thread that is itself
  scheduled;
* host callbacks of events and channels: the safety comments of the register
  and create entries ask that they return;
* handlers of commands, except those in `Hanging`;
* ready reactions of the event loop and the settlement of an initializer's
  promise: the bootstraps bound theirs by `readinessTimeoutMs`;
* `NodeLoop`: the event loop delivers, the pipes flush, a runtime that has a
  request answers it, a killed process ends. Nothing makes a process crash;
* `NodeBootstrap`: the runs, whose probes are bounded by `readinessTimeoutMs`
  (that `createTransport()` settles is up to who passes it), and the drain of
  reload, bounded by its own timeout;
* `EventPolling`: timers fire, drains and `ready()` settle. Strong fairness of
  `FireDrains` says that `drainEvents` does not throw synchronously every time;
* `ClientCall`: jobs run and timers fire. The native side need not answer and
  the engine need not be configured. Nothing is claimed to happen in `FrameEngine`;
* `ReactBindings`: timers fire and the promise of a subscribe function settles.
  Engines need not answer;
* `HotCore` and `TauriLeases`: the watcher polls for the life of the process, and calls into a core
  return (one that hangs keeps the write lock, and the watcher, waiting); threads
  that create, close or clear a channel get on, and Tauri's event loop turns;
* `DevLoop`: watchers poll, timers fire, Cargo and the hooks end, one way or the
  other. A stream of edits that keeps resetting the debounce timer is not
  modelled: edits are bounded.

Nothing makes a host or a user call, cancel, abort, free, register, subscribe,
emit, configure, publish or dispose.

`CHECK_DEADLOCK FALSE` is set where the system may rightly stop because
everything an instance declares is used up, or because somebody closed it: `package` (builds), `events` and
`polling_loops` (emits; a disposed bridge), `channels` and `channels_drop` (creates and sends), `node_host`
(requests and processes), `client` (the one call; the registry's changes; an
unmounted component), `hot_reload`, `dev_follow` and `dev_memory` (edits; a closed session). The
others, `async` and `engine_slot`, check deadlock.

## 4. Findings

Each is a run that ends in a counterexample to what the repository says.

1. **`polling_loops`** (`OneLoop`). The Bun bridge starts a loop when its timer
   handle is null, which is also so during the first drain: a second
   subscription then starts a second loop, and both go on until the last
   listener has left. `bun-events.ts:26-27` says that several subscribers share
   one loop. The Node adapter gets there when the last listener leaves during a
   drain and another comes. Every event is still delivered once, as draining
   empties the bus; `ServedByOnePath` and `ListenersServed` hold.
   The React Native adapter counts its demand and does not have this.
2. **`channels_drop`** (`NoCallbackAfterDrop`). Two threads drop one handle; the
   one that finds the route but no sink returns 1 while the other still waits for a
   running callback. `ffi_channel.rs:153-155` says `user_data` may be freed
   then. `NoCallbackAfterQuietDrop` is what holds: with one drop, or when all
   have returned.
3. **`dev_follow`** (`SourcesFollowed`). `subscribe()` of `dev.ts` gives up its
   watchers (`:135`) before it asks Cargo for the paths (`:149`). When Cargo refuses the
   `Cargo.toml` of the moment, the run ends without watchers on the sources, and
   the edit that repairs the file is seen by nobody; only one of the
   configuration is. `packages/cli/README.md:118-121` says that sources are followed.
   `legacy-dev.ts:126` asks first and keeps its watchers.
4. **`dev_memory`** (`RememberedIsConsumed`). After a build `dev.ts:359` remembers the
   fingerprint from before it, also when it sees that the files were edited
   meanwhile. If the edit is undone before the run it schedules, that run takes
   the inputs for built, and the clients and the core of the other content
   stay. `dev.ts:118` speaks of what the last success consumed;
   `legacy-dev.ts:143-144` remembers a fingerprint only if it is still the same.

Other disagreements and limits met while modelling, which no run of its own
states:

* `replace`, and `register` over an existing name, write the new Arc under the
  command's real id only (`registry.rs:129`, `:174`). An alias id keeps the old
  Arc, so an older client goes on calling the replaced handler;
  `package_types.rs:41-42` says the values always are the Arcs of `commands`.
* With an alias of `u16::MAX` and a command to displace, `saturating_add` leaves
  the next id on the alias itself (`builder_build.rs:41`); a release build, in
  which the assertion at `:89-94` is compiled out, gives that id to the displaced
  command and wraps.
* An emit that cloned the old sink and finds its gate closed returns as if
  delivered (`ffi_event_core.rs:112`): the event is neither pushed to the new
  sink nor queued. `package_events.rs:77-79` promises delivery exactly once. It
  is at most once around a change of the sink.
* The runtime installs the push sink before the answer of the handshake is
  written (`loop-stdio.rs:139`, `:162-169`). A push frame in between is read as
  the beginning of that line (`node-loop.ts:244-246`), and the invokes behind the
  handshake wait until the process ends or is disposed. `RequestsSettle` names
  this exception (`HelloDestroyed`).
* A runtime that answers `__hello` with `ok: false` keeps the handshake rejected
  for the life of the process, so every later invoke fails
  (`HelloRefused`, `InvokeRefused`); the comment at `node-loop.ts:242-243`
  speaks of staying with NDJSON.
* Channel handles are not tied to the process they were made in; after a respawn
  a handle of the old process may be one of the new.
* A call that waits for the lazy engine does not hear an abort and has no
  timeout yet, hence `configured` in `Settles`. An abort from within the dispatch
  comes before the id of the native call is known and cannot cancel it
  (`reentrant`). `withRetry` takes a cancellation for retryable, and stops only
  because it looks at the signal as well. Retries may overlap a native call that
  timed out, as the documentation says.
* A release by identity may take the sink of a channel whose create has not
  returned; the create then registers a route without a sink, and a send to it
  returns 1 and reaches nobody until the handle is dropped (`caught`).
* A tree that React hides while a `useMutation` call is under way and shows again
  stays `loading`: the cleanup bumps the generation, so that nobody resets it
  (`everHidden` in `MutationHook`). `packages/react/README.md:91-92` has `loading`
  end when all calls have settled.
* With `enabled: false` a `useCommand` refetch in flight has no cleanup that would
  end it when the input changes, and may still write its result
  (`ShowsPresent` is about enabled hooks), against the comment at
  `useCommand.ts:33-36`.
* A host opens the artifact, and then starts the watcher, whose baseline is the
  file as it finds it (`hot_core_watch.rs:166-167`). A build that publishes in
  between is taken for what the host has opened and is never loaded. Likewise, when
  a build publishes between the hash of a tick and its copy, other bytes are loaded
  than those that become the baseline; that is repaired by the next tick, unless the
  hashed bytes are published again, which are then taken for loaded
  (`torn`). `hot_core_watch.rs:156-157` says that only bytes which succeeded become
  the baseline.
* A channel that a page asks for and that Tauri's thread creates after the page
  has navigated belongs to the webview of that label, and stays until its next
  navigation or close (`AddLease` does not look whether the page is the one that
  asked). `docs/events-and-channels.md:195` says that navigation releases what the
  page owned.
* The gate of `dev.ts` compares the schema file with its baseline (`:321`,
  `:338`), not the contract of the artifact it is about to publish. An edit between
  the generation of the schema and the build publishes a core of another contract
  than the one compared (`~moved` in `PublishedRightly`). The next run notices.
* When the fingerprint could not be read at the decision, nothing is compared at
  the end (`dev.ts:352`), and the new watchers start from the disk as it is:
  an edit made during that run is not noticed until the next one (`asked = Unknown`).
* In the legacy mode, when the client generator fails after Cargo wrote a
  schema and the sources are then put back, the next run takes the Rust stage for
  done and generates clients from the schema of the other content. `SkipsAreSound` is about
  `dev.ts`, which forgets the last success before a full run.
* The watch mode of `generate` (`cli-generate.ts:122-148`) starts its watchers after
  the first generation, from the disk as it is: an edit made meanwhile is
  not noticed.
* On a host without `getSchemaGeneration` a command that was replaced goes on
  being called under the contract cached first, until somebody calls
  `refreshLiveSchema` or a name is missing; `frame-engine-schema.ts:44` says as much
  (`exposes` in `SentAsLive`).
* The same callback subscribed twice under one name shares an entry, so the
  first unsubscribe removes both (`open` and `table` in `EventPolling`).

## 5. Proofs

All theorems hold for every value of the constants, under the `ASSUME`s of the
modules: finite sets, distinct null values, positive bounds, and for the
registry that it starts from a well-built package, which `PackageLife` shows of
every build the builder delivers. `AbsentAssumption` of `HotReload` says that "none"
and "unknown" are no fingerprints. No fact is taken on trust.

Every safety invariant and action property of a passing run is a theorem, and so is the
refinement of each abstract specification.

**`AsyncDispatch_proofs`**: `TypeCorrect`, `SettledExactlyOnce`,
`CancellationSound`, `RegistryOrder`, `FramesOwned`, `InflightCounts`,
`BooksKept`, `DropsDrain`, `Refinement`. None of the properties is inductive, as each speaks
of what is visible at the end. The invariant `IInv` says that at every moment a
call has one carrier (its host's thread, one place in the channel, one worker,
or nobody once it is settled) and what the carrier's place in its code implies
for registry, reply, frame and history. Then each step hands a call from one
carrier to the next. `CountInv` adds that the counter is the size of the set of
carried calls, by the cardinality of a set with one element added or removed.
`DropsDrain` rests on two more facts: the counters of accepted and of completed jobs
differ by what is in the channel, with a worker or not yet counted by its submit
(`OnTheirWay`), and once the sender is gone no submit is under way (`EndInv`), so
that the empty channel at which a worker leaves stays empty.
`Refinement` maps each step to one of `AsyncCall` or to a stutter under `IInv`.

**`CommandRegistry_proofs`**: `TypeCorrect` and one theorem for each property
of the table above and for each of its parts. For the ids: every id that ever
named a command is below the counter, or the counter is at its sentinel and
registers nothing (`IdsInv`), so a fresh id rebinds nothing, and because a live
id names only its own command, an overwrite does not either. For the snapshot
and the schema: while a thread is between `FreezeFill` and `FreezePublish`
nobody else has the lock, the snapshot is the registry and no schema of the
current generation exists (`FreezeInv`), so publishing `frozen` makes nothing
stale. `FrozenIsFinal` and `HotReloadKeepsContract` follow from the same
invariant and the second check under the lock. The module is about
`PackageLife`: `DeliveredBuildsAreWellBuilt` derives what the registry assumes of
its build from the builder's invariant at the moment of delivery, and
`LifeServes` carries `BuildsServeEveryId` over to the whole life of a package.
Of the builder it has `BuildTypeCorrect` and `BuildsServeEveryId`. Until the
first wrap, ids in use are distinct and below the counter; after the merge the
counter is above every alias; and nobody but its target sits on an alias the loop
has passed (`PassedClear`, the loop invariant). A displaced command goes to the
counter, which is no alias, so passed aliases stay clear.

**`HostChannels_proofs`**: of `ChannelHost` `TypeCorrect`, `HandlesUnique`,
`CreatesComplete`, `NothingLeft`, `DropsAreQuiet`. The active count of a gate is the number of
calls inside it (`CountInv`), so a dropper that sees zero has seen nobody; a
closed gate admits nobody; and a handle whose sink is gone without being closed
has a dropper that is about to close it. Of `TauriLeases` `LeasesAlwaysAgree`,
from who may change which table: a creation holds the locks of both tables until
its sender is there (`CreationInv`), so nobody finds half of it; whoever takes the
lease drops the channel and goes through its tables in a fixed order
(`DroppingInv`); and what the clean-up has taken out of the map of owners can no
longer send, though its sender may still be in the routes (`ClearingInv`).

**`EngineSlot_proofs`**: `TypeCorrect` and one theorem for each safety and
action property and for each part. While a registration is pending its token is
the generation (`SlotInv`), so the generation an initialization captured is the
current one only for the initialization in the slot (`RunInv`); a late result
therefore either belongs to the holder or fails the comparison. `RouteInv` says
that a cached route of the current generation is the engine in the slot, which
makes clearing the caches on every change sufficient.

**`NodeHost_proofs`**: of `NodeBootstrap` `TypeCorrect`, `NoTransportLeaks`, `RunsDoNotOverlap`,
`InstalledEngineLives`, `SubscriptionsFollow`, `NothingIsStale`, `EndIsFinal`. The
invariant ties the run in flight to the slot and to what is owned: while a run
is between its start and its end nobody else has a transport, and a reload that
drains has waited for the run before it. That is what reload's first wait is for; without it
(`MutReloadStarts`) a late run closes the events of its successor.

Of the transport `TransportIsSound` and `TransportImplementsRequestReply`, for any
number of requests and processes and pipes of any length. Answers carry no id, so everything
hangs on an order that no variable holds: the queue of waiters is the answers on
stdout, followed by the requests in stdin, followed by those node has not
written yet (`Coming`); of a process that exited it begins with the answers that
are left. That this survives a step needs what else may be in
the pipes (`PipesInv`: each request in the format the runtime reads by then, and nothing
but the handshake until it is answered), what the transport may believe of its process
(`ChildInv`), and that each promise is held in one place and each answer given once
(`ClientInv`). A step touches the pipes of one process at most (`OnlyAt`), and every
other keeps its part of the invariant. The refinement is shown step by step
(`MovesAreReplies`): under the invariant a step gives some requests their answer or an
error, or one its start, and leaves the rest.

**`HostEvents_proofs`**: of `EventPolling` `TypeCorrect`, `SubscribersAreServed`,
`PathsExclude`, `ServedAlways`, and `HostServes` for the composition. What each adapter takes for a running loop is
never true without a live one (`Believed`), although it may be false with one;
so a subscriber is never left without a loop, only given a second. Of `EventSink`
`SinksAreSound`: a swap holds the mutex from its exchange to its installation, so
that without a holder the package has the sink that is registered or none
(`SinkInv`); who waits for a gate has closed it, and who has returned left nobody
inside (`GateInv`), as the count of a gate is the number of the callers inside it
(`CountInv`); and an event is in the queue once, or its drop was counted
(`QueueInv`).

**`ClientSide_proofs`**: of `ClientCall` `TypeCorrect`, `AbortIsPropagated`,
`CleansUp`, `AbortStopsAttempts`. A native call that runs is listened for by its engine or
its cancellation has been passed on (`Covered`), and only the present attempt
races (`OneRace`), so its end leaves nothing of the others. Of `FrameEngine`
`FramesAreSound`. Only the innermost call is between two entries of the native
side (`CallsNested`), so nobody else reads the schema while it looks a command
up; a cache whose generation is the registry's is the registry, and codecs of the
present epoch are those of its entries (`CacheFresh`); hence what a call finds
after it has asked for the generation is what its command was since it began
(`LookedUp`), whatever other threads have registered by then. A lent buffer names the
one call that has it (`BuffersLent`).

Of the React bindings `HooksAreSound` and `EntriesLeaveForGood`. The cache: the
order of the Map is one, it has one record of a key, and only a running invocation has a
deadline (`CacheInv`); so a removal by key, which is what all timers do, removes the record
the timer is for. `useMutation`: the counter of pending calls is the number of the calls that
still may change what is shown (`Counted`), and what is shown is the newest call's
(`NewestShown`), through renders, scopes and effects that come and go. `useCommand`: a run that was not
aborted is the last one drawn and the one the next abort would reach, and is for the
input on view (`LiveIsAborted`, `LiveWillShow`).

**`HotReload_proofs`**: `BaselineIsSound` of `HotCore`. The file may change under
each step of a tick, so what a tick has read holds only as long as nothing was
published: a fingerprint that still is the file's vouches for the hash read
under it (`TickReads`). The streak of failures counts every failure of the
file as it is, unless it was poisoned or has become the baseline (`Counted`),
which is why five tries are five.
Of `DevLoop` `DevLoopIsSound` and `PublishesRightly`. An edit was noticed by
something that leads to a run, or the last run was started for it (`Followed`), at
whichever step watchers are exchanged. A full run forgets the last success
before it touches anything, and a run that skips Cargo is for the inputs of the last
success (`Remembered`); hence whatever fails in between, what is remembered
is what was published. Files that held still give a schema, clients and core of one
content (`HeldStill`), which is what passes the gate (`GatePassed`); a closed session
has nothing under way that would start anything (`Closed`).

**Only model-checked**: the liveness properties, `CallsAndPoolEnd`, `EventsEnd`,
`ChannelsEnd`, `CallsResume`, `NodeSettles`, `ClientSettles` and `ReloadEnds`, as temporal
reasoning under fairness and `ENABLED` are beyond the prover. **Only proved** are
the type invariants of the modules with proofs, `ExactlyOnce`, `CancelHonoured`,
`HandlesNeverReused`, `CreatedIsComplete`, `OneRunAtATime` and `DropDrains` at every
moment: TLC has checked them on the same instances, where other properties imply or
surpass them.

## 6. What is left out

* `EventSink`: a Rust host that calls `Package::set_event_sink` beside the C
  entries; the `seq` stamp of queued events, which is drawn outside the queue's
  mutex and which nothing in the core compares.
* `CommandRegistry`: a handler that mutates the registry from within its call
  takes the same locks as another thread and is covered as such; the codecs of a
  call; the synchronous entries, which are `Invoke` to `HandlerReturns` on the
  host's thread.
* `EngineSlot`: resolvers of routes that reconfigure the slot while they run,
  and initializers that await `ensureConfigured` themselves (they would wait for
  their own promise); the answers of engines.
* `NodeLoop`: diagnostics of unreadable lines. `node-channels.ts` (a handler for
  each handle) and `cancel-by-id.ts`.
* `NodeBootstrap`: `eventFailure`, which only words a later error. A bootstrap
  that is ready and is replaced keeps its transport until its own `dispose()`, in
  the code as in the model. `bun-bootstrap.ts` has the same life.
* `EventPolling`: the error for a malformed polling interval in the environment.
* React: the default engine of `context.ts`, which follows the registration of the
  engine slot, and `input-key.ts`, a serializer. React itself is modelled by when
  it may commit a render and run effects and cleanups.
* `HotCore`: the retention of old libraries (`hot_core_retention.rs`, a report at
  exit), whose code stays mapped; an `on_swap` callback that panics and ends
  the watcher; the race of two watchers on one handle.
* `FrameEngine`: the typed, positional, raw and batch entries of native modules and the
  sweep of static ids behind them, which take neither buffer nor schema; the
  contract check at construction, which only refuses to build an engine; the
  codecs themselves.
* `TauriLeases`: the chunks of a message (`tauri_channel_ipc.rs`), the names of
  events, and a window with several webviews, whose destruction clears them all
  at once.
* `DevLoop`: the watch mode of `generate`, and the builds that `nativeBuilds` and
  the wasm engine add, which are published as the core is. A file that appears or vanishes is
  an edit; the debounce interval has no length. Editors that write after the
  session was closed change nothing that is modelled.
* Poisoned mutexes (the code takes the inner value), memory orders weaker than
  sequential consistency, allocation failure.
* Whole components: batch calls, the Tauri client package, the calls of the Bun
  and React Native bridges, the commands of the CLI that run once. The codecs, macros, devtools and testing packages stay
  out for good: they keep no state between calls and are covered by differential
  tests and fuzzing.

## 7. Plan

What is left, in this order.

1. Proofs: more abstract specifications in the manner of `AsyncCall` and
   `RequestReply`, of the engine slot (one engine at a time, handed to who waits)
   and of the sink (at most once, in order), with their refinements.
2. The chunks of `tauri_channel_ipc.rs` and their reassembly in
   `tauri-channel-frames.ts`, and `node-channels.ts`.
3. The batch calls and native entries of the frame engine.
