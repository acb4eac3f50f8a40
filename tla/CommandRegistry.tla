--------------------------- MODULE CommandRegistry ---------------------------
(***************************************************************************)
(* The command registry of a built package while threads mutate it, call   *)
(* through it and synchronise with its schema (crates/rustra/src):         *)
(*   package_types.rs    RegistryState, FrozenRegistry                     *)
(*   registry.rs         register, replace, unregister, freeze, grants     *)
(*   ffi_hot_reload.rs   run_hot_reload over replace_runtime_route         *)
(*   invoke_frame.rs, invoke_dispatch.rs   a call by command id            *)
(*   package_schema.rs   live_schema with its cache, schema_generation     *)
(*                                                                         *)
(* RegistryState is behind one RwLock, so what runs under a lock is a step *)
(* of its own; `frozen' is an atomic that is also read without the lock.   *)
(* An Arc<Command> is a record: two are the same Arc iff they are equal.   *)
(* `stamp' tells installations apart: every installation raises the schema *)
(* generation, so the generation it produced identifies it.                *)
(***************************************************************************)
EXTENDS PackageIds, FiniteSets

CONSTANTS
  Wires,      \* the wire contracts a handler can have
  Caps,       \* capabilities
  Mutators,   \* threads that change the registry
  Callers,    \* threads that call a command by its id
  Hosts,      \* hosts that keep a copy of the live schema
  Builds,     \* what PackageBuilder::build may have produced
  NoOne, NoCommand, NoCap, NoSchema

Commands == [id : Ids, wire : Wires, cap : Caps \cup {NoCap}, stamp : Nat]
Schemas  == [gen : Nat, frozen : BOOLEAN,
             entries : [Names -> (Ids \X Wires) \cup {NoCommand}]]

(* A build: the commands, the aliases of older clients (id -> name), and    *)
(* next_command_id.  The conditions are what Served of PackageBuilder says  *)
(* of what a build without a wrapped counter delivers.                      *)
WellBuilt(b) ==
  /\ b.commands \in [Names -> Commands \cup {NoCommand}]
  /\ b.route \in [Ids -> Names \cup {NoName}]
  /\ b.next \in Ids
  /\ \A n \in Names : b.commands[n] # NoCommand => b.route[b.commands[n].id] = n
  /\ \A i \in Ids : b.route[i] # NoName =>
       b.commands[b.route[i]] # NoCommand /\ (i < b.next \/ b.next = MaxId)

ASSUME BuildsAssumption == \A b \in Builds : WellBuilt(b)
ASSUME NullAssumption == /\ NoCap \notin Caps
                         /\ NoOne \notin Mutators
                         /\ NoCommand \notin Commands \cup (Ids \X Wires)
                         /\ NoSchema \notin Schemas

VARIABLES
  commands,    \* RegistryState.commands
  idToName,    \* RegistryState.id_to_name
  idToCommand, \* RegistryState.id_to_command
  nextId,      \* RegistryState.next_command_id
  granted,     \* RegistryState.granted_capabilities
  generation,  \* RegistryState.schema_generation
  cache,       \* RegistryState.live_schema_cache
  frozen,      \* Package.frozen
  snapshot,    \* Package.frozen_registry
  writer,      \* who holds the write lock across two steps (freeze)
  pc, op,      \* where each mutator is, and with which arguments
  callPc, target, running,   \* each call: its place, what it asks for, the Arc it got
  hostPc, host,              \* each host: its place, the schema it holds
  everNamed    \* history: the names each id ever resolved to

registryVars == <<commands, idToName, idToCommand, nextId, everNamed>>
schemaVars   == <<generation, cache>>
freezeVars   == <<frozen, snapshot, writer>>
mutatorVars  == <<pc, op>>
callVars     == <<callPc, target, running>>
hostVars     == <<hostPc, host>>
vars == <<registryVars, schemaVars, freezeVars, granted, mutatorVars, callVars, hostVars>>

Ops == [kind : {"none"}] \cup [kind : {"register", "replace"}, name : Names, wire : Wires]
       \cup [kind : {"unregister"}, name : Names]
       \cup [kind : {"hot"}, name : Names, sig : Ids \X Wires]

Routed      == {i \in Ids : idToName[i] # NoName}
Live        == {n \in Names : commands[n] # NoCommand}
Unlocked    == writer = NoOne
Signature(command) == <<command.id, command.wire>>
Entries(cs) == [n \in Names |-> IF cs[n] = NoCommand THEN NoCommand ELSE Signature(cs[n])]

Tables     == [byName |-> commands, byId |-> idToCommand]
NoTables   == [byName |-> [n \in Names |-> NoCommand], byId |-> [i \in Ids |-> NoCommand]]
Targets    == [by : {"id"}, id : Ids] \cup [by : {"name"}, name : Names]
NoTarget   == [by |-> "nothing"]

(* A debug build is mutable until `freeze'; a release build is born frozen. *)
Init ==
  /\ \E b \in Builds :
       /\ commands = b.commands
       /\ idToName = b.route
       /\ idToCommand = [i \in Ids |-> IF b.route[i] = NoName THEN NoCommand
                                       ELSE b.commands[b.route[i]]]
       /\ nextId = b.next
       /\ everNamed = [i \in Ids |-> {b.route[i]} \ {NoName}]
  /\ granted = {}
  /\ generation = 0
  /\ cache = NoSchema
  /\ frozen \in BOOLEAN
  /\ snapshot = IF frozen THEN Tables ELSE NoTables
  /\ writer = NoOne
  /\ pc = [m \in Mutators |-> "idle"]
  /\ op = [m \in Mutators |-> [kind |-> "none"]]
  /\ callPc = [c \in Callers |-> "idle"]
  /\ target = [c \in Callers |-> NoTarget]
  /\ running = [c \in Callers |-> NoCommand]
  /\ hostPc = [h \in Hosts |-> "idle"]
  /\ host = [h \in Hosts |-> NoSchema]

-----------------------------------------------------------------------------
(* register, replace, unregister: ensure_mutable without the lock, and again *)
(* under the write lock.                                                     *)

Begin(m, o) ==
  /\ pc[m] = "idle" /\ ~frozen
  /\ pc' = [pc EXCEPT ![m] = "checked"]
  /\ op' = [op EXCEPT ![m] = o]
  /\ UNCHANGED <<registryVars, schemaVars, freezeVars, granted, callVars, hostVars>>

Return(m) ==
  /\ pc' = [pc EXCEPT ![m] = "idle"]
  /\ op' = [op EXCEPT ![m] = [kind |-> "none"]]

(* Mutant: the schema moves on without its generation. *)
MutTouchSchema == cache' = NoSchema /\ UNCHANGED generation

(* Mutant: the cached schema survives a mutation. *)
MutKeepCache == generation' = generation + 1 /\ UNCHANGED cache

(* What every structural mutation ends with. *)
TouchSchema ==
  /\ cache' = NoSchema
  /\ generation' = generation + 1

(* Mutant: the direct cache is not refreshed. *)
MutInstall(n, i, wire, cap) ==
  /\ commands' = [commands EXCEPT ![n] =
                    [id |-> i, wire |-> wire, cap |-> cap, stamp |-> generation + 1]]
  /\ UNCHANGED idToCommand

Install(n, i, wire, cap) ==
  LET command == [id |-> i, wire |-> wire, cap |-> cap, stamp |-> generation + 1]
  IN  /\ commands' = [commands EXCEPT ![n] = command]
      /\ idToCommand' = [idToCommand EXCEPT ![i] = command]

(* Mutant: the lowest id nobody has now. *)
MutIdFor(n) ==
  IF n \in Live THEN commands[n].id
  ELSE LET Free == Ids \ (Routed \cup {0}) IN CHOOSE i \in Free : \A j \in Free : i <= j

(* A name keeps its id; a new name gets the next one. *)
IdFor(n) == IF n \in Live THEN commands[n].id ELSE nextId

Exhausted(n) == n \notin Live /\ nextId = MaxId

Refused(m) ==
  /\ Return(m)
  /\ UNCHANGED <<registryVars, schemaVars, freezeVars, granted, callVars, hostVars>>

(* Mutant: no second look at `frozen' under the lock. *)
MutRegister(m) ==
  /\ pc[m] = "checked" /\ op[m].kind = "register" /\ Unlocked
  /\ LET n == op[m].name
         i == IdFor(n)
     IN  IF Exhausted(n)
           THEN Refused(m)
           ELSE /\ nextId' = IF n \in Live THEN nextId ELSE nextId + 1
                /\ Install(n, i, op[m].wire, NoCap)
                /\ idToName' = [idToName EXCEPT ![i] = n]
                /\ everNamed' = [everNamed EXCEPT ![i] = @ \cup {n}]
                /\ TouchSchema
                /\ Return(m)
                /\ UNCHANGED <<freezeVars, granted, callVars, hostVars>>

Register(m) ==
  /\ pc[m] = "checked" /\ op[m].kind = "register" /\ Unlocked
  /\ LET n == op[m].name
         i == IdFor(n)
     IN  IF frozen \/ Exhausted(n)
           THEN Refused(m)
           ELSE /\ nextId' = IF n \in Live THEN nextId ELSE nextId + 1
                /\ Install(n, i, op[m].wire, NoCap)
                /\ idToName' = [idToName EXCEPT ![i] = n]
                /\ everNamed' = [everNamed EXCEPT ![i] = @ \cup {n}]
                /\ TouchSchema
                /\ Return(m)
                /\ UNCHANGED <<freezeVars, granted, callVars, hostVars>>

Replace(m) ==
  /\ pc[m] = "checked" /\ op[m].kind = "replace" /\ Unlocked
  /\ LET n == op[m].name
     IN  IF frozen \/ n \notin Live
           THEN Refused(m)
           ELSE /\ Install(n, commands[n].id, op[m].wire, commands[n].cap)
                /\ TouchSchema
                /\ Return(m)
                /\ UNCHANGED <<idToName, nextId, everNamed, freezeVars, granted,
                               callVars, hostVars>>

(* Mutant: the aliases of the removed command stay. *)
MutUnregister(m) ==
  /\ pc[m] = "checked" /\ op[m].kind = "unregister" /\ Unlocked
  /\ LET n == op[m].name
     IN  IF frozen \/ n \notin Live
           THEN Refused(m)
           ELSE /\ commands' = [commands EXCEPT ![n] = NoCommand]
                /\ idToName' = [idToName EXCEPT ![commands[n].id] = NoName]
                /\ idToCommand' = [idToCommand EXCEPT ![commands[n].id] = NoCommand]
                /\ TouchSchema
                /\ Return(m)
                /\ UNCHANGED <<nextId, everNamed, freezeVars, granted, callVars, hostVars>>

Unregister(m) ==
  /\ pc[m] = "checked" /\ op[m].kind = "unregister" /\ Unlocked
  /\ LET n == op[m].name
     IN  IF frozen \/ n \notin Live
           THEN Refused(m)
           ELSE /\ commands' = [commands EXCEPT ![n] = NoCommand]
                /\ idToName' = [i \in Ids |-> IF idToName[i] = n THEN NoName ELSE idToName[i]]
                /\ idToCommand' = [i \in Ids |-> IF idToName[i] = n THEN NoCommand
                                                 ELSE idToCommand[i]]
                /\ TouchSchema
                /\ Return(m)
                /\ UNCHANGED <<nextId, everNamed, freezeVars, granted, callVars, hostVars>>

(* Mutant: `frozen' is published before the snapshot is there. *)
MutFreezeFill(m) ==
  /\ pc[m] = "idle" /\ Unlocked /\ ~frozen
  /\ TouchSchema
  /\ frozen' = TRUE
  /\ writer' = m
  /\ pc' = [pc EXCEPT ![m] = "freezing"]
  /\ UNCHANGED <<registryVars, snapshot, granted, op, callVars, hostVars>>

(* freeze holds the write lock while it fills the snapshot and then publishes *)
(* `frozen', which callers read without the lock.                             *)
FreezeFill(m) ==
  /\ pc[m] = "idle" /\ Unlocked /\ ~frozen
  /\ TouchSchema
  /\ snapshot' = Tables
  /\ writer' = m
  /\ pc' = [pc EXCEPT ![m] = "freezing"]
  /\ UNCHANGED <<registryVars, frozen, granted, op, callVars, hostVars>>

FreezePublish(m) ==
  /\ pc[m] = "freezing"
  /\ frozen' = TRUE
  /\ writer' = NoOne
  /\ pc' = [pc EXCEPT ![m] = "idle"]
  /\ UNCHANGED <<registryVars, schemaVars, snapshot, granted, op, callVars, hostVars>>

GrantCapability(cap) ==
  /\ Unlocked
  /\ granted' = granted \cup {cap}
  /\ UNCHANGED <<registryVars, schemaVars, freezeVars, mutatorVars, callVars, hostVars>>

-----------------------------------------------------------------------------
(* run_hot_reload: for each entry of the blob, the signature is compared     *)
(* under the read lock and again by replace_runtime_route under the write    *)
(* lock; only the generation and the cache move.                             *)

HotBegin(m) ==
  /\ pc[m] = "idle" /\ ~frozen
  /\ pc' = [pc EXCEPT ![m] = "hot"]
  /\ UNCHANGED <<registryVars, schemaVars, freezeVars, granted, op, callVars, hostVars>>

HotEntry(m, n, sig) ==
  /\ pc[m] = "hot" /\ Unlocked
  /\ n \in Live /\ Signature(commands[n]) = sig
  /\ pc' = [pc EXCEPT ![m] = "hot_matched"]
  /\ op' = [op EXCEPT ![m] = [kind |-> "hot", name |-> n, sig |-> sig]]
  /\ UNCHANGED <<registryVars, schemaVars, freezeVars, granted, callVars, hostVars>>

SkipEntry(m) ==
  /\ pc' = [pc EXCEPT ![m] = "hot"]
  /\ op' = [op EXCEPT ![m] = [kind |-> "none"]]

(* ensure_mutable of replace_runtime_route, before it locks. *)
HotCheck(m) ==
  /\ pc[m] = "hot_matched"
  /\ IF frozen THEN SkipEntry(m)
               ELSE pc' = [pc EXCEPT ![m] = "hot_checked"] /\ UNCHANGED op
  /\ UNCHANGED <<registryVars, schemaVars, freezeVars, granted, callVars, hostVars>>

(* Mutant: the signature read before the lock is trusted. *)
MutStillMatches(m) == op[m].name \in Live

StillMatches(m) ==
  op[m].name \in Live /\ Signature(commands[op[m].name]) = op[m].sig

ReplaceRuntimeRoute(m) ==
  /\ pc[m] = "hot_checked" /\ Unlocked
  /\ SkipEntry(m)
  /\ IF ~frozen /\ StillMatches(m) THEN TouchSchema ELSE UNCHANGED schemaVars
  /\ UNCHANGED <<registryVars, freezeVars, granted, callVars, hostVars>>

HotEnd(m) ==
  /\ pc[m] = "hot"
  /\ Return(m)
  /\ UNCHANGED <<registryVars, schemaVars, freezeVars, granted, callVars, hostVars>>

-----------------------------------------------------------------------------
(* A call: `frozen' decides where it looks, then it clones the Arc (under the *)
(* read lock unless frozen), checks the capability under the read lock, and   *)
(* runs the handler with no lock held.                                        *)

Invoke(c, t) ==
  /\ callPc[c] = "idle"
  /\ callPc' = [callPc EXCEPT ![c] = IF frozen THEN "snapshot" ELSE "registry"]
  /\ target' = [target EXCEPT ![c] = t]
  /\ UNCHANGED <<registryVars, schemaVars, freezeVars, granted, mutatorVars, running, hostVars>>

Found(tables, t) == IF t.by = "id" THEN tables.byId[t.id] ELSE tables.byName[t.name]

Hangup(c) ==
  /\ callPc' = [callPc EXCEPT ![c] = "idle"]
  /\ target' = [target EXCEPT ![c] = NoTarget]
  /\ running' = [running EXCEPT ![c] = NoCommand]

Lookup(c) ==
  /\ \/ callPc[c] = "snapshot"
     \/ callPc[c] = "registry" /\ Unlocked
  /\ LET command == Found(IF callPc[c] = "snapshot" THEN snapshot ELSE Tables, target[c])
     IN  IF command = NoCommand
           THEN Hangup(c)
           ELSE /\ callPc' = [callPc EXCEPT ![c] = "found"]
                /\ running' = [running EXCEPT ![c] = command]
                /\ UNCHANGED target
  /\ UNCHANGED <<registryVars, schemaVars, freezeVars, granted, mutatorVars, hostVars>>

(* Mutant: only commands the registry still has are checked. *)
MutCapabilitySatisfied(command) ==
  command.cap \in granted \cup {NoCap} \/ \A n \in Names : commands[n] # command

CapabilitySatisfied(command) == command.cap \in granted \cup {NoCap}

CheckCapability(c) ==
  /\ callPc[c] = "found"
  /\ Unlocked \/ running[c].cap = NoCap
  /\ IF CapabilitySatisfied(running[c])
       THEN callPc' = [callPc EXCEPT ![c] = "running"] /\ UNCHANGED <<target, running>>
       ELSE Hangup(c)
  /\ UNCHANGED <<registryVars, schemaVars, freezeVars, granted, mutatorVars, hostVars>>

HandlerReturns(c) ==
  /\ callPc[c] = "running"
  /\ Hangup(c)
  /\ UNCHANGED <<registryVars, schemaVars, freezeVars, granted, mutatorVars, hostVars>>

-----------------------------------------------------------------------------
(* live_schema: the cache under the read lock, or a rebuild under the write  *)
(* lock that looks at the cache again.                                       *)

LiveSchema(h) ==
  /\ hostPc[h] = "idle" /\ Unlocked
  /\ IF cache # NoSchema
       THEN host' = [host EXCEPT ![h] = cache] /\ UNCHANGED hostPc
       ELSE hostPc' = [hostPc EXCEPT ![h] = "rebuild"] /\ UNCHANGED host
  /\ UNCHANGED <<registryVars, schemaVars, freezeVars, granted, mutatorVars, callVars>>

RebuildSchema(h) ==
  /\ hostPc[h] = "rebuild" /\ Unlocked
  /\ cache' = IF cache # NoSchema THEN cache
              ELSE [gen |-> generation, frozen |-> frozen, entries |-> Entries(commands)]
  /\ host' = [host EXCEPT ![h] = cache']
  /\ hostPc' = [hostPc EXCEPT ![h] = "idle"]
  /\ UNCHANGED <<registryVars, generation, freezeVars, granted, mutatorVars, callVars>>

-----------------------------------------------------------------------------
Mutate(m) ==
  \/ \E o \in Ops : o.kind \notin {"none", "hot"} /\ Begin(m, o)
  \/ Register(m) \/ Replace(m) \/ Unregister(m)
  \/ FreezeFill(m) \/ FreezePublish(m)
  \/ HotBegin(m) \/ HotCheck(m) \/ ReplaceRuntimeRoute(m) \/ HotEnd(m)
  \/ \E n \in Names, sig \in Ids \X Wires : HotEntry(m, n, sig)

Call(c) ==
  \/ \E t \in Targets : Invoke(c, t)
  \/ Lookup(c) \/ CheckCapability(c) \/ HandlerReturns(c)

Synchronise(h) == LiveSchema(h) \/ RebuildSchema(h)

Next ==
  \/ \E m \in Mutators : Mutate(m)
  \/ \E c \in Callers : Call(c)
  \/ \E h \in Hosts : Synchronise(h)
  \/ \E cap \in Caps : GrantCapability(cap)

Spec == Init /\ [][Next]_vars

-----------------------------------------------------------------------------
(* The states of every variable. *)
TypeOK ==
  /\ commands \in [Names -> Commands \cup {NoCommand}]
  /\ idToName \in [Ids -> Names \cup {NoName}]
  /\ idToCommand \in [Ids -> Commands \cup {NoCommand}]
  /\ nextId \in Ids
  /\ everNamed \in [Ids -> SUBSET Names]
  /\ granted \subseteq Caps
  /\ generation \in Nat
  /\ cache \in Schemas \cup {NoSchema}
  /\ frozen \in BOOLEAN
  /\ snapshot \in [byName : [Names -> Commands \cup {NoCommand}],
                   byId : [Ids -> Commands \cup {NoCommand}]]
  /\ writer \in Mutators \cup {NoOne}
  /\ pc \in [Mutators -> {"idle", "checked", "freezing", "hot", "hot_matched", "hot_checked"}]
  /\ op \in [Mutators -> Ops]
  /\ callPc \in [Callers -> {"idle", "snapshot", "registry", "found", "running"}]
  /\ target \in [Callers -> Targets \cup {NoTarget}]
  /\ running \in [Callers -> Commands \cup {NoCommand}]
  /\ hostPc \in [Hosts -> {"idle", "rebuild"}]
  /\ host \in [Hosts -> Schemas \cup {NoSchema}]

(* A command is reached by the id its schema publishes, and the id leads to   *)
(* the handler that is installed now: the two maps that register, replace and *)
(* unregister update one after the other agree.                               *)
RealIdsCoherent ==
  \A n \in Live : /\ idToName[commands[n].id] = n
                  /\ idToCommand[commands[n].id] = commands[n]

(* After unregister no id, an alias of an older client included, still leads  *)
(* to the removed command, and none leads to a command that is not there.     *)
NoDanglingIds ==
  \A i \in Ids : /\ (idToName[i] = NoName) <=> (idToCommand[i] = NoCommand)
                 /\ idToName[i] # NoName => idToName[i] \in Live

(* The tables of ids and of Arcs, which every mutation changes one after the  *)
(* other with early returns in between, agree with the commands.              *)
IdTablesCoherent == RealIdsCoherent /\ NoDanglingIds

(* A command id is never given to a second command: retired ids stay retired, *)
(* aliases are never handed out (registry.rs:181-182, 208).                   *)
IdsNeverRebound ==
  \A i \in Ids : \A n1, n2 \in everNamed[i] : n1 = n2

(* The ids of a package do not move: a command is reached by the id its       *)
(* schema publishes, in both maps, and an id never leads to another command   *)
(* than the one it was first given to, by the builder or later.               *)
IdsStable == IdTablesCoherent /\ IdsNeverRebound

(* A call that sees `frozen' and skips the lock finds exactly the registry.   *)
SnapshotCurrent == frozen => snapshot = Tables

(* A cached schema is the schema of the registry as it is, however the reader *)
(* that filled it was delayed.                                                *)
SchemaCacheCurrent ==
  cache # NoSchema =>
    cache = [gen |-> generation, frozen |-> frozen, entries |-> Entries(commands)]

(* A host that compares generations is never fooled: a schema of the current  *)
(* generation has the current commands, and says whether they can change.     *)
GenerationIdentifiesSchema ==
  \A h \in Hosts : host[h] # NoSchema /\ host[h].gen = generation =>
    host[h].entries = Entries(commands) /\ (Unlocked => host[h].frozen = frozen)

(* No handler runs whose capability has not been granted, whatever was        *)
(* replaced or unregistered since the call found it.                          *)
RunsOnlyGranted ==
  \A c \in Callers : callPc[c] = "running" => running[c].cap \in granted \cup {NoCap}

(* What a call uses after it has let go of the lock, or without ever taking   *)
(* it: the snapshot, and the capability of the Arc it holds.                  *)
UnlockedCallsSound == SnapshotCurrent /\ RunsOnlyGranted

(* A schema, cached or with a host, that claims to be current is current.     *)
SchemasCurrent == SchemaCacheCurrent /\ GenerationIdentifiesSchema

(* What `freeze' returned from is final: a mutation that passed its first     *)
(* check before the freeze changes nothing after it (registry.rs:10-12).      *)
FrozenIsFinal ==
  [][frozen => frozen' /\ UNCHANGED <<commands, idToName, idToCommand, nextId,
                                      generation, snapshot>>]_vars

(* An entry a hot reload applies carries the wire contract that is live when  *)
(* it is applied, not the one that was live when it was looked up.            *)
HotReloadKeepsContract ==
  [][\A m \in Mutators :
       pc[m] = "hot_checked" /\ pc'[m] # pc[m] /\ generation' # generation =>
         /\ commands[op[m].name] # NoCommand
         /\ Signature(commands[op[m].name]) = op[m].sig]_vars
(* What a mutator checked outside the lock it changes nothing on: a freeze or *)
(* another mutation in between makes its own change impossible.               *)
RecheckedMutations == FrozenIsFinal /\ HotReloadKeepsContract
===============================================================================
