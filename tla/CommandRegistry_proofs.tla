------------------------ MODULE CommandRegistry_proofs ------------------------
(***************************************************************************)
(* Proofs about CommandRegistry for every set of names, threads, callers   *)
(* and hosts, and for every build PackageBuilder may have produced.        *)
(***************************************************************************)
EXTENDS PackageLife, SequenceTheorems, TLAPS

USE DEF registryVars, schemaVars, freezeVars, mutatorVars, callVars, hostVars

------------------------------------------------------------------------------
(***************************************************************************)
(* Type correctness.                                                       *)
(***************************************************************************)
IdleOp == [kind |-> "none"]

LEMMA IdleOpType == IdleOp \in Ops
  BY DEF IdleOp, Ops

\* What an operation carries, by its kind.
LEMMA OpFields ==
  ASSUME TypeOK, NEW m \in Mutators
  PROVE  /\ op[m].kind \in {"register", "replace"} => op[m].name \in Names /\ op[m].wire \in Wires
         /\ op[m].kind = "unregister" => op[m].name \in Names
  <1>1. op[m] \in Ops
    BY DEF TypeOK
  <1> QED BY <1>1 DEF Ops

LEMMA CommandFields ==
  ASSUME TypeOK, NEW n \in Live
  PROVE  /\ commands[n] \in Commands /\ commands[n] # NoCommand
         /\ commands[n].id \in Ids /\ commands[n].wire \in Wires
         /\ commands[n].cap \in Caps \cup {NoCap}
         /\ n \in Names
  BY DEF TypeOK, Live, Commands

LEMMA EntriesType ==
  ASSUME TypeOK
  PROVE  Entries(commands) \in [Names -> (Ids \X Wires) \cup {NoCommand}]
  <1>1. ASSUME NEW n \in Names, commands[n] # NoCommand
        PROVE  Signature(commands[n]) \in Ids \X Wires
    BY <1>1, CommandFields DEF Live, Signature
  <1> QED BY <1>1 DEF Entries

LEMMA ReturnType ==
  ASSUME TypeOK, NEW m \in Mutators, Return(m)
  PROVE  /\ pc' \in [Mutators -> {"idle", "checked", "freezing", "hot", "hot_matched", "hot_checked"}]
         /\ op' \in [Mutators -> Ops]
  BY IdleOpType DEF TypeOK, Return, IdleOp

LEMMA SkipType ==
  ASSUME TypeOK, NEW m \in Mutators, SkipEntry(m)
  PROVE  /\ pc' \in [Mutators -> {"idle", "checked", "freezing", "hot", "hot_matched", "hot_checked"}]
         /\ op' \in [Mutators -> Ops]
  BY IdleOpType DEF TypeOK, SkipEntry, IdleOp

LEMMA TouchType ==
  ASSUME TypeOK, TouchSchema
  PROVE  cache' \in Schemas \cup {NoSchema} /\ generation' \in Nat
  BY DEF TypeOK, TouchSchema

LEMMA InstallType ==
  ASSUME TypeOK, NEW n \in Names, NEW i \in Ids, NEW wire \in Wires, NEW cap \in Caps \cup {NoCap},
         Install(n, i, wire, cap)
  PROVE  /\ commands' \in [Names -> Commands \cup {NoCommand}]
         /\ idToCommand' \in [Ids -> Commands \cup {NoCommand}]
         /\ \E command \in Commands :
              /\ command = [id |-> i, wire |-> wire, cap |-> cap, stamp |-> generation + 1]
              /\ command # NoCommand
              /\ commands' = [commands EXCEPT ![n] = command]
              /\ idToCommand' = [idToCommand EXCEPT ![i] = command]
  <1> DEFINE command == [id |-> i, wire |-> wire, cap |-> cap, stamp |-> generation + 1]
  <1>1. command \in Commands
    BY DEF TypeOK, Commands
  <1>2. command # NoCommand
    BY <1>1, NullAssumption
  <1> QED BY <1>1, <1>2 DEF Install, TypeOK

\* The id a registration uses, when it is not refused.
LEMMA IdForType ==
  ASSUME TypeOK, NEW n \in Names, ~Exhausted(n)
  PROVE  /\ IdFor(n) \in Ids
         /\ n \notin Live => IdFor(n) = nextId /\ nextId + 1 \in Ids /\ nextId # MaxId
  BY CommandFields, MaxIdAssumption DEF IdFor, Exhausted, TypeOK, Ids

\* A call that is about to look something up knows what.
TargetInv == \A c \in Callers : callPc[c] \in {"snapshot", "registry"} => target[c] \in Targets

LEMMA TypeInit == Init => TypeOK /\ TargetInv
  <1> SUFFICES ASSUME Init PROVE TypeOK /\ TargetInv
    OBVIOUS
  <1>1. PICK b \in Builds :
          /\ commands = b.commands /\ idToName = b.route /\ nextId = b.next
          /\ idToCommand = [i \in Ids |-> IF b.route[i] = NoName THEN NoCommand
                                          ELSE b.commands[b.route[i]]]
          /\ everNamed = [i \in Ids |-> {b.route[i]} \ {NoName}]
    BY DEF Init
  <1>2. WellBuilt(b)
    BY BuildsAssumption
  <1>3. /\ commands \in [Names -> Commands \cup {NoCommand}]
        /\ idToName \in [Ids -> Names \cup {NoName}] /\ nextId \in Ids
    BY <1>1, <1>2 DEF WellBuilt
  <1>4. idToCommand \in [Ids -> Commands \cup {NoCommand}] /\ everNamed \in [Ids -> SUBSET Names]
    BY <1>1, <1>3
  <1>5. snapshot \in [byName : [Names -> Commands \cup {NoCommand}],
                      byId : [Ids -> Commands \cup {NoCommand}]]
    BY <1>3, <1>4 DEF Init, Tables, NoTables
  <1>6. op \in [Mutators -> Ops]
    BY IdleOpType DEF Init, IdleOp
  <1> QED BY <1>3, <1>4, <1>5, <1>6 DEF Init, TypeOK, TargetInv

LEMMA TypeMutate ==
  ASSUME TypeOK, NEW m \in Mutators, Mutate(m) PROVE TypeOK'
  <1>1. ASSUME NEW o \in Ops, Begin(m, o) PROVE TypeOK'
    BY <1>1 DEF Begin, TypeOK
  <1>2. ASSUME Refused(m) PROVE TypeOK'
    BY <1>2, ReturnType DEF Refused, TypeOK
  <1>3. ASSUME Register(m) PROVE TypeOK'
    <2> DEFINE n == op[m].name
               i == IdFor(n)
    <2>1. CASE Refused(m)
      BY <1>2, <2>1
    <2>2. CASE ~(frozen \/ Exhausted(n))
      <3>1. n \in Names /\ op[m].wire \in Wires
        BY <1>3, OpFields DEF Register
      <3>2. i \in Ids /\ nextId' \in Ids
        BY <1>3, <2>2, <3>1, IdForType DEF Register, TypeOK
      <3>3. Install(n, i, op[m].wire, NoCap)
        BY <1>3, <2>2 DEF Register
      <3>4. idToName' \in [Ids -> Names \cup {NoName}] /\ everNamed' \in [Ids -> SUBSET Names]
        <4>1. idToName' = [idToName EXCEPT ![i] = n] /\ everNamed' = [everNamed EXCEPT ![i] = everNamed[i] \cup {n}]
          BY <1>3, <2>2 DEF Register
        <4>2. everNamed[i] \cup {n} \in SUBSET Names
          BY <3>1, <3>2 DEF TypeOK
        <4> QED BY <3>1, <4>1, <4>2 DEF TypeOK
      <3>5. Return(m) /\ TouchSchema /\ UNCHANGED <<freezeVars, granted, callVars, hostVars>>
        BY <1>3, <2>2 DEF Register
      <3> QED BY <3>1, <3>2, <3>3, <3>4, <3>5, InstallType, ReturnType, TouchType DEF TypeOK
    <2> QED BY <1>3, <2>1, <2>2 DEF Register
  <1>4. ASSUME Replace(m) PROVE TypeOK'
    <2> DEFINE n == op[m].name
    <2>1. CASE Refused(m)
      BY <1>2, <2>1
    <2>2. CASE ~(frozen \/ n \notin Live)
      <3>1. n \in Live /\ op[m].wire \in Wires
        BY <1>4, <2>2, OpFields DEF Replace
      <3>2. Install(n, commands[n].id, op[m].wire, commands[n].cap)
        BY <1>4, <2>2 DEF Replace
      <3>3. /\ commands' \in [Names -> Commands \cup {NoCommand}]
            /\ idToCommand' \in [Ids -> Commands \cup {NoCommand}]
        BY <3>1, <3>2, InstallType, CommandFields
      <3>4. /\ Return(m) /\ TouchSchema
            /\ UNCHANGED <<idToName, nextId, everNamed, freezeVars, granted, callVars, hostVars>>
        BY <1>4, <2>2 DEF Replace
      <3> QED BY <3>3, <3>4, ReturnType, TouchType DEF TypeOK
    <2> QED BY <1>4, <2>1, <2>2 DEF Replace
  <1>5. ASSUME Unregister(m) PROVE TypeOK'
    <2>1. CASE Refused(m)
      BY <1>2, <2>1
    <2>2. CASE ~(frozen \/ op[m].name \notin Live)
      <3>1. /\ commands' \in [Names -> Commands \cup {NoCommand}]
            /\ idToName' \in [Ids -> Names \cup {NoName}]
            /\ idToCommand' \in [Ids -> Commands \cup {NoCommand}]
        BY <1>5, <2>2 DEF Unregister, TypeOK
      <3>2. /\ Return(m) /\ TouchSchema
            /\ UNCHANGED <<nextId, everNamed, freezeVars, granted, callVars, hostVars>>
        BY <1>5, <2>2 DEF Unregister
      <3> QED BY <3>1, <3>2, ReturnType, TouchType DEF TypeOK
    <2> QED BY <1>5, <2>1, <2>2 DEF Unregister
  <1>6. ASSUME FreezeFill(m) PROVE TypeOK'
    <2>1. snapshot' \in [byName : [Names -> Commands \cup {NoCommand}],
                         byId : [Ids -> Commands \cup {NoCommand}]]
      BY <1>6 DEF FreezeFill, Tables, TypeOK
    <2> QED BY <1>6, <2>1, TouchType DEF FreezeFill, TypeOK
  <1>7. ASSUME FreezePublish(m) PROVE TypeOK'
    BY <1>7 DEF FreezePublish, TypeOK
  <1>8. ASSUME HotBegin(m) PROVE TypeOK'
    BY <1>8 DEF HotBegin, TypeOK
  <1>9. ASSUME NEW n \in Names, NEW sig \in Ids \X Wires, HotEntry(m, n, sig) PROVE TypeOK'
    <2>1. [kind |-> "hot", name |-> n, sig |-> sig] \in Ops
      BY DEF Ops
    <2> QED BY <1>9, <2>1 DEF HotEntry, TypeOK
  <1>10. ASSUME HotCheck(m) PROVE TypeOK'
    BY <1>10, SkipType DEF HotCheck, TypeOK
  <1>11. ASSUME ReplaceRuntimeRoute(m) PROVE TypeOK'
    <2>1. cache' \in Schemas \cup {NoSchema} /\ generation' \in Nat
      BY <1>11, TouchType DEF ReplaceRuntimeRoute, TypeOK
    <2> QED BY <1>11, <2>1, SkipType DEF ReplaceRuntimeRoute, TypeOK
  <1>12. ASSUME HotEnd(m) PROVE TypeOK'
    BY <1>12, ReturnType DEF HotEnd, TypeOK
  <1> QED BY <1>1, <1>3, <1>4, <1>5, <1>6, <1>7, <1>8, <1>9, <1>10, <1>11, <1>12 DEF Mutate

LEMMA TypeCall ==
  ASSUME TypeOK, TargetInv, NEW c \in Callers, Call(c) PROVE TypeOK' /\ TargetInv'
  <1>1. ASSUME NEW t \in Targets, Invoke(c, t) PROVE TypeOK' /\ TargetInv'
    BY <1>1 DEF Invoke, TypeOK, TargetInv
  <1>2. ASSUME Hangup(c)
        PROVE  /\ callPc' \in [Callers -> {"idle", "snapshot", "registry", "found", "running"}]
               /\ target' \in [Callers -> Targets \cup {NoTarget}]
               /\ running' \in [Callers -> Commands \cup {NoCommand}]
               /\ TargetInv'
    BY <1>2 DEF Hangup, TypeOK, TargetInv
  <1>3. ASSUME Lookup(c) PROVE TypeOK' /\ TargetInv'
    <2> DEFINE tables == IF callPc[c] = "snapshot" THEN snapshot ELSE Tables
               command == Found(tables, target[c])
    <2>1. CASE Hangup(c)
      BY <1>2, <1>3, <2>1 DEF Lookup, TypeOK
    <2>2. CASE command # NoCommand
      <3>1. target[c] \in Targets
        BY <1>3 DEF Lookup, TargetInv
      <3>2. tables \in [byName : [Names -> Commands \cup {NoCommand}],
                        byId : [Ids -> Commands \cup {NoCommand}]]
        BY DEF TypeOK, Tables
      <3>3. command \in Commands \cup {NoCommand}
        BY <3>1, <3>2 DEF Found, Targets
      <3>4. /\ callPc' = [callPc EXCEPT ![c] = "found"]
            /\ running' = [running EXCEPT ![c] = command]
            /\ UNCHANGED target
        BY <1>3, <2>2 DEF Lookup
      <3> QED BY <1>3, <3>3, <3>4 DEF Lookup, TypeOK, TargetInv
    <2> QED BY <1>3, <2>1, <2>2 DEF Lookup
  <1>4. ASSUME CheckCapability(c) PROVE TypeOK' /\ TargetInv'
    BY <1>2, <1>4 DEF CheckCapability, TypeOK, TargetInv
  <1>5. ASSUME HandlerReturns(c) PROVE TypeOK' /\ TargetInv'
    BY <1>2, <1>5 DEF HandlerReturns, TypeOK
  <1> QED BY <1>1, <1>3, <1>4, <1>5 DEF Call

LEMMA TypeHost ==
  ASSUME TypeOK, NEW h \in Hosts, Synchronise(h) PROVE TypeOK'
  <1>1. ASSUME LiveSchema(h) PROVE TypeOK'
    BY <1>1 DEF LiveSchema, TypeOK
  <1>2. ASSUME RebuildSchema(h) PROVE TypeOK'
    <2>1. [gen |-> generation, frozen |-> frozen, entries |-> Entries(commands)] \in Schemas
      BY EntriesType DEF TypeOK, Schemas
    <2> QED BY <1>2, <2>1 DEF RebuildSchema, TypeOK
  <1> QED BY <1>1, <1>2 DEF Synchronise

\* What a step that is no call leaves alone.
LEMMA CallsUntouched ==
  ASSUME \/ \E m \in Mutators : Mutate(m)
         \/ \E h \in Hosts : Synchronise(h)
         \/ \E cap \in Caps : GrantCapability(cap)
         \/ UNCHANGED vars
  PROVE  UNCHANGED <<callPc, target, running>>
  BY DEF Mutate, Begin, Register, Replace, Unregister, Refused, FreezeFill, FreezePublish, HotBegin,
         HotEntry, HotCheck, ReplaceRuntimeRoute, HotEnd, Synchronise, LiveSchema, RebuildSchema,
         GrantCapability, vars

LEMMA TypeStep == TypeOK /\ TargetInv /\ [Next]_vars => TypeOK' /\ TargetInv'
  <1> SUFFICES ASSUME TypeOK, TargetInv, [Next]_vars PROVE TypeOK' /\ TargetInv'
    OBVIOUS
  <1>1. ASSUME UNCHANGED <<callPc, target, running>> PROVE TargetInv'
    BY <1>1 DEF TargetInv
  <1>2. ASSUME NEW cap \in Caps, GrantCapability(cap) PROVE TypeOK'
    BY <1>2 DEF GrantCapability, TypeOK
  <1>3. CASE UNCHANGED vars
    <2>1. TypeOK'
      BY <1>3 DEF vars, TypeOK
    <2> QED BY <1>1, <1>3, <2>1, CallsUntouched
  <1> QED BY <1>1, <1>2, <1>3, TypeMutate, TypeCall, TypeHost, CallsUntouched DEF Next

\* Every variable keeps its type; no id is ever past the sentinel.
THEOREM TypeCorrect == Spec => []TypeOK
  BY TypeInit, TypeStep, PTL DEF Spec

------------------------------------------------------------------------------
(***************************************************************************)
(* The inductive invariant.  The registry part: ids that were ever used    *)
(* lie below next_command_id, so that a fresh one rebinds nothing.  The    *)
(* freeze part: while a thread holds the write lock of `freeze' the        *)
(* snapshot is the registry and no schema of this generation exists.       *)
(***************************************************************************)
IdsInv ==
  /\ \A i \in Ids : idToName[i] # NoName => idToName[i] \in everNamed[i]
  /\ \A i \in Ids : everNamed[i] # {} => i < nextId \/ nextId = MaxId

RegistryInv == RealIdsCoherent /\ NoDanglingIds /\ IdsNeverRebound /\ IdsInv

FreezeInv ==
  /\ \A m \in Mutators : pc[m] = "freezing" => writer = m
  /\ writer # NoOne =>
       /\ ~frozen /\ snapshot = Tables /\ cache = NoSchema
       /\ \A h \in Hosts : host[h] # NoSchema => host[h].gen < generation
  /\ SnapshotCurrent

SchemaInv ==
  /\ SchemaCacheCurrent /\ GenerationIdentifiesSchema
  /\ \A h \in Hosts : host[h] # NoSchema => host[h].gen <= generation

IInv == TypeOK /\ TargetInv /\ RegistryInv /\ FreezeInv /\ SchemaInv /\ RunsOnlyGranted

LEMMA IInvInit == Init => IInv
  <1> SUFFICES ASSUME Init PROVE IInv
    OBVIOUS
  <1>1. PICK b \in Builds :
          /\ commands = b.commands /\ idToName = b.route /\ nextId = b.next
          /\ idToCommand = [i \in Ids |-> IF b.route[i] = NoName THEN NoCommand
                                          ELSE b.commands[b.route[i]]]
          /\ everNamed = [i \in Ids |-> {b.route[i]} \ {NoName}]
    BY DEF Init
  <1>2. WellBuilt(b)
    BY BuildsAssumption
  <1>3. TypeOK /\ TargetInv
    BY TypeInit
  <1>4. RealIdsCoherent
    <2> SUFFICES ASSUME NEW n \in Live
                 PROVE  idToName[commands[n].id] = n /\ idToCommand[commands[n].id] = commands[n]
      BY DEF RealIdsCoherent
    <2>1. commands[n].id \in Ids /\ n \in Names /\ commands[n] # NoCommand
      BY <1>3, CommandFields
    <2> QED BY <1>1, <1>2, <2>1, NamesAssumption DEF WellBuilt
  <1>5. NoDanglingIds
    <2> SUFFICES ASSUME NEW i \in Ids
                 PROVE  /\ (idToName[i] = NoName) <=> (idToCommand[i] = NoCommand)
                        /\ idToName[i] # NoName => idToName[i] \in Live
      BY DEF NoDanglingIds
    <2>1. idToName[i] # NoName => idToName[i] \in Names /\ commands[idToName[i]] # NoCommand
      BY <1>1, <1>2, <1>3 DEF WellBuilt, TypeOK
    <2> QED BY <1>1, <2>1 DEF Live
  <1>6. IdsNeverRebound
    BY <1>1 DEF IdsNeverRebound
  <1>7. IdsInv
    BY <1>1, <1>2 DEF IdsInv, WellBuilt
  <1>8. FreezeInv /\ SchemaInv /\ RunsOnlyGranted
    BY DEF Init, FreezeInv, SchemaInv, RunsOnlyGranted, SnapshotCurrent, SchemaCacheCurrent,
           GenerationIdentifiesSchema
  <1> QED BY <1>3, <1>4, <1>5, <1>6, <1>7, <1>8 DEF IInv, RegistryInv

------------------------------------------------------------------------------
(***************************************************************************)
(* The three structural mutations.                                         *)
(***************************************************************************)
\* What every structural mutation does to the rest of the state.
LEMMA MutationRest ==
  ASSUME IInv, NEW m \in Mutators, Unlocked, ~frozen, TouchSchema, Return(m),
         UNCHANGED <<freezeVars, granted, callVars, hostVars>>
  PROVE  FreezeInv' /\ SchemaInv' /\ RunsOnlyGranted'
  <1>1. FreezeInv'
    BY DEF IInv, TypeOK, FreezeInv, Unlocked, Return, SnapshotCurrent
  <1>2. SchemaInv'
    <2>1. \A h \in Hosts : host[h] # NoSchema => host[h].gen < generation + 1
      BY DEF IInv, SchemaInv, TypeOK, Schemas
    <2> QED BY <2>1 DEF IInv, TypeOK, SchemaInv, TouchSchema, SchemaCacheCurrent,
                        GenerationIdentifiesSchema, Schemas
  <1>3. RunsOnlyGranted'
    BY DEF IInv, RunsOnlyGranted
  <1> QED BY <1>1, <1>2, <1>3

\* Installing a command under an id that is its own, or that nobody ever had.
LEMMA InstallKeeps ==
  ASSUME IInv, NEW n \in Names, NEW i \in Ids, NEW wire \in Wires, NEW cap \in Caps \cup {NoCap},
         Install(n, i, wire, cap),
         \/ n \in Live /\ i = commands[n].id
         \/ n \notin Live /\ idToName[i] = NoName,
         idToName' = [idToName EXCEPT ![i] = n]
  PROVE  RealIdsCoherent' /\ NoDanglingIds'
  <1>1. PICK command \in Commands :
          /\ command.id = i /\ command # NoCommand
          /\ commands' = [commands EXCEPT ![n] = command]
          /\ idToCommand' = [idToCommand EXCEPT ![i] = command]
    BY InstallType DEF IInv
  <1>2. \A x \in Names : commands'[x] = IF x = n THEN command ELSE commands[x]
    BY <1>1 DEF IInv, TypeOK
  <1>3. \A j \in Ids : /\ idToCommand'[j] = IF j = i THEN command ELSE idToCommand[j]
                      /\ idToName'[j] = IF j = i THEN n ELSE idToName[j]
    BY <1>1 DEF IInv, TypeOK
  <1>4. Live' = Live \cup {n}
    BY <1>1, <1>2 DEF Live
  <1>5. ASSUME NEW x \in Live, x # n PROVE commands[x].id \in Ids /\ commands[x].id # i
    <2>1. commands[x].id \in Ids /\ x \in Names
      BY CommandFields DEF IInv
    <2>2. idToName[commands[x].id] = x
      BY DEF IInv, RegistryInv, RealIdsCoherent
    <2>3. idToName[i] \in {n, NoName}
      BY DEF IInv, RegistryInv, RealIdsCoherent
    <2> QED BY <1>5, <2>1, <2>2, <2>3, NamesAssumption
  <1>6. RealIdsCoherent'
    <2> SUFFICES ASSUME NEW x \in Live'
                 PROVE  idToName'[commands'[x].id] = x /\ idToCommand'[commands'[x].id] = commands'[x]
      BY DEF RealIdsCoherent
    <2>1. CASE x = n
      BY <1>1, <1>2, <1>3, <2>1
    <2>2. CASE x # n
      <3>1. x \in Live /\ x \in Names
        BY <1>4, <2>2 DEF Live
      <3> QED BY <1>2, <1>3, <1>5, <2>2, <3>1 DEF IInv, RegistryInv, RealIdsCoherent
    <2> QED BY <2>1, <2>2
  <1>7. NoDanglingIds'
    <2> SUFFICES ASSUME NEW j \in Ids
                 PROVE  /\ (idToName'[j] = NoName) <=> (idToCommand'[j] = NoCommand)
                        /\ idToName'[j] # NoName => idToName'[j] \in Live'
      BY DEF NoDanglingIds
    <2> QED BY <1>1, <1>3, <1>4, NamesAssumption DEF IInv, RegistryInv, NoDanglingIds
  <1> QED BY <1>6, <1>7

LEMMA RegisterStep ==
  ASSUME IInv, NEW m \in Mutators, Register(m), ~Refused(m)
  PROVE  RegistryInv' /\ FreezeInv' /\ SchemaInv' /\ RunsOnlyGranted'
  <1> DEFINE n == op[m].name
             i == IdFor(n)
  <1>1. /\ Unlocked /\ ~frozen /\ ~Exhausted(n)
        /\ nextId' = (IF n \in Live THEN nextId ELSE nextId + 1)
        /\ Install(n, i, op[m].wire, NoCap)
        /\ idToName' = [idToName EXCEPT ![i] = n]
        /\ everNamed' = [everNamed EXCEPT ![i] = everNamed[i] \cup {n}]
        /\ TouchSchema /\ Return(m)
        /\ UNCHANGED <<freezeVars, granted, callVars, hostVars>>
    BY DEF Register
  <1>2. n \in Names /\ op[m].wire \in Wires
    BY OpFields DEF Register, IInv
  <1>3. i \in Ids /\ (n \notin Live => i = nextId /\ nextId # MaxId)
    BY <1>1, <1>2, IdForType DEF IInv
  <1>4. n \in Live => i = commands[n].id /\ idToName[i] = n
    BY DEF IdFor, IInv, RegistryInv, RealIdsCoherent
  <1>5. everNamed[i] \subseteq {n}
    <2>1. CASE n \in Live
      <3>1. n \in everNamed[i]
        BY <1>2, <1>3, <1>4, <2>1, NamesAssumption DEF IInv, RegistryInv, IdsInv
      <3> QED BY <1>3, <3>1 DEF IInv, RegistryInv, IdsNeverRebound
    <2>2. CASE n \notin Live
      <3>1. ~(nextId < nextId)
        BY DEF IInv, TypeOK, Ids
      <3> QED BY <1>3, <2>2, <3>1 DEF IInv, RegistryInv, IdsInv
    <2> QED BY <2>1, <2>2
  <1>6. n \notin Live => idToName[i] = NoName
    BY <1>3, <1>5, <1>2 DEF IInv, RegistryInv, IdsInv, NoDanglingIds
  <1>7. RealIdsCoherent' /\ NoDanglingIds'
    BY <1>1, <1>2, <1>3, <1>4, <1>6, InstallKeeps
  <1>8. \A j \in Ids : /\ everNamed'[j] = IF j = i THEN {n} ELSE everNamed[j]
                      /\ idToName'[j] = IF j = i THEN n ELSE idToName[j]
    BY <1>1, <1>3, <1>5 DEF IInv, TypeOK
  <1>9. IdsNeverRebound'
    BY <1>8 DEF IInv, RegistryInv, IdsNeverRebound
  <1>10. IdsInv'
    <2>1. \A j \in Ids : idToName'[j] # NoName => idToName'[j] \in everNamed'[j]
      BY <1>8 DEF IInv, RegistryInv, IdsInv
    <2>2. i < nextId' \/ nextId' = MaxId
      <3>1. CASE n \in Live
        <4>1. n \in everNamed[i] /\ nextId' = nextId
          BY <1>1, <1>2, <1>3, <1>4, <3>1, NamesAssumption DEF IInv, RegistryInv, IdsInv
        <4> QED BY <1>3, <4>1 DEF IInv, RegistryInv, IdsInv
      <3>2. CASE n \notin Live
        BY <1>1, <1>3, <3>2 DEF Ids
      <3> QED BY <3>1, <3>2
    <2>3. ASSUME NEW j \in Ids, everNamed[j] # {} PROVE j < nextId' \/ nextId' = MaxId
      <3>1. j < nextId \/ nextId = MaxId
        BY <2>3 DEF IInv, RegistryInv, IdsInv
      <3>2. nextId \in Int /\ j \in Int
        BY DEF IInv, TypeOK, Ids
      <3> QED BY <1>1, <1>3, <3>1, <3>2
    <2> QED BY <1>8, <2>1, <2>2, <2>3 DEF IdsInv
  <1> QED BY <1>1, <1>7, <1>9, <1>10, MutationRest DEF RegistryInv

LEMMA ReplaceStep ==
  ASSUME IInv, NEW m \in Mutators, Replace(m), ~Refused(m)
  PROVE  RegistryInv' /\ FreezeInv' /\ SchemaInv' /\ RunsOnlyGranted'
  <1> DEFINE n == op[m].name
             i == commands[n].id
  <1>1. /\ Unlocked /\ ~frozen /\ n \in Live
        /\ Install(n, i, op[m].wire, commands[n].cap)
        /\ TouchSchema /\ Return(m)
        /\ UNCHANGED <<idToName, nextId, everNamed>>
        /\ UNCHANGED <<freezeVars, granted, callVars, hostVars>>
    BY DEF Replace
  <1>2. /\ n \in Names /\ i \in Ids /\ commands[n].cap \in Caps \cup {NoCap}
        /\ op[m].wire \in Wires
    BY <1>1, OpFields, CommandFields DEF Replace, IInv
  <1>3. idToName[i] = n
    BY <1>1 DEF IInv, RegistryInv, RealIdsCoherent
  <1>4. idToName' = [idToName EXCEPT ![i] = n]
    BY <1>1, <1>3 DEF IInv, TypeOK
  <1>5. RealIdsCoherent' /\ NoDanglingIds'
    BY <1>1, <1>2, <1>4, InstallKeeps
  <1>6. IdsNeverRebound' /\ IdsInv'
    BY <1>1 DEF IInv, RegistryInv, IdsNeverRebound, IdsInv
  <1> QED BY <1>1, <1>5, <1>6, MutationRest DEF RegistryInv

LEMMA UnregisterStep ==
  ASSUME IInv, NEW m \in Mutators, Unregister(m), ~Refused(m)
  PROVE  RegistryInv' /\ FreezeInv' /\ SchemaInv' /\ RunsOnlyGranted'
  <1> DEFINE n == op[m].name
  <1>1. /\ Unlocked /\ ~frozen /\ n \in Live
        /\ commands' = [commands EXCEPT ![n] = NoCommand]
        /\ idToName' = [i \in Ids |-> IF idToName[i] = n THEN NoName ELSE idToName[i]]
        /\ idToCommand' = [i \in Ids |-> IF idToName[i] = n THEN NoCommand ELSE idToCommand[i]]
        /\ TouchSchema /\ Return(m)
        /\ UNCHANGED <<nextId, everNamed>> /\ UNCHANGED <<freezeVars, granted, callVars, hostVars>>
    BY DEF Unregister
  <1>2. \A x \in Names : commands'[x] = IF x = n THEN NoCommand ELSE commands[x]
    BY <1>1 DEF IInv, TypeOK
  <1>3. Live' = Live \ {n}
    BY <1>2 DEF Live
  <1>4. RealIdsCoherent'
    <2> SUFFICES ASSUME NEW x \in Live'
                 PROVE  idToName'[commands'[x].id] = x /\ idToCommand'[commands'[x].id] = commands'[x]
      BY DEF RealIdsCoherent
    <2>1. x \in Live /\ x # n /\ commands'[x] = commands[x] /\ commands[x].id \in Ids
      BY <1>2, <1>3, CommandFields DEF IInv, Live
    <2>2. idToName[commands[x].id] = x /\ idToCommand[commands[x].id] = commands[x]
      BY <2>1 DEF IInv, RegistryInv, RealIdsCoherent
    <2> QED BY <1>1, <2>1, <2>2
  <1>5. NoDanglingIds'
    BY <1>1, <1>3 DEF IInv, RegistryInv, NoDanglingIds
  <1>6. IdsNeverRebound' /\ IdsInv'
    BY <1>1 DEF IInv, RegistryInv, IdsNeverRebound, IdsInv
  <1> QED BY <1>1, <1>4, <1>5, <1>6, MutationRest DEF RegistryInv

------------------------------------------------------------------------------
(***************************************************************************)
(* The other steps, and the theorems.                                      *)
(***************************************************************************)
\* A step that leaves the registry alone.
LEMMA RegistryKept ==
  ASSUME IInv, UNCHANGED registryVars PROVE RegistryInv'
  BY DEF IInv, RegistryInv, RealIdsCoherent, NoDanglingIds, IdsNeverRebound, IdsInv, Live

\* A step that leaves the registry, the schema, the hosts and the lock alone
\* and moves no mutator into the middle of `freeze'.
LEMMA FreezeKept ==
  ASSUME IInv, UNCHANGED <<registryVars, schemaVars, freezeVars, hostVars>>,
         \A m \in Mutators : pc'[m] = "freezing" => pc[m] = "freezing"
  PROVE  RegistryInv' /\ FreezeInv' /\ SchemaInv'
  <1>1. FreezeInv'
    BY DEF IInv, FreezeInv, SnapshotCurrent, Tables
  <1>2. SchemaInv'
    BY DEF IInv, SchemaInv, SchemaCacheCurrent, GenerationIdentifiesSchema, Unlocked
  <1> QED BY <1>1, <1>2, RegistryKept

LEMMA RunsKept ==
  ASSUME IInv, UNCHANGED <<granted, callPc, running>> PROVE RunsOnlyGranted'
  BY DEF IInv, RunsOnlyGranted

LEMMA FreezeFillStep ==
  ASSUME IInv, NEW m \in Mutators, FreezeFill(m) PROVE FreezeInv' /\ SchemaInv'
  <1>1. \A h \in Hosts : host[h] # NoSchema => host[h].gen < generation'
    BY DEF IInv, SchemaInv, TypeOK, Schemas, FreezeFill, TouchSchema
  <1>2. FreezeInv'
    <2>1. \A x \in Mutators : pc'[x] = "freezing" => writer' = x
      BY NullAssumption DEF IInv, TypeOK, FreezeInv, FreezeFill, Unlocked
    <2>2. ~frozen' /\ snapshot' = Tables' /\ cache' = NoSchema /\ UNCHANGED host
      BY DEF FreezeFill, TouchSchema, Tables
    <2> QED BY <1>1, <2>1, <2>2 DEF FreezeInv, SnapshotCurrent
  <1>3. SchemaInv'
    BY <1>1 DEF IInv, TypeOK, SchemaInv, FreezeFill, TouchSchema, SchemaCacheCurrent,
                GenerationIdentifiesSchema, Schemas
  <1> QED BY <1>2, <1>3

LEMMA FreezePublishStep ==
  ASSUME IInv, NEW m \in Mutators, FreezePublish(m) PROVE FreezeInv' /\ SchemaInv'
  <1>1. /\ writer = m /\ m # NoOne /\ snapshot = Tables /\ cache = NoSchema
        /\ \A h \in Hosts : host[h] # NoSchema => host[h].gen < generation
    BY NullAssumption DEF IInv, FreezeInv, FreezePublish
  <1>2. FreezeInv'
    BY <1>1 DEF IInv, TypeOK, FreezeInv, FreezePublish, Tables, SnapshotCurrent
  <1>3. SchemaInv'
    <2>1. UNCHANGED <<commands, generation, cache, host>>
      BY DEF FreezePublish
    <2>2. \A h \in Hosts : host[h] # NoSchema => host[h].gen <= generation /\ host[h].gen # generation
      BY <1>1 DEF IInv, TypeOK, Schemas
    <2> QED BY <1>1, <2>1, <2>2 DEF SchemaInv, SchemaCacheCurrent, GenerationIdentifiesSchema
  <1> QED BY <1>2, <1>3

LEMMA RouteStep ==
  ASSUME IInv, NEW m \in Mutators, ReplaceRuntimeRoute(m) PROVE FreezeInv' /\ SchemaInv'
  <1>1. \A x \in Mutators : pc'[x] = "freezing" => pc[x] = "freezing"
    BY DEF ReplaceRuntimeRoute, SkipEntry, IInv, TypeOK
  <1>2. CASE UNCHANGED schemaVars
    BY <1>1, <1>2, FreezeKept DEF ReplaceRuntimeRoute
  <1>3. CASE TouchSchema
    <2>1. \A h \in Hosts : host[h] # NoSchema => host[h].gen < generation'
      BY <1>3 DEF IInv, SchemaInv, TypeOK, Schemas, TouchSchema
    <2>2. FreezeInv'
      BY <1>1 DEF IInv, FreezeInv, ReplaceRuntimeRoute, Unlocked, Tables, SnapshotCurrent
    <2>3. SchemaInv'
      BY <1>3, <2>1 DEF IInv, TypeOK, SchemaInv, ReplaceRuntimeRoute, TouchSchema,
                  SchemaCacheCurrent, GenerationIdentifiesSchema, Schemas
    <2> QED BY <2>2, <2>3
  <1> QED BY <1>2, <1>3 DEF ReplaceRuntimeRoute

LEMMA MutateStep ==
  ASSUME IInv, NEW m \in Mutators, Mutate(m)
  PROVE  RegistryInv' /\ FreezeInv' /\ SchemaInv' /\ RunsOnlyGranted'
  <1>1. UNCHANGED <<granted, callPc, running>> \/ Register(m) \/ Replace(m) \/ Unregister(m)
    BY DEF Mutate, Begin, FreezeFill, FreezePublish, HotBegin, HotEntry, HotCheck,
           ReplaceRuntimeRoute, HotEnd
  <1>2. ASSUME Refused(m) PROVE RegistryInv' /\ FreezeInv' /\ SchemaInv' /\ RunsOnlyGranted'
    BY <1>2, FreezeKept, RunsKept DEF Refused, Return, IInv, TypeOK
  <1>3. ASSUME NEW o \in Ops, Begin(m, o)
        PROVE  RegistryInv' /\ FreezeInv' /\ SchemaInv' /\ RunsOnlyGranted'
    BY <1>3, FreezeKept, RunsKept DEF Begin, IInv, TypeOK
  <1>4. CASE FreezeFill(m)
    BY <1>4, FreezeFillStep, RegistryKept, RunsKept DEF FreezeFill
  <1>5. CASE FreezePublish(m)
    BY <1>5, FreezePublishStep, RegistryKept, RunsKept DEF FreezePublish
  <1>6. CASE HotBegin(m) \/ HotCheck(m) \/ HotEnd(m)
    BY <1>6, FreezeKept, RunsKept DEF HotBegin, HotCheck, HotEnd, SkipEntry, Return, IInv, TypeOK
  <1>7. ASSUME NEW n \in Names, NEW sig \in Ids \X Wires, HotEntry(m, n, sig)
        PROVE  RegistryInv' /\ FreezeInv' /\ SchemaInv' /\ RunsOnlyGranted'
    BY <1>7, FreezeKept, RunsKept DEF HotEntry, IInv, TypeOK
  <1>8. CASE ReplaceRuntimeRoute(m)
    BY <1>8, RouteStep, RegistryKept, RunsKept DEF ReplaceRuntimeRoute
  <1>9. CASE Register(m) \/ Replace(m) \/ Unregister(m)
    BY <1>2, <1>9, RegisterStep, ReplaceStep, UnregisterStep
  <1> QED BY <1>3, <1>4, <1>5, <1>6, <1>7, <1>8, <1>9 DEF Mutate

LEMMA CallStep ==
  ASSUME IInv, NEW c \in Callers, Call(c)
  PROVE  RegistryInv' /\ FreezeInv' /\ SchemaInv' /\ RunsOnlyGranted'
  <1>1. UNCHANGED <<registryVars, schemaVars, freezeVars, granted, mutatorVars, hostVars>>
    BY DEF Call, Invoke, Lookup, CheckCapability, HandlerReturns
  <1>2. RunsOnlyGranted'
    BY DEF Call, Invoke, Lookup, CheckCapability, HandlerReturns, Hangup, CapabilitySatisfied,
           IInv, TypeOK, RunsOnlyGranted
  <1> QED BY <1>1, <1>2, FreezeKept

LEMMA HostStep ==
  ASSUME IInv, NEW h \in Hosts, Synchronise(h)
  PROVE  RegistryInv' /\ FreezeInv' /\ SchemaInv' /\ RunsOnlyGranted'
  <1> DEFINE current == [gen |-> generation, frozen |-> frozen, entries |-> Entries(commands)]
  <1>1. UNCHANGED <<registryVars, generation, freezeVars, granted, mutatorVars, callVars>>
        /\ writer = NoOne
    BY DEF Synchronise, LiveSchema, RebuildSchema, Unlocked
  <1>2. cache \in {NoSchema, current}
    BY DEF IInv, SchemaInv, SchemaCacheCurrent
  <1>3. cache' \in {cache, current} /\ (host' = host \/ host' = [host EXCEPT ![h] = current])
    BY <1>2 DEF Synchronise, LiveSchema, RebuildSchema
  <1>4. SchemaInv'
    <2>1. SchemaCacheCurrent'
      BY <1>1, <1>2, <1>3 DEF SchemaCacheCurrent
    <2>2. \A x \in Hosts : host'[x] # NoSchema => host'[x] = host[x] \/ host'[x] = current
      BY <1>3 DEF IInv, TypeOK
    <2>3. ASSUME NEW x \in Hosts, host'[x] # NoSchema
          PROVE  /\ host'[x].gen <= generation
                 /\ host'[x].gen = generation =>
                      host'[x].entries = Entries(commands) /\ host'[x].frozen = frozen
      <3>1. CASE host'[x] = current
        BY <3>1 DEF IInv, TypeOK
      <3>2. CASE host'[x] = host[x]
        BY <1>1, <2>3, <3>2 DEF IInv, SchemaInv, GenerationIdentifiesSchema, Unlocked
      <3> QED BY <2>2, <2>3, <3>1, <3>2
    <2> QED BY <1>1, <2>1, <2>3 DEF SchemaInv, GenerationIdentifiesSchema
  <1>5. FreezeInv'
    BY <1>1 DEF IInv, FreezeInv, SnapshotCurrent, Tables
  <1> QED BY <1>1, <1>4, <1>5, RegistryKept, RunsKept

LEMMA IInvStep == IInv /\ [Next]_vars => IInv'
  <1> SUFFICES ASSUME IInv, [Next]_vars PROVE IInv'
    OBVIOUS
  <1>1. TypeOK' /\ TargetInv'
    BY TypeStep DEF IInv
  <1>2. ASSUME NEW cap \in Caps, GrantCapability(cap) PROVE IInv'
    <2>1. RunsOnlyGranted'
      BY <1>2 DEF GrantCapability, IInv, RunsOnlyGranted
    <2> QED BY <1>1, <1>2, <2>1, FreezeKept DEF GrantCapability, IInv
  <1>3. CASE UNCHANGED vars
    BY <1>1, <1>3, FreezeKept, RunsKept DEF vars, IInv
  <1> QED BY <1>1, <1>2, <1>3, MutateStep, CallStep, HostStep DEF Next, IInv

LEMMA Inductive == Spec => []IInv
  BY IInvInit, IInvStep, PTL DEF Spec

\* Under its published id every command is reached, in its latest version.
THEOREM RealIdsAlwaysCoherent == Spec => []RealIdsCoherent
  <1>1. IInv => RealIdsCoherent
    BY DEF IInv, RegistryInv
  <1> QED BY <1>1, Inductive, PTL

\* No id, alias or real, leads to a command that was removed.
THEOREM NeverDangling == Spec => []NoDanglingIds
  <1>1. IInv => NoDanglingIds
    BY DEF IInv, RegistryInv
  <1> QED BY <1>1, Inductive, PTL

\* No id is ever given to a second name, however commands come and go.
THEOREM IdsPermanent == Spec => []IdsNeverRebound
  <1>1. IInv => IdsNeverRebound
    BY DEF IInv, RegistryInv
  <1> QED BY <1>1, Inductive, PTL

\* Once `frozen' can be seen the lock-free snapshot is the registry.
THEOREM SnapshotAlwaysCurrent == Spec => []SnapshotCurrent
  <1>1. IInv => SnapshotCurrent
    BY DEF IInv, FreezeInv
  <1> QED BY <1>1, Inductive, PTL

\* The schema cache never outlives the registry it describes.
THEOREM SchemaCacheAlwaysCurrent == Spec => []SchemaCacheCurrent
  <1>1. IInv => SchemaCacheCurrent
    BY DEF IInv, SchemaInv
  <1> QED BY <1>1, Inductive, PTL

\* Two schemas of one generation are the same schema.
THEOREM GenerationsIdentify == Spec => []GenerationIdentifiesSchema
  <1>1. IInv => GenerationIdentifiesSchema
    BY DEF IInv, SchemaInv
  <1> QED BY <1>1, Inductive, PTL

\* A handler that runs has had its capability granted.
THEOREM CapabilitiesHold == Spec => []RunsOnlyGranted
  <1>1. IInv => RunsOnlyGranted
    BY DEF IInv
  <1> QED BY <1>1, Inductive, PTL

(***************************************************************************)
(* The two action properties.                                              *)
(***************************************************************************)
Final == frozen => frozen' /\ UNCHANGED <<commands, idToName, idToCommand, nextId, generation, snapshot>>

LEMMA FinalStep == IInv /\ [Next]_vars => [Final]_vars
  <1> SUFFICES ASSUME IInv, [Next]_vars, frozen
               PROVE  frozen' /\ UNCHANGED <<commands, idToName, idToCommand, nextId, generation, snapshot>>
    BY DEF Final
  <1>1. ASSUME NEW m \in Mutators, Mutate(m)
        PROVE  frozen' /\ UNCHANGED <<commands, idToName, idToCommand, nextId, generation, snapshot>>
    <2>1. pc[m] # "freezing"
      BY NullAssumption DEF IInv, FreezeInv
    <2>2. CASE Register(m) \/ Replace(m) \/ Unregister(m)
      BY <2>2 DEF Register, Replace, Unregister, Refused
    <2>3. CASE ReplaceRuntimeRoute(m)
      BY <2>3 DEF ReplaceRuntimeRoute
    <2> QED BY <1>1, <2>1, <2>2, <2>3 DEF Mutate, Begin, FreezeFill, FreezePublish, HotBegin,
                 HotCheck, HotEnd, HotEntry
  <1>2. ASSUME NEW c \in Callers, Call(c)
        PROVE  frozen' /\ UNCHANGED <<commands, idToName, idToCommand, nextId, generation, snapshot>>
    BY <1>2 DEF Call, Invoke, Lookup, CheckCapability, HandlerReturns
  <1>3. ASSUME NEW h \in Hosts, Synchronise(h)
        PROVE  frozen' /\ UNCHANGED <<commands, idToName, idToCommand, nextId, generation, snapshot>>
    BY <1>3 DEF Synchronise, LiveSchema, RebuildSchema
  <1>4. ASSUME NEW cap \in Caps, GrantCapability(cap)
        PROVE  frozen' /\ UNCHANGED <<commands, idToName, idToCommand, nextId, generation, snapshot>>
    BY <1>4 DEF GrantCapability
  <1>5. CASE UNCHANGED vars
    BY <1>5 DEF vars
  <1> QED BY <1>1, <1>2, <1>3, <1>4, <1>5 DEF Next

\* What `freeze' returned from is final, for every thread that had already
\* passed its first check.
THEOREM FreezeFinal == Spec => FrozenIsFinal
  <1>1. FrozenIsFinal <=> [][Final]_vars
    BY DEF FrozenIsFinal, Final
  <1> QED BY <1>1, Inductive, FinalStep, PTL DEF Spec

Contract(m) ==
  pc[m] = "hot_checked" /\ pc'[m] # pc[m] /\ generation' # generation =>
    /\ commands[op[m].name] # NoCommand
    /\ Signature(commands[op[m].name]) = op[m].sig

\* The one step that takes a mutator out of "hot_checked" is its own.
LEMMA OthersKeepPc ==
  ASSUME TypeOK, NEW m \in Mutators, pc[m] = "hot_checked", [Next]_vars
  PROVE  pc'[m] = pc[m] \/ ReplaceRuntimeRoute(m)
  <1>1. ASSUME NEW x \in Mutators, Mutate(x) PROVE pc'[m] = pc[m] \/ ReplaceRuntimeRoute(m)
    <2>1. CASE x = m
      BY <1>1, <2>1 DEF Mutate, Begin, Register, Replace, Unregister, FreezeFill, FreezePublish,
                        HotBegin, HotEntry, HotCheck, HotEnd
    <2>2. CASE x # m
      BY <1>1, <2>2 DEF Mutate, Begin, Register, Replace, Unregister, Refused, FreezeFill,
                        FreezePublish, HotBegin, HotEntry, HotCheck, ReplaceRuntimeRoute, HotEnd,
                        Return, SkipEntry, TypeOK
    <2> QED BY <2>1, <2>2
  <1>2. ASSUME NEW c \in Callers, Call(c) PROVE UNCHANGED pc
    BY <1>2 DEF Call, Invoke, Lookup, CheckCapability, HandlerReturns
  <1>3. ASSUME NEW h \in Hosts, Synchronise(h) PROVE UNCHANGED pc
    BY <1>3 DEF Synchronise, LiveSchema, RebuildSchema
  <1> QED BY <1>1, <1>2, <1>3 DEF Next, GrantCapability, vars

LEMMA ContractStep == IInv /\ [Next]_vars => [\A m \in Mutators : Contract(m)]_vars
  <1> SUFFICES ASSUME IInv, [Next]_vars, NEW m \in Mutators PROVE Contract(m)
    OBVIOUS
  <1>1. ASSUME pc[m] = "hot_checked", pc'[m] # pc[m], generation' # generation
        PROVE  op[m].name \in Live /\ Signature(commands[op[m].name]) = op[m].sig
    <2>1. ReplaceRuntimeRoute(m)
      BY <1>1, OthersKeepPc DEF IInv
    <2> QED BY <1>1, <2>1 DEF ReplaceRuntimeRoute, StillMatches
  <1> QED BY <1>1 DEF Contract, Live

\* A hot reload touches a route only while its wire contract is the live one.
THEOREM HotReloadSound == Spec => HotReloadKeepsContract
  <1>1. HotReloadKeepsContract <=> [][\A m \in Mutators : Contract(m)]_vars
    BY DEF HotReloadKeepsContract, Contract
  <1> QED BY <1>1, Inductive, ContractStep, PTL DEF Spec

(* Both id tables agree with the commands. *)
THEOREM IdTablesCoherentAlways == Spec => []IdTablesCoherent
  <1>1. RealIdsCoherent /\ NoDanglingIds => IdTablesCoherent
    BY DEF IdTablesCoherent
  <1> QED BY <1>1, RealIdsAlwaysCoherent, NeverDangling, PTL

(* The ids of a package do not move. *)
THEOREM IdsAlwaysStable == Spec => []IdsStable
  <1>1. IdTablesCoherent /\ IdsNeverRebound => IdsStable
    BY DEF IdsStable
  <1> QED BY <1>1, IdTablesCoherentAlways, IdsPermanent, PTL

(* Calls are sound without the lock. *)
THEOREM UnlockedCallsAreSound == Spec => []UnlockedCallsSound
  <1>1. SnapshotCurrent /\ RunsOnlyGranted => UnlockedCallsSound
    BY DEF UnlockedCallsSound
  <1> QED BY <1>1, SnapshotAlwaysCurrent, CapabilitiesHold, PTL

(* No schema that claims to be current is old. *)
THEOREM SchemasAlwaysCurrent == Spec => []SchemasCurrent
  <1>1. SchemaCacheCurrent /\ GenerationIdentifiesSchema => SchemasCurrent
    BY DEF SchemasCurrent
  <1> QED BY <1>1, SchemaCacheAlwaysCurrent, GenerationsIdentify, PTL

(* No mutation acts on a check that has been overtaken. *)
THEOREM MutationsAreRechecked == Spec => RecheckedMutations
  <1>1. FrozenIsFinal /\ HotReloadKeepsContract <=> RecheckedMutations
    BY DEF RecheckedMutations
  <1> QED BY <1>1, FreezeFinal, HotReloadSound

------------------------------------------------------------------------------
(***************************************************************************)
(* The builder.  The displacement loop has one invariant: ids in use are   *)
(* below next_command_id, and no alias that the loop has passed is anybody *)
(* else's id.  All of it holds up to the first wrap of next_command_id,    *)
(* which is as far as the code keeps its promise.                          *)
(***************************************************************************)

LEMMA NextInIds == Builder!TypeOK /\ Builder!TakeNext
    => next' \in Builder!Ids /\ wrapped' \in BOOLEAN
  BY MaxIdAssumption DEF Builder!TypeOK, Builder!TakeNext, Builder!Ids

LEMMA BuildTypeInit == Builder!Init => Builder!TypeOK
  <1> SUFFICES ASSUME Builder!Init PROVE Builder!TypeOK
    OBVIOUS
  <1>1. aliases \in Seq([name : BuilderNames, id : Builder!Ids])
    BY DEF Builder!Init
  <1> QED BY <1>1, MaxIdAssumption DEF Builder!Init, Builder!TypeOK, Builder!Ids

LEMMA AliasType ==
  ASSUME Builder!TypeOK, NEW k \in DOMAIN aliases
  PROVE  /\ aliases[k] \in [name : BuilderNames, id : Builder!Ids]
         /\ aliases[k].id \in Builder!Ids /\ aliases[k].id \in Int /\ aliases[k].name \in BuilderNames
  <1>1. aliases \in Seq([name : BuilderNames, id : Builder!Ids])
    BY DEF Builder!TypeOK
  <1>2. aliases[k] \in [name : BuilderNames, id : Builder!Ids]
    BY <1>1, ElementOfSeq, LenProperties
  <1> QED BY <1>2 DEF Builder!Ids

LEMMA MoveInIds == Builder!TypeOK /\ Builder!MovePastAliases => next' \in Builder!Ids
  <1> SUFFICES ASSUME Builder!TypeOK, Builder!MovePastAliases PROVE next' \in Builder!Ids
    OBVIOUS
  <1>1. ASSUME NEW top \in Builder!AliasIds PROVE top \in Builder!Ids
    BY AliasType DEF Builder!AliasIds
  <1> QED BY <1>1, MaxIdAssumption DEF Builder!MovePastAliases, Builder!TypeOK, Builder!Ids

LEMMA BuildTypeStep == Builder!TypeOK /\ [Builder!Next]_Builder!vars => Builder!TypeOK'
  <1> SUFFICES ASSUME Builder!TypeOK, [Builder!Next]_Builder!vars PROVE Builder!TypeOK'
    OBVIOUS
  <1>1. ASSUME Builder!Panic PROVE Builder!TypeOK'
    BY <1>1 DEF Builder!Panic, Builder!TypeOK
  <1>2. ASSUME NEW n \in BuilderNames, Builder!Command(n) PROVE Builder!TypeOK'
    <2>1. CASE Builder!Panic
      BY <1>1, <2>1
    <2>2. CASE idOf' = [idOf EXCEPT ![n] = next] /\ Builder!TakeNext
                 /\ UNCHANGED <<debug, phase, aliases, done, route>>
      BY <2>2, NextInIds DEF Builder!TypeOK
    <2> QED BY <1>2, <2>1, <2>2 DEF Builder!Command
  <1>3. ASSUME NEW n \in BuilderNames, NEW i \in Builder!Ids, Builder!AliasCommandId(n, i)
        PROVE Builder!TypeOK'
    <2>1. CASE Builder!Panic
      BY <1>1, <2>1
    <2>2. CASE aliases' = Append(aliases, [name |-> n, id |-> i])
                 /\ UNCHANGED <<debug, phase, idOf, next, done, route, wrapped>>
      <3>1. [name |-> n, id |-> i] \in [name : BuilderNames, id : Builder!Ids]
        OBVIOUS
      <3>2. aliases' \in Seq([name : BuilderNames, id : Builder!Ids])
        BY <2>2, <3>1, AppendProperties DEF Builder!TypeOK
      <3> QED BY <2>2, <3>2 DEF Builder!TypeOK
    <2> QED BY <1>3, <2>1, <2>2 DEF Builder!AliasCommandId
  <1>4. ASSUME Builder!BuildMerge PROVE Builder!TypeOK'
    BY <1>4, <1>1, MoveInIds DEF Builder!BuildMerge, Builder!TypeOK
  <1>5. ASSUME Builder!Displace PROVE Builder!TypeOK'
    <2>1. CASE Builder!Panic
      BY <1>1, <2>1
    <2>2. CASE done' = done + 1 /\ UNCHANGED <<debug, phase, idOf, next, aliases, route, wrapped>>
      BY <2>2 DEF Builder!TypeOK
    <2>3. CASE /\ \E n \in BuilderNames : idOf' = [idOf EXCEPT ![n] = next]
               /\ Builder!TakeNext
               /\ done' = done + 1
               /\ UNCHANGED <<debug, phase, aliases, route>>
      BY <2>3, NextInIds DEF Builder!TypeOK
    <2> QED BY <1>5, <2>1, <2>2, <2>3 DEF Builder!Displace, Builder!OwnersOf, Builder!Registered
  <1>6. ASSUME Builder!BuildTable PROVE Builder!TypeOK'
    BY <1>6, <1>1 DEF Builder!BuildTable, Builder!TypeOK
  <1>7. CASE UNCHANGED Builder!vars
    BY <1>7 DEF Builder!vars, Builder!TypeOK
  <1> QED BY <1>2, <1>3, <1>4, <1>5, <1>6, <1>7 DEF Builder!Next

\* Every variable keeps its type; next_command_id stays a u16.
THEOREM BuildTypeCorrect == Builder!Spec => []Builder!TypeOK
  BY BuildTypeInit, BuildTypeStep, PTL DEF Builder!Spec

------------------------------------------------------------------------------
(***************************************************************************)
(* The inductive invariant.                                                *)
(***************************************************************************)
\* No id is declared as an alias twice (alias_command_id refuses it).
AliasesDistinct ==
  \A j, k \in DOMAIN aliases : aliases[j].id = aliases[k].id => j = k

\* Registered commands have ids of their own, below next_command_id.
IdsDistinct ==
  ~wrapped => /\ \A n \in Builder!Registered : idOf[n] < next
              /\ \A n1, n2 \in Builder!Registered : idOf[n1] = idOf[n2] => n1 = n2

\* After the merge next_command_id is past every alias, or at the sentinel.
MergedPast ==
  phase \in {"merged", "built"} /\ ~wrapped =>
    /\ Builder!AliasTargets \subseteq Builder!Registered
    /\ \A k \in DOMAIN aliases : aliases[k].id < next \/ next = MaxId

\* The loop invariant: nobody sits on an alias the loop has passed.
PassedClear ==
  phase \in {"merged", "built"} /\ ~wrapped =>
    \A k \in DOMAIN aliases : k <= done
        => Builder!OwnersOf(aliases[k].id) \subseteq {aliases[k].name}

BuildInv == Builder!TypeOK /\ AliasesDistinct /\ IdsDistinct /\ MergedPast /\ PassedClear
            /\ Builder!Served
        /\ (phase = "open" => done = 0)

LEMMA BuildInvInit == Builder!Init => BuildInv
  <1> SUFFICES ASSUME Builder!Init PROVE BuildInv
    OBVIOUS
  <1>1. Builder!Registered = {} /\ DOMAIN aliases = {}
    BY DEF Builder!Init, Builder!Registered
  <1> QED BY <1>1, BuildTypeInit DEF Builder!Init, BuildInv, AliasesDistinct, IdsDistinct,
                                     MergedPast,
                     PassedClear, Builder!Served, Builder!AliasesResolve, Builder!RealIdsResolve,
                     Builder!NextIdFresh, Builder!RoutesLive

\* A panic leaves everything but the phase alone.
LEMMA PanicStep ==
  ASSUME BuildInv, Builder!TypeOK', Builder!Panic PROVE BuildInv'
  BY DEF BuildInv, Builder!Panic, AliasesDistinct, IdsDistinct, MergedPast, PassedClear,
         Builder!Served,
         Builder!AliasesResolve, Builder!RealIdsResolve, Builder!NextIdFresh, Builder!RoutesLive,
         Builder!Registered

\* Giving a command the next id keeps ids apart and below next_command_id.
LEMMA FreshId ==
  ASSUME BuildInv, NEW n \in BuilderNames, idOf' = [idOf EXCEPT ![n] = next], Builder!TakeNext
  PROVE  /\ IdsDistinct'
         /\ Builder!Registered' = Builder!Registered \cup {n}
         /\ ~wrapped' => ~wrapped /\ next' = next + 1 /\ next # MaxId
  <1>1. next \in Int /\ next # Builder!NoId
    BY MaxIdAssumption DEF BuildInv, Builder!TypeOK, Builder!Ids, Builder!NoId
  <1>2. \A m \in BuilderNames : idOf'[m] = IF m = n THEN next ELSE idOf[m]
    BY DEF BuildInv, Builder!TypeOK
  <1>3. Builder!Registered' = Builder!Registered \cup {n}
    BY <1>1, <1>2 DEF Builder!Registered
  <1>4. ~wrapped' => ~wrapped /\ next' = next + 1 /\ next # MaxId
    BY DEF Builder!TakeNext
  <1>5. ASSUME ~wrapped' PROVE \A m \in Builder!Registered' : idOf'[m] < next'
    <2>1. \A m \in Builder!Registered : idOf[m] < next /\ idOf[m] \in Int
      BY <1>4, <1>5 DEF BuildInv, IdsDistinct, Builder!TypeOK, Builder!Registered, Builder!Ids
    <2> QED BY <1>1, <1>2, <1>3, <1>4, <1>5, <2>1 DEF Builder!Registered
  <1>6. ASSUME ~wrapped', NEW n1 \in Builder!Registered', NEW n2 \in Builder!Registered',
               idOf'[n1] = idOf'[n2]
        PROVE  n1 = n2
    <2>1. \A m \in Builder!Registered : idOf[m] < next /\ idOf[m] \in Int
      BY <1>4, <1>6 DEF BuildInv, IdsDistinct, Builder!TypeOK, Builder!Registered, Builder!Ids
    <2>2. \A m1, m2 \in Builder!Registered : idOf[m1] = idOf[m2] => m1 = m2
      BY <1>4, <1>6 DEF BuildInv, IdsDistinct
    <2> QED BY <1>1, <1>2, <1>3, <1>6, <2>1, <2>2 DEF Builder!Registered
  <1> QED BY <1>3, <1>4, <1>5, <1>6 DEF IdsDistinct

LEMMA CommandStep ==
  ASSUME BuildInv, Builder!TypeOK', NEW n \in BuilderNames, Builder!Command(n) PROVE BuildInv'
  <1>1. CASE Builder!Panic
    BY <1>1, PanicStep
  <1>2. CASE idOf' = [idOf EXCEPT ![n] = next] /\ Builder!TakeNext
               /\ UNCHANGED <<debug, phase, aliases, done, route>>
    <2>1. phase' = "open"
      BY <1>2 DEF Builder!Command
    <2> QED BY <1>2, <2>1, FreshId DEF BuildInv, AliasesDistinct, MergedPast, PassedClear,
                                       Builder!Served,
                 Builder!AliasesResolve, Builder!RealIdsResolve, Builder!NextIdFresh,
                 Builder!RoutesLive
  <1> QED BY <1>1, <1>2 DEF Builder!Command

LEMMA AliasStep ==
  ASSUME BuildInv, Builder!TypeOK', NEW n \in BuilderNames, NEW i \in Builder!Ids,
         Builder!AliasCommandId(n, i)
  PROVE BuildInv'
  <1>1. CASE Builder!Panic
    BY <1>1, PanicStep
  <1>2. CASE ~Builder!AliasClash(n, i) /\ aliases' = Append(aliases, [name |-> n, id |-> i])
               /\ UNCHANGED <<debug, phase, idOf, next, done, route, wrapped>>
    <2>1. phase = "open" /\ phase' = "open"
      BY <1>2 DEF Builder!AliasCommandId
    <2>2. aliases \in Seq([name : BuilderNames, id : Builder!Ids])
      BY DEF BuildInv, Builder!TypeOK
    <2>3. \A k \in DOMAIN aliases : aliases[k].id # i
      BY <1>2 DEF Builder!AliasClash, Builder!AliasIds
    <2>4. /\ DOMAIN aliases = 1..Len(aliases)
          /\ DOMAIN aliases' = 1..(Len(aliases) + 1)
          /\ \A k \in 1..Len(aliases) : aliases'[k] = aliases[k]
          /\ aliases'[Len(aliases) + 1] = [name |-> n, id |-> i]
      BY <1>2, <2>2, AppendProperties
    <2>5. AliasesDistinct'
      <3>1. \A j, k \in 1..Len(aliases) : aliases[j].id = aliases[k].id => j = k
        BY <2>4 DEF BuildInv, AliasesDistinct
      <3>2. Len(aliases) \in Nat /\ aliases'[Len(aliases) + 1].id = i
        BY <2>2, <2>4
      <3> QED BY <2>3, <2>4, <3>1, <3>2 DEF AliasesDistinct
    <2>6. IdsDistinct'
      BY <1>2 DEF BuildInv, IdsDistinct, Builder!Registered
    <2> QED BY <1>2, <2>1, <2>5, <2>6 DEF BuildInv, MergedPast, PassedClear, Builder!Served,
                 Builder!AliasesResolve, Builder!RealIdsResolve, Builder!NextIdFresh,
                 Builder!RoutesLive
  <1> QED BY <1>1, <1>2 DEF Builder!AliasCommandId

LEMMA MergeStep ==
  ASSUME BuildInv, Builder!TypeOK', Builder!BuildMerge PROVE BuildInv'
  <1>1. CASE Builder!Panic
    BY <1>1, PanicStep
  <1>2. CASE /\ Builder!AliasTargets \subseteq Builder!Registered /\ phase' = "merged" /\ Builder!MovePastAliases
             /\ UNCHANGED <<debug, idOf, aliases, done, route, wrapped>>
    <2>1. next \in Int /\ next' \in Int /\ next <= MaxId /\ next' <= MaxId /\ MaxId \in Int
      BY MaxIdAssumption DEF BuildInv, Builder!TypeOK, Builder!Ids
    <2>2. \A k \in DOMAIN aliases : aliases[k].id \in Builder!AliasIds /\ aliases[k].id \in Builder!Ids
      BY AliasType DEF BuildInv, Builder!AliasIds
    <2>3. \A i \in Builder!AliasIds : i \in 0..MaxId
      BY AliasType DEF BuildInv, Builder!AliasIds, Builder!Ids
    <2>4. next <= next' /\ \A i \in Builder!AliasIds : i < next' \/ next' = MaxId
      <3>1. CASE Builder!AliasIds = {} /\ UNCHANGED next
        BY <2>1, <3>1
      <3>2. ASSUME NEW top \in Builder!AliasIds, \A i \in Builder!AliasIds : i <= top,
                   next' = IF top < next THEN next ELSE IF top = MaxId THEN MaxId ELSE top + 1
            PROVE  next <= next' /\ \A i \in Builder!AliasIds : i < next' \/ next' = MaxId
        <4>1. top \in 0..MaxId
          BY <2>3
        <4> QED BY <2>1, <2>3, <3>2, <4>1
      <3> QED BY <1>2, <3>1, <3>2 DEF Builder!MovePastAliases
    <2>5. MergedPast'
      BY <1>2, <2>2, <2>4 DEF MergedPast, Builder!AliasTargets, Builder!Registered
    <2>6. IdsDistinct'
      <3>1. \A n \in Builder!Registered : idOf[n] \in Int
        BY DEF BuildInv, Builder!TypeOK, Builder!Registered, Builder!Ids
      <3> QED BY <1>2, <2>1, <2>4, <3>1 DEF BuildInv, IdsDistinct, Builder!Registered
    <2>7. done' = 0 /\ \A k \in DOMAIN aliases' : ~(k <= done')
      <3>1. done = 0 /\ DOMAIN aliases = 1..Len(aliases)
        BY <1>2 DEF Builder!BuildMerge, BuildInv, Builder!TypeOK
      <3> QED BY <1>2, <3>1
    <2> QED BY <1>2, <2>5, <2>6, <2>7 DEF BuildInv, AliasesDistinct, PassedClear, Builder!Served,
                 Builder!AliasesResolve, Builder!RealIdsResolve, Builder!NextIdFresh,
                 Builder!RoutesLive
  <1> QED BY <1>1, <1>2 DEF Builder!BuildMerge

LEMMA DisplaceStep ==
  ASSUME BuildInv, Builder!TypeOK', Builder!Displace PROVE BuildInv'
  <1> DEFINE alias == aliases[done + 1]
             occupants == Builder!OwnersOf(alias.id) \ {alias.name}
  <1>1. /\ phase = "merged" /\ done < Len(aliases) /\ done \in Nat /\ Len(aliases) \in Nat
        /\ DOMAIN aliases = 1..Len(aliases)
    BY DEF Builder!Displace, BuildInv, Builder!TypeOK
  <1>2. CASE Builder!Panic
    BY <1>2, PanicStep
  <1>3. CASE occupants = {} /\ done' = done + 1
               /\ UNCHANGED <<debug, phase, idOf, next, aliases, route, wrapped>>
    <2>1. PassedClear'
      <3> SUFFICES ASSUME ~wrapped, NEW k \in DOMAIN aliases, k <= done + 1
                   PROVE  Builder!OwnersOf(aliases[k].id) \subseteq {aliases[k].name}
        BY <1>3 DEF PassedClear, Builder!OwnersOf, Builder!Registered
      <3>1. CASE k <= done
        BY <1>1, <3>1 DEF BuildInv, PassedClear
      <3>2. CASE k = done + 1
        BY <1>3, <3>2
      <3> QED BY <1>1, <3>1, <3>2
    <2> QED BY <1>1, <1>3, <2>1 DEF BuildInv, AliasesDistinct, IdsDistinct, MergedPast,
                                    Builder!Served,
                 Builder!AliasesResolve, Builder!RealIdsResolve, Builder!NextIdFresh,
                 Builder!RoutesLive, Builder!Registered, Builder!AliasTargets
  <1>4. ASSUME NEW n \in occupants, idOf' = [idOf EXCEPT ![n] = next], Builder!TakeNext,
               done' = done + 1,
               UNCHANGED <<debug, phase, aliases, route>>
        PROVE  BuildInv'
    <2>1. n \in BuilderNames /\ n \in Builder!Registered /\ idOf[n] = alias.id /\ n # alias.name
      BY DEF Builder!OwnersOf, Builder!Registered
    <2>2. /\ IdsDistinct' /\ Builder!Registered' = Builder!Registered
          /\ ~wrapped' => ~wrapped /\ next' = next + 1 /\ next # MaxId
      BY <1>4, <2>1, FreshId
    <2>3. next \in Int /\ \A k \in DOMAIN aliases : aliases[k].id \in Int
      BY AliasType DEF BuildInv, Builder!TypeOK, Builder!Ids
    <2>4. MergedPast'
      BY <1>1, <1>4, <2>2, <2>3 DEF BuildInv, MergedPast, Builder!AliasTargets
    <2>5. PassedClear'
      <3> SUFFICES ASSUME ~wrapped', NEW k \in DOMAIN aliases, k <= done + 1,
                          NEW m \in Builder!OwnersOf(aliases[k].id)'
                   PROVE  m = aliases[k].name
        BY <1>4 DEF PassedClear, Builder!OwnersOf
      <3>1. m \in Builder!Registered /\ idOf'[m] = aliases[k].id
        BY <1>4, <2>2 DEF Builder!OwnersOf
      <3>2. aliases[k].id # next
        BY <1>1, <2>2, <2>3 DEF BuildInv, MergedPast
      <3>3. m # n /\ m \in Builder!OwnersOf(aliases[k].id)
        BY <1>4, <2>1, <3>1, <3>2 DEF BuildInv, Builder!TypeOK, Builder!OwnersOf, Builder!Registered
      <3>4. CASE k <= done
        BY <1>1, <2>2, <3>3, <3>4 DEF BuildInv, PassedClear
      <3>5. CASE k = done + 1
        BY <2>1, <2>2, <3>3, <3>5 DEF BuildInv, IdsDistinct, Builder!OwnersOf
      <3> QED BY <1>1, <3>4, <3>5
    <2> QED BY <1>1, <1>4, <2>2, <2>4, <2>5 DEF BuildInv, AliasesDistinct, Builder!Served,
                 Builder!AliasesResolve, Builder!RealIdsResolve, Builder!NextIdFresh,
                 Builder!RoutesLive
  <1> QED BY <1>2, <1>3, <1>4 DEF Builder!Displace

\* The id table of a build that has not wrapped serves everybody.
LEMMA TableServes ==
  ASSUME BuildInv, phase = "merged", done = Len(aliases), ~wrapped,
         NEW r \in [Builder!Ids -> BuilderNames \cup {NoName}],
         \A i \in Builder!Ids : r[i] \in IF Builder!OwnersOf(i) # {} THEN Builder!OwnersOf(i)
                                 ELSE IF Builder!AliasFor(i) # {} THEN Builder!AliasFor(i)
                                 ELSE {NoName}
  PROVE  /\ Builder!AliasesServed(r)
         /\ \A n \in Builder!Registered : r[idOf[n]] = n
         /\ next = MaxId \/ \A i \in Builder!Ids : r[i] # NoName => i < next
         /\ \A i \in Builder!Ids : r[i] \in Builder!Registered \cup {NoName}
  <1>1. DOMAIN aliases = 1..Len(aliases) /\ Len(aliases) \in Nat
    BY DEF BuildInv, Builder!TypeOK
  <1>2. ASSUME NEW k \in DOMAIN aliases PROVE r[aliases[k].id] = aliases[k].name
    <2>1. aliases[k] \in [name : BuilderNames, id : Builder!Ids]
      BY AliasType DEF BuildInv
    <2>2. Builder!OwnersOf(aliases[k].id) \subseteq {aliases[k].name}
      BY <1>1 DEF BuildInv, PassedClear
    <2>3. Builder!AliasFor(aliases[k].id) = {aliases[k].name}
      <3>1. aliases[k] = [name |-> aliases[k].name, id |-> aliases[k].id]
        BY <2>1
      <3>2. aliases[k].name \in Builder!AliasFor(aliases[k].id)
        BY <2>1, <3>1 DEF Builder!AliasFor
      <3>3. ASSUME NEW n \in Builder!AliasFor(aliases[k].id) PROVE n = aliases[k].name
        <4>1. PICK j \in DOMAIN aliases : aliases[j] = [name |-> n, id |-> aliases[k].id]
          BY DEF Builder!AliasFor
        <4>2. j = k
          BY <4>1 DEF BuildInv, AliasesDistinct
        <4> QED BY <4>1, <4>2
      <3> QED BY <3>2, <3>3
    <2> QED BY <2>1, <2>2, <2>3
  <1>3. ASSUME NEW n \in Builder!Registered PROVE r[idOf[n]] = n
    <2>1. idOf[n] \in Builder!Ids /\ n \in BuilderNames
      BY DEF BuildInv, Builder!TypeOK, Builder!Registered
    <2>2. Builder!OwnersOf(idOf[n]) = {n}
      BY DEF BuildInv, IdsDistinct, Builder!OwnersOf
    <2> QED BY <2>1, <2>2
  <1>4. ASSUME next # MaxId, NEW i \in Builder!Ids, r[i] # NoName PROVE i < next
    <2>1. CASE Builder!OwnersOf(i) # {}
      BY <2>1 DEF BuildInv, IdsDistinct, Builder!OwnersOf
    <2>2. CASE Builder!OwnersOf(i) = {} /\ Builder!AliasFor(i) # {}
      <3>1. PICK n \in Builder!AliasFor(i) : TRUE
        BY <2>2
      <3>2. PICK k \in DOMAIN aliases : aliases[k] = [name |-> n, id |-> i]
        BY DEF Builder!AliasFor
      <3> QED BY <1>4, <3>2 DEF BuildInv, MergedPast
    <2> QED BY <1>4, <2>1, <2>2
  <1>5. ASSUME NEW i \in Builder!Ids PROVE r[i] \in Builder!Registered \cup {NoName}
    <2>1. Builder!OwnersOf(i) \subseteq Builder!Registered
      BY DEF Builder!OwnersOf
    <2>2. Builder!AliasFor(i) \subseteq Builder!Registered
      BY DEF BuildInv, MergedPast, Builder!AliasFor, Builder!AliasTargets
    <2> QED BY <2>1, <2>2
  <1> QED BY <1>2, <1>3, <1>4, <1>5 DEF Builder!AliasesServed

LEMMA TableStep ==
  ASSUME BuildInv, Builder!TypeOK', Builder!BuildTable PROVE BuildInv'
  <1>1. CASE Builder!Panic
    BY <1>1, PanicStep
  <1>2. ASSUME NEW r \in [Builder!Ids -> BuilderNames \cup {NoName}],
               \A i \in Builder!Ids : r[i] \in IF Builder!OwnersOf(i) # {} THEN Builder!OwnersOf(i)
                                       ELSE IF Builder!AliasFor(i) # {} THEN Builder!AliasFor(i)
                                       ELSE {NoName},
               phase' = "built", route' = r,
               UNCHANGED <<debug, idOf, next, aliases, done, wrapped>>
        PROVE  BuildInv'
    <2>1. Builder!Registered' = Builder!Registered /\ phase = "merged" /\ done = Len(aliases)
      BY <1>2 DEF Builder!Registered, Builder!BuildTable
    <2>2. Builder!Served'
      BY <1>2, <2>1, TableServes DEF Builder!Served, Builder!AliasesResolve,
                                     Builder!RealIdsResolve, Builder!NextIdFresh,
                                     Builder!RoutesLive,
         Builder!AliasesServed
    <2> QED BY <1>2, <2>1, <2>2 DEF BuildInv, AliasesDistinct, IdsDistinct, MergedPast, PassedClear,
                 Builder!OwnersOf, Builder!AliasTargets
  <1> QED BY <1>1, <1>2 DEF Builder!BuildTable

LEMMA BuildInvStep == BuildInv /\ [Builder!Next]_Builder!vars => BuildInv'
  <1> SUFFICES ASSUME BuildInv, [Builder!Next]_Builder!vars PROVE BuildInv'
    OBVIOUS
  <1>1. Builder!TypeOK'
    BY BuildTypeStep DEF BuildInv
  <1>2. CASE UNCHANGED Builder!vars
    BY <1>2 DEF Builder!vars, BuildInv, Builder!TypeOK, AliasesDistinct, IdsDistinct, MergedPast,
                PassedClear, Builder!Served,
                Builder!AliasesResolve, Builder!RealIdsResolve, Builder!NextIdFresh,
                Builder!RoutesLive, Builder!Registered, Builder!OwnersOf, Builder!AliasTargets,
                Builder!AliasesServed
  <1> QED BY <1>1, <1>2, CommandStep, AliasStep, MergeStep, DisplaceStep, TableStep DEF Builder!Next

LEMMA BuildInvHolds == Builder!Spec => []BuildInv
  BY BuildInvInit, BuildInvStep, PTL DEF Builder!Spec

\* Whatever ids older clients use and in whatever order a chain registers
\* and aliases, a build serves every alias and every command and keeps a
\* fresh next id, as long as next_command_id has not wrapped
\* (builder_build.rs, the displacement loop).
THEOREM BuildsServeEveryId == Builder!Spec => []Builder!Served
  <1>1. BuildInv => Builder!Served
    BY DEF BuildInv
  <1> QED BY <1>1, BuildInvHolds, PTL

------------------------------------------------------------------------------
(***************************************************************************)
(* The composition with the builder.                                       *)
(***************************************************************************)
\* BuildsAssumption, from which everything above starts, asks no more than
\* what PackageBuilder::build delivers: whatever the commands and aliases of
\* the builder, which serves them (BuildsServeEveryId),
\* the registry starts from a well-built package.
THEOREM DeliveredBuildsAreWellBuilt ==
  ASSUME Builder!TypeOK, Builder!Served, NEW b,
         b.commands \in [Names -> Commands \cup {NoCommand}],
         b.route \in [Ids -> Names \cup {NoName}],
         Delivers(b)
  PROVE  WellBuilt(b)
  <1>1. b.next \in Ids
    BY DEF Delivers, Builder!TypeOK, Ids, Builder!Ids
  <1>2. ASSUME NEW n \in Names, b.commands[n] # NoCommand PROVE b.route[b.commands[n].id] = n
    <2>1. n \in Builder!Registered
      BY <1>2 DEF Delivers
    <2>2. b.commands[n].id = idOf[n] /\ route[idOf[n]] = n
      BY <2>1 DEF Delivers, Builder!Served, Builder!RealIdsResolve
    <2> QED BY <2>2 DEF Delivers
  <1>3. ASSUME NEW i \in Ids, b.route[i] # NoName
        PROVE  b.commands[b.route[i]] # NoCommand /\ (i < b.next \/ b.next = MaxId)
    <2>1. b.route[i] \in Builder!Registered
      BY <1>3 DEF Delivers, Builder!Served, Builder!RoutesLive, Ids, Builder!Ids
    <2>2. b.next = MaxId \/ i < b.next
      BY <1>3 DEF Delivers, Builder!Served, Builder!NextIdFresh, Ids, Builder!Ids
    <2> QED BY <2>1, <2>2 DEF Delivers
  <1> QED BY <1>1, <1>2, <1>3 DEF WellBuilt

\* A package from builder to registry serves every alias and every command
\* the builder was given, as the builder alone does (BuildsServeEveryId).
THEOREM LifeServes == LifeSpec => []Served
  <1>1. LifeInit => BuildInv
    BY BuildInvInit DEF LifeInit
  <1>2. BuildInv /\ [Building \/ Serving]_<<vars, build, builderVars>> => BuildInv'
    <2>1. [Building \/ Serving]_<<vars, build, builderVars>> => [Builder!Next]_Builder!vars
      BY DEF Building, Serving, builderVars, Builder!vars
    <2> QED BY <2>1, BuildInvStep
  <1>3. BuildInv => Served
    BY DEF BuildInv, Served
  <1> QED BY <1>1, <1>2, <1>3, PTL DEF LifeSpec
===============================================================================
