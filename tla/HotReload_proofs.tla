--------------------------- MODULE HotReload_proofs ---------------------------
(***************************************************************************)
(* Proofs about HotReload, for every set of artifacts, callers and         *)
(* contents and any number of edits and of failures before a file is given *)
(* up.  The two parts meet in nothing but the published file, so each has  *)
(* an invariant of its own.                                                *)
(***************************************************************************)
EXTENDS HotReload, TLAPS

------------------------------------------------------------------------------
(***************************************************************************)
(* The watcher of the host.  A fingerprint that still is that of the file  *)
(* vouches for what was read under it; what was published in between has   *)
(* taken it away.                                                          *)
(***************************************************************************)
InTick == watch \in {"hashing", "preparing", "opening", "swapping"}
Hashed == watch \in {"preparing", "opening", "swapping"}

\* The host serves the file it opened until the watcher has its baseline.
AtStart ==
  watch \in {"starting", "baseline"} =>
    lastHash = None /\ (~changed => artifact = core) /\ tries = 0

\* A tick runs for a file that is not the baseline by its fingerprint; a
\* publication that takes the fingerprint of the tick away starts the count anew.
TickRuns == InTick => ~lastStat /\ (fingerprint \/ tries = 0)

\* What the tick has read of the file.
TickReads ==
  /\ Hashed => hash \in Bytes /\ hash # poisoned /\ (fingerprint => hash = artifact)
  /\ watch = "preparing" /\ ~changed => artifact = hash
  /\ watch \in {"opening", "swapping"} /\ ~changed => copy = hash
  /\ watch = "swapping" => copy \in Loadable

\* The failures of the file as it is: its streak counts them all, unless it
\* was poisoned or has become the baseline.
Counted ==
  /\ streak < MaxFailures
  /\ tries = 0 \/ lastStat \/ poisoned = artifact \/ (streakHash = artifact /\ tries <= streak)

\* TypeOK, one variable at a time.
HostTypes ==
  /\ artifact \in Bytes \cup {None} /\ core \in Loadable /\ inside \subseteq Callers
  /\ watch \in {"starting", "baseline", "sleeping", "hashing", "preparing", "opening", "swapping"}
  /\ lastStat \in BOOLEAN /\ fingerprint \in BOOLEAN /\ changed \in BOOLEAN /\ torn \in BOOLEAN
  /\ lastHash \in Bytes \cup {None} /\ hash \in Bytes \cup {None} /\ copy \in Bytes \cup {None}
  /\ streakHash \in Bytes \cup {None} /\ poisoned \in Bytes \cup {None}
  /\ streak \in Nat /\ tries \in Nat

HostInv ==
  /\ HostTypes /\ FilterSound /\ BaselineServed /\ GivesUp
  /\ AtStart /\ TickRuns /\ TickReads /\ Counted

LEMMA HostInit == Init => HostInv
  <1> SUFFICES ASSUME Init PROVE HostInv
    OBVIOUS
  <1>1. HostTypes
    BY BytesAssumption DEF Init, HostTypes
  <1>2. FilterSound /\ BaselineServed /\ AtStart /\ TickRuns /\ TickReads
    BY DEF Init, FilterSound, BaselineServed, AtStart, TickRuns, TickReads, InTick, Hashed
  <1>3. GivesUp /\ Counted
    BY MaxFailuresAssumption DEF Init, GivesUp, Counted
  <1> QED BY <1>1, <1>2, <1>3 DEF HostInv

\* Where nothing but the callers moves, nothing changes.
LEMMA HostKept ==
  HostInv /\ UNCHANGED <<artifact, changed, tries, core, baselineVars, tickVars, failureVars>>
    /\ inside' \subseteq Callers => HostInv'
  BY DEF HostInv, HostTypes, FilterSound, BaselineServed, GivesUp, AtStart, TickRuns,
         TickReads, Counted, InTick, Hashed, baselineVars, tickVars, failureVars

LEMMA PublishKeeps == ASSUME HostInv, NEW b \in Bytes \cup {None}, Publish(b) PROVE HostInv'
  <1> USE DEF HostInv, Publish, handleVars, failureVars
  <1>1. HostTypes'
    BY DEF HostTypes
  <1>2. FilterSound' /\ BaselineServed' /\ GivesUp' /\ Counted'
    BY MaxFailuresAssumption DEF HostTypes, FilterSound, BaselineServed, GivesUp, Counted
  <1>3. AtStart' /\ TickRuns' /\ TickReads'
    BY DEF HostTypes, AtStart, TickRuns, TickReads, InTick, Hashed
  <1> QED BY <1>1, <1>2, <1>3

LEMMA BaselineKeeps == ASSUME HostInv, BaselineStat \/ BaselineHash PROVE HostInv'
  <1> USE DEF HostInv, BaselineStat, BaselineHash, fileVars, handleVars, failureVars
  <1>1. HostTypes'
    BY DEF HostTypes
  <1>2. FilterSound' /\ BaselineServed' /\ GivesUp' /\ Counted'
    BY MaxFailuresAssumption DEF HostTypes, AtStart, FilterSound, BaselineServed, GivesUp, Counted
  <1>3. AtStart' /\ TickRuns' /\ TickReads'
    BY DEF HostTypes, AtStart, TickRuns, TickReads, InTick, Hashed
  <1> QED BY <1>1, <1>2, <1>3

LEMMA LookKeeps == ASSUME HostInv, Look PROVE HostInv'
  <1> USE DEF HostInv, Look, fileVars, handleVars, baselineVars, failureVars
  <1>1. HostTypes'
    BY DEF HostTypes
  <1>2. FilterSound' /\ BaselineServed' /\ GivesUp' /\ Counted'
    BY DEF FilterSound, BaselineServed, GivesUp, Counted
  <1>3. AtStart' /\ TickRuns' /\ TickReads'
    BY DEF AtStart, TickRuns, TickReads, InTick, Hashed
  <1> QED BY <1>1, <1>2, <1>3

LEMMA HashKeeps == ASSUME HostInv, Hash PROVE HostInv'
  <1> USE DEF HostInv, Hash, Sleep, Settled, handleVars, failureVars
  <1>1. HostTypes'
    BY DEF HostTypes
  <1>2. FilterSound' /\ BaselineServed' /\ GivesUp' /\ Counted'
    BY DEF HostTypes, FilterSound, BaselineServed, GivesUp, Counted, TickRuns, InTick
  <1>3. AtStart' /\ TickRuns' /\ TickReads'
    BY DEF HostTypes, AtStart, TickRuns, TickReads, InTick, Hashed
  <1> QED BY <1>1, <1>2, <1>3

LEMMA PrepareKeeps == ASSUME HostInv, PrepareSwapCopy \/ Open PROVE HostInv'
  <1> USE DEF HostInv, PrepareSwapCopy, Open, fileVars, handleVars, baselineVars,
              failureVars
  <1>1. HostTypes'
    BY DEF HostTypes
  <1>2. FilterSound' /\ BaselineServed' /\ GivesUp' /\ Counted'
    BY DEF FilterSound, BaselineServed, GivesUp, Counted
  <1>3. AtStart' /\ TickRuns' /\ TickReads'
    BY DEF HostTypes, AtStart, TickRuns, TickReads, InTick, Hashed
  <1> QED BY <1>1, <1>2, <1>3

\* A failure is counted for the file as it is, or for one that has gone.
LEMMA FailKeeps == ASSUME HostInv, watch \in {"preparing", "opening"}, Fail PROVE HostInv'
  <1> DEFINE n == IF streakHash = hash THEN streak + 1 ELSE 1
  <1> USE DEF HostInv, Fail, Sleep, handleVars, baselineVars
  <1>1. /\ n \in 1..MaxFailures
        /\ streakHash' = hash /\ streak' = IF n >= MaxFailures THEN 0 ELSE n
        /\ poisoned' = IF n >= MaxFailures THEN hash ELSE poisoned
    BY MaxFailuresAssumption DEF NoteFailure, HostTypes, Counted
  <1>2. fingerprint => hash = artifact /\ poisoned # artifact /\ ~lastStat
    BY DEF TickReads, TickRuns, Hashed, InTick
  <1>3. ~fingerprint => tries = 0
    BY DEF TickRuns, InTick
  <1>4. fingerprint => tries' \in 1..n
    BY <1>1, <1>2 DEF Counted, HostTypes
  <1> HIDE DEF n
  <1>5. HostTypes'
    <2>1. streak' \in Nat /\ poisoned' \in Bytes \cup {None} /\ tries' \in Nat
      BY <1>1 DEF HostTypes
    <2> QED BY <1>1, <2>1 DEF HostTypes
  <1>6. FilterSound' /\ BaselineServed' /\ AtStart' /\ TickRuns' /\ TickReads'
    BY DEF FilterSound, BaselineServed, AtStart, TickRuns, TickReads, InTick, Hashed, HostTypes
  <1>7. GivesUp'
    BY <1>1, <1>3, <1>4, MaxFailuresAssumption DEF GivesUp, HostTypes
  <1>8. Counted'
    BY <1>1, <1>2, <1>3, <1>4, MaxFailuresAssumption DEF Counted, HostTypes
  <1> QED BY <1>5, <1>6, <1>7, <1>8

LEMMA SwapKeeps == ASSUME HostInv, Swap PROVE HostInv'
  <1> USE DEF HostInv, Swap, Sleep, fileVars
  <1>1. HostTypes'
    BY DEF HostTypes, TickReads
  <1>2. FilterSound' /\ BaselineServed' /\ GivesUp'
    BY DEF HostTypes, FilterSound, BaselineServed, GivesUp, TickReads, Hashed
  <1>3. Counted'
    BY MaxFailuresAssumption DEF HostTypes, Counted, TickRuns, InTick
  <1>4. AtStart' /\ TickRuns' /\ TickReads'
    BY DEF AtStart, TickRuns, TickReads, InTick, Hashed
  <1> QED BY <1>1, <1>2, <1>3, <1>4

LEMMA HostNext == HostInv /\ Next => HostInv'
  <1> SUFFICES ASSUME HostInv, Next PROVE HostInv'
    OBVIOUS
  <1>1. ASSUME NEW c \in Callers, Call(c) \/ Return(c) PROVE HostInv'
    <2>1. inside' \subseteq Callers
      BY <1>1 DEF HostInv, HostTypes, Call, Return
    <2> QED BY <1>1, <2>1, HostKept DEF Call, Return, fileVars
  <1> QED BY <1>1, PublishKeeps, BaselineKeeps, LookKeeps, HashKeeps, PrepareKeeps, FailKeeps,
             SwapKeeps DEF Next, Watch, PrepareFails, OpenFails

\* Whatever is published and when, the watcher never takes an old core for the
\* present one, and a file that does not open is given up after MaxFailures
\* attempts until it is published anew (hot_core_watch.rs).
THEOREM BaselineIsSound == ReloadSpec => []BaselineSound
  <1>1. ReloadInit => HostInv
    BY HostInit DEF ReloadInit
  <1>2. HostInv /\ [(AtHost /\ Next) \/ (AtDev /\ Dev!Next)]_all => HostInv'
    <2> SUFFICES ASSUME HostInv, [(AtHost /\ Next) \/ (AtDev /\ Dev!Next)]_all PROVE HostInv'
      OBVIOUS
    <2>1. CASE AtHost /\ Next
      BY <2>1, HostNext
    <2>2. CASE UNCHANGED vars
      <3>1. inside' \subseteq Callers
        BY <2>2 DEF vars, handleVars, HostInv, HostTypes
      <3> QED BY <2>2, <3>1, HostKept DEF vars, fileVars, handleVars
    <2> QED BY <2>1, <2>2 DEF AtDev, all
  <1>3. HostInv => BaselineSound
    BY DEF HostInv, HostTypes, BaselineSound, TypeOK
  <1> QED BY <1>1, <1>2, <1>3, PTL DEF ReloadSpec

------------------------------------------------------------------------------
(***************************************************************************)
(* The development session.                                                *)
(***************************************************************************)
Prints == BOOLEAN \X Dev!Inputs
FileTypes ==
  /\ mode \in {"config", "legacy"}
  /\ pc \notin IF mode = "config" THEN {"cargo", "tsCli"} ELSE {"reading", "prearming"}
  /\ source \in Dev!Inputs /\ known \in BOOLEAN /\ inputPaths \in BOOLEAN
FlagTypes ==
  /\ watching \in BOOLEAN /\ dirty \in BOOLEAN /\ configDirty \in BOOLEAN
  /\ timer \in BOOLEAN /\ queued \in BOOLEAN /\ disposed \in BOOLEAN
  /\ full \in BOOLEAN /\ moved \in BOOLEAN /\ edited \in BOOLEAN
PrintTypes ==
  /\ lastSuccessful \in Prints \cup {None, Unknown} /\ decision \in Prints \cup {None, Unknown}
  /\ asked \in Prints \cup {None, Unknown}
DevTypes == FileTypes /\ FlagTypes /\ PrintTypes

\* A run is under way whose inputs are settled.
Deciding ==
  {"codegen", "generating", "building", "verifying", "arming", "finishing", "cargo", "tsCli"}

\* A run of which something was noticed since it read its inputs.
Noticed == dirty \/ configDirty \/ timer \/ queued \/ pc \in {"starting", "reading"}

\* An edit is noticed or the last run was for it.
Followed ==
  watching /\ ~Noticed /\ Dev!Usable /\ asked # Unknown => asked = Dev!Fingerprint

\* What a run remembers is what it was started for.
Decided ==
  /\ pc \in Deciding => decision \in {asked, Unknown}
  /\ pc \in Deciding /\ ~moved => asked = Dev!Fingerprint
  /\ queued => pc \notin {"idle", "starting"}

\* A closed session has nothing under way that would start anything.
Closed ==
  disposed => ~watching /\ ~timer /\ ~queued /\ ~configDirty /\ pc \notin {"starting", "finishing"}

\* A full run forgets the last success before it touches anything; a run that
\* skips Cargo is for the inputs of the last success.
Remembered ==
  mode = "config" =>
    /\ config # gateKey => lastSuccessful = None /\ pc \notin Deciding \cup {"prearming"}
    /\ pc = "prearming" => lastSuccessful = None
    /\ pc \in {"codegen", "generating", "building"} => full
    /\ pc \in Deciding /\ full => lastSuccessful = None
    /\ pc \in Deciding /\ ~full => decision = lastSuccessful

\* Files that held still: the schema, the clients and the core are of the inputs.
Gated == {"verifying", "arming", "finishing"}
HeldStill ==
  mode = "config" /\ full /\ ~moved =>
    /\ pc \in {"generating", "building"} \cup Gated => schema = Contract[source.main]
    /\ pc \in {"building"} \cup Gated => clients = Contract[source.main]
    /\ pc \in Gated => built = source

\* What passes an armed gate has the contract of the gate.
GatePassed ==
  mode = "config" /\ pc = "finishing" /\ gateKey = "gated" /\ ~moved => schema = baseline

DevInv ==
  /\ DevTypes /\ Followed /\ Decided /\ Closed /\ Remembered /\ HeldStill /\ GatePassed
  /\ Dev!SkipsAreSound

USE DEF Dev!diskVars, Dev!outVars, Dev!watchVars, Dev!loopVars, Dev!memoVars, Dev!gateVars,
        Dev!runVars, Dev!histVars

LEMMA SeenType ==
  \A paths \in BOOLEAN, s \in Dev!Inputs :
    Dev!Seen(paths, s) \in Prints /\ Dev!Seen(paths, s) \notin {None, Unknown}
  <1> SUFFICES ASSUME NEW paths \in BOOLEAN, NEW s \in Dev!Inputs
               PROVE  Dev!Seen(paths, s) \in Prints /\ Dev!Seen(paths, s) \notin {None, Unknown}
    OBVIOUS
  <1>1. Dev!Seen(paths, s) \in Prints
    BY DEF Dev!Seen, Prints, Dev!Inputs
  <1>2. {None, Unknown} \cap Prints = {}
    BY AbsentAssumption DEF Prints
  <1> QED BY <1>1, <1>2

LEMMA SeenTells ==
  \A p, q \in BOOLEAN, s, t \in Dev!Inputs :
    Dev!Seen(p, s) = Dev!Seen(q, t) => p = q /\ s.main = t.main
  BY DEF Dev!Seen, Dev!Inputs

LEMMA DevStart == Dev!Init => DevInv
  <1> SUFFICES ASSUME Dev!Init PROVE DevInv
    OBVIOUS
  <1>1. DevTypes
    BY ContentsAssumption DEF Dev!Init, DevTypes, FileTypes, FlagTypes, PrintTypes, Dev!Inputs
  <1>2. Followed /\ Decided /\ Closed
    BY DEF Dev!Init, Followed, Noticed, Decided, Deciding, Closed
  <1>3. Remembered /\ HeldStill /\ GatePassed /\ Dev!SkipsAreSound
    BY DEF Dev!Init, Remembered, Deciding, HeldStill, Gated, GatePassed, Dev!SkipsAreSound
  <1> QED BY <1>1, <1>2, <1>3 DEF DevInv

\* A run ends that has read its inputs, or could not.
LEMMA ReturnsKeeps ==
  ASSUME DevInv, Dev!Returns, pc # "idle",
         pc \in {"starting", "reading"} => disposed \/ configFile = "broken"
  PROVE  DevInv'
  <1> USE DEF DevInv, Dev!Returns, Dev!EndRun
  <1>1. DevTypes'
    <2>1. FileTypes'
      BY DEF DevTypes, FileTypes
    <2>2. FlagTypes'
      BY DEF DevTypes, FlagTypes
    <2>3. PrintTypes'
      BY DEF DevTypes, PrintTypes
    <2> QED BY <2>1, <2>2, <2>3 DEF DevTypes
  <1>2. Followed'
    BY DEF DevTypes, FileTypes, FlagTypes, Followed, Noticed, Closed, Dev!Usable, Dev!Resolvable,
           Dev!Fingerprint
  <1>3. Decided' /\ Closed'
    BY DEF DevTypes, FlagTypes, Decided, Deciding, Closed
  <1>4. Remembered' /\ HeldStill' /\ GatePassed' /\ Dev!SkipsAreSound'
    BY DEF DevTypes, FlagTypes, Remembered, Deciding, HeldStill, Gated, GatePassed,
           Dev!SkipsAreSound
  <1> QED BY <1>1, <1>2, <1>3, <1>4

\* What users do.
LEMMA EditKeeps ==
  ASSUME DevInv, NEW s \in Dev!Inputs, Dev!Edit(s) PROVE DevInv'
  <1> USE DEF DevInv, Dev!Edit, Dev!Editing
  <1>1. DevTypes'
    <2>1. FileTypes'
      BY DEF DevTypes, FileTypes
    <2>2. FlagTypes'
      BY DEF DevTypes, FlagTypes
    <2>3. PrintTypes'
      BY DEF DevTypes, PrintTypes
    <2> QED BY <2>1, <2>2, <2>3 DEF DevTypes
  <1>2. Dev!Fingerprint' = Dev!Seen(inputPaths, s)
    BY DEF Dev!Fingerprint
  <1>3. Dev!Fingerprint' = Dev!Fingerprint => (Dev!Resolvable <=> Dev!Resolvable')
    BY <1>2, SeenTells DEF DevTypes, FileTypes, Dev!Fingerprint, Dev!Resolvable
  <1>4. Followed'
    BY <1>2, <1>3 DEF DevTypes, FileTypes, FlagTypes, Followed, Noticed, Dev!Usable
  <1>5. Decided' /\ Closed'
    BY <1>2 DEF DevTypes, FlagTypes, Decided, Deciding, Closed, Dev!Fingerprint
  <1>6. Remembered' /\ HeldStill' /\ GatePassed' /\ Dev!SkipsAreSound'
    BY DEF DevTypes, FlagTypes, Remembered, Deciding, HeldStill, Gated, GatePassed,
           Dev!SkipsAreSound
  <1> QED BY <1>1, <1>4, <1>5, <1>6

LEMMA EditOthersKeeps ==
  ASSUME DevInv,
         \/ \E s \in {Foreign, Missing} : Dev!EditSchema(s)
         \/ \E f \in Dev!Configs \cup {"broken"} : Dev!EditConfig(f)
  PROVE  DevInv'
  <1> USE DEF DevInv, Dev!EditSchema, Dev!EditConfig, Dev!Editing
  <1>1. DevTypes'
    <2>1. FileTypes'
      BY DEF DevTypes, FileTypes
    <2>2. FlagTypes'
      <3>1. CASE \E s \in {Foreign, Missing} : Dev!EditSchema(s)
        BY <3>1 DEF DevTypes, FlagTypes
      <3>2. CASE \E f \in Dev!Configs \cup {"broken"} : Dev!EditConfig(f)
        BY <3>2 DEF DevTypes, FlagTypes
      <3> QED BY <3>1, <3>2
    <2>3. PrintTypes'
      BY DEF DevTypes, PrintTypes
    <2> QED BY <2>1, <2>2, <2>3 DEF DevTypes
  <1>2. Followed'
    BY DEF DevTypes, FileTypes, FlagTypes, Followed, Noticed, Dev!Usable, Dev!Resolvable,
           Dev!Fingerprint
  <1>3. Decided' /\ Closed'
    BY DEF DevTypes, FlagTypes, Decided, Deciding, Closed, Dev!Fingerprint
  <1>4. Remembered' /\ HeldStill' /\ GatePassed' /\ Dev!SkipsAreSound'
    BY DEF DevTypes, FlagTypes, Remembered, Deciding, HeldStill, Gated, GatePassed,
           Dev!SkipsAreSound
  <1> QED BY <1>1, <1>2, <1>3, <1>4

\* The watchers, the timer and dispose.
LEMMA WatchKeeps ==
  ASSUME DevInv, Dev!Watch \/ Dev!Queue PROVE DevInv'
  <1> USE DEF DevInv, Dev!Watch, Dev!Poll, Dev!PollConfig, Dev!PollSchema, Dev!Schedule, Dev!Queue
  <1>1. DevTypes'
    <2>1. FileTypes'
      BY DEF DevTypes, FileTypes
    <2>2. FlagTypes'
      BY DEF DevTypes, FlagTypes
    <2>3. PrintTypes'
      BY DEF DevTypes, PrintTypes
    <2> QED BY <2>1, <2>2, <2>3 DEF DevTypes
  <1>2. Followed'
    BY DEF DevTypes, FileTypes, FlagTypes, Followed, Noticed, Closed, Dev!Usable, Dev!Resolvable,
           Dev!Fingerprint
  <1>3. Decided' /\ Closed'
    BY DEF DevTypes, FlagTypes, Decided, Deciding, Closed, Dev!Fingerprint, Dev!Running, Dev!Yields
  <1>4. Remembered' /\ HeldStill' /\ GatePassed' /\ Dev!SkipsAreSound'
    BY DEF DevTypes, FlagTypes, Remembered, Deciding, HeldStill, Gated, GatePassed,
           Dev!SkipsAreSound
  <1> QED BY <1>1, <1>2, <1>3, <1>4

LEMMA DisposeKeeps ==
  ASSUME DevInv, \E w \in Dev!Closers : Dev!Dispose(w) \/ Dev!DisposeReturns(w) PROVE DevInv'
  <1> USE DEF DevInv, Dev!Dispose, Dev!DisposeReturns
  <1>1. DevTypes'
    <2>1. FileTypes'
      BY DEF DevTypes, FileTypes
    <2>2. FlagTypes'
      BY DEF DevTypes, FlagTypes
    <2>3. PrintTypes'
      BY DEF DevTypes, PrintTypes
    <2> QED BY <2>1, <2>2, <2>3 DEF DevTypes
  <1>2. Followed'
    <2>1. CASE ~watching'
      BY <2>1 DEF Followed
    <2>2. CASE UNCHANGED <<source, inputPaths, configFile, watching, dirty, configDirty, timer,
                           queued,
                           pc, asked>>
      BY <2>2 DEF Followed, Noticed, Dev!Usable, Dev!Resolvable, Dev!Fingerprint
    <2> QED BY <2>1, <2>2
  <1>3. Decided' /\ Closed'
    BY DEF DevTypes, FlagTypes, Decided, Deciding, Closed, Dev!Fingerprint, Dev!Yields
  <1>4. Remembered' /\ HeldStill' /\ GatePassed' /\ Dev!SkipsAreSound'
    BY DEF DevTypes, FlagTypes, Remembered, Deciding, HeldStill, Gated, GatePassed,
           Dev!SkipsAreSound
  <1> QED BY <1>1, <1>2, <1>3, <1>4

\* The run of dev.ts: its start and its failures.
LEMMA StartKeeps == ASSUME DevInv, Dev!Start PROVE DevInv'
  <1> USE DEF DevInv, Dev!Start
  <1>1. DevTypes'
    <2>1. FileTypes'
      BY DEF DevTypes, FileTypes
    <2>2. FlagTypes'
      BY DEF DevTypes, FlagTypes
    <2>3. PrintTypes'
      BY DEF DevTypes, PrintTypes
    <2> QED BY <2>1, <2>2, <2>3 DEF DevTypes
  <1>2. Followed'
    BY DEF DevTypes, FileTypes, FlagTypes, Followed, Noticed, Dev!Usable, Dev!Resolvable,
           Dev!Fingerprint
  <1>3. Decided' /\ Closed'
    BY DEF DevTypes, FlagTypes, Decided, Deciding, Closed, Dev!Fingerprint
  <1>4. Remembered' /\ HeldStill' /\ GatePassed' /\ Dev!SkipsAreSound'
    BY DEF DevTypes, FileTypes, FlagTypes, Remembered, Deciding, HeldStill, Gated, GatePassed,
           Dev!SkipsAreSound
  <1> QED BY <1>1, <1>2, <1>3, <1>4

LEMMA ReadFailsKeeps == ASSUME DevInv, Dev!ReadFails PROVE DevInv'
  <1> USE DEF DevInv, Dev!ReadFails, Dev!EndRun, Dev!SubscribeFails
  <1>1. DevTypes'
    <2>1. FileTypes'
      BY DEF DevTypes, FileTypes
    <2>2. FlagTypes'
      BY DEF DevTypes, FlagTypes
    <2>3. PrintTypes'
      BY DEF DevTypes, PrintTypes
    <2> QED BY <2>1, <2>2, <2>3 DEF DevTypes
  <1>2. Followed'
    BY DEF DevTypes, FileTypes, FlagTypes, Followed, Noticed, Dev!Usable, Dev!Resolvable,
           Dev!Fingerprint
  <1>3. Decided' /\ Closed'
    BY DEF DevTypes, FlagTypes, Decided, Deciding, Closed, Dev!Fingerprint
  <1>4. Remembered' /\ HeldStill' /\ GatePassed' /\ Dev!SkipsAreSound'
    BY DEF DevTypes, FileTypes, FlagTypes, Remembered, Deciding, HeldStill, Gated, GatePassed,
           Dev!SkipsAreSound
  <1> QED BY <1>1, <1>2, <1>3, <1>4

\* The generator has written the schema of the inputs.
LEMMA WriteKeeps == ASSUME DevInv, Dev!Codegen \/ Dev!RustBin PROVE DevInv'
  <1> USE DEF DevInv, Dev!Codegen, Dev!RustBin, Dev!WriteSchema, Dev!Goto
  <1>1. DevTypes'
    <2>1. FileTypes'
      BY DEF DevTypes, FileTypes
    <2>2. FlagTypes'
      BY DEF DevTypes, FlagTypes
    <2>3. PrintTypes'
      BY DEF DevTypes, PrintTypes
    <2> QED BY <2>1, <2>2, <2>3 DEF DevTypes
  <1>2. Followed'
    BY DEF DevTypes, FileTypes, FlagTypes, Followed, Noticed, Dev!Usable, Dev!Resolvable,
           Dev!Fingerprint
  <1>3. Decided' /\ Closed'
    BY DEF DevTypes, FlagTypes, Decided, Deciding, Closed, Dev!Fingerprint
  <1>4. Remembered' /\ HeldStill' /\ GatePassed' /\ Dev!SkipsAreSound'
    BY DEF DevTypes, FileTypes, FlagTypes, Remembered, Deciding, HeldStill, Gated, GatePassed,
           Dev!SkipsAreSound
  <1> QED BY <1>1, <1>2, <1>3, <1>4

LEMMA GeneratedKeeps == ASSUME DevInv, Dev!Generated \/ Dev!TsCli PROVE DevInv'
  <1> USE DEF DevInv, Dev!Generated, Dev!TsCli, Dev!Goto
  <1>1. DevTypes'
    <2>1. FileTypes'
      BY DEF DevTypes, FileTypes
    <2>2. FlagTypes'
      BY DEF DevTypes, FlagTypes
    <2>3. PrintTypes'
      BY DEF DevTypes, PrintTypes
    <2> QED BY <2>1, <2>2, <2>3 DEF DevTypes
  <1>2. Followed'
    BY DEF DevTypes, FileTypes, FlagTypes, Followed, Noticed, Dev!Usable, Dev!Resolvable,
           Dev!Fingerprint
  <1>3. Decided' /\ Closed'
    BY DEF DevTypes, FlagTypes, Decided, Deciding, Closed, Dev!Fingerprint
  <1>4. Remembered' /\ HeldStill' /\ GatePassed' /\ Dev!SkipsAreSound'
    BY DEF DevTypes, FileTypes, FlagTypes, Remembered, Deciding, HeldStill, Gated, GatePassed,
           Dev!SkipsAreSound
  <1> QED BY <1>1, <1>2, <1>3, <1>4

LEMMA BuiltKeeps == ASSUME DevInv, Dev!Built PROVE DevInv'
  <1> USE DEF DevInv, Dev!Built, Dev!Goto, Dev!GateStage
  <1>1. DevTypes'
    <2>1. FileTypes'
      BY DEF DevTypes, FileTypes
    <2>2. FlagTypes'
      BY DEF DevTypes, FlagTypes
    <2>3. PrintTypes'
      BY DEF DevTypes, PrintTypes
    <2> QED BY <2>1, <2>2, <2>3 DEF DevTypes
  <1>2. Followed'
    BY DEF DevTypes, FileTypes, FlagTypes, Followed, Noticed, Dev!Usable, Dev!Resolvable,
           Dev!Fingerprint
  <1>3. Decided' /\ Closed'
    BY DEF DevTypes, FlagTypes, Decided, Deciding, Closed, Dev!Fingerprint
  <1>4. Remembered' /\ HeldStill' /\ GatePassed' /\ Dev!SkipsAreSound'
    BY DEF DevTypes, FileTypes, FlagTypes, Remembered, Deciding, HeldStill, Gated, GatePassed,
           Dev!SkipsAreSound
  <1> QED BY <1>1, <1>2, <1>3, <1>4

\* The gate.
LEMMA GateKeeps == ASSUME DevInv, Dev!Arm \/ (Dev!Verify /\ schema = baseline) PROVE DevInv'
  <1> USE DEF DevInv, Dev!Arm, Dev!Verify, Dev!Goto
  <1>1. DevTypes'
    <2>1. FileTypes'
      BY DEF DevTypes, FileTypes
    <2>2. FlagTypes'
      BY DEF DevTypes, FlagTypes
    <2>3. PrintTypes'
      BY DEF DevTypes, PrintTypes
    <2> QED BY <2>1, <2>2, <2>3 DEF DevTypes
  <1>2. Followed'
    BY DEF DevTypes, FileTypes, FlagTypes, Followed, Noticed, Dev!Usable, Dev!Resolvable,
           Dev!Fingerprint
  <1>3. Decided' /\ Closed'
    BY DEF DevTypes, FlagTypes, Decided, Deciding, Closed, Dev!Fingerprint
  <1>4. Remembered' /\ HeldStill' /\ GatePassed' /\ Dev!SkipsAreSound'
    BY DEF DevTypes, FileTypes, FlagTypes, Remembered, Deciding, HeldStill, Gated, GatePassed,
           Dev!SkipsAreSound
  <1> QED BY <1>1, <1>2, <1>3, <1>4

LEMMA DriftKeeps == ASSUME DevInv, Dev!Verify, schema # baseline PROVE DevInv'
  <1> USE DEF DevInv, Dev!Verify, Dev!EndRun
  <1>1. DevTypes'
    <2>1. FileTypes'
      BY DEF DevTypes, FileTypes
    <2>2. FlagTypes'
      BY DEF DevTypes, FlagTypes
    <2>3. PrintTypes'
      BY DEF DevTypes, PrintTypes
    <2> QED BY <2>1, <2>2, <2>3 DEF DevTypes
  <1>2. Followed'
    BY DEF DevTypes, FileTypes, FlagTypes, Followed, Noticed, Dev!Usable, Dev!Resolvable,
           Dev!Fingerprint
  <1>3. Decided' /\ Closed'
    BY DEF DevTypes, FlagTypes, Decided, Deciding, Closed, Dev!Fingerprint
  <1>4. Remembered' /\ HeldStill' /\ GatePassed' /\ Dev!SkipsAreSound'
    BY DEF DevTypes, FileTypes, FlagTypes, Remembered, Deciding, HeldStill, Gated, GatePassed,
           Dev!SkipsAreSound
  <1> QED BY <1>1, <1>2, <1>3, <1>4

\* The run of legacy-dev.ts.
LEMMA CleanKeeps == ASSUME DevInv, Dev!LegacyClean PROVE DevInv'
  <1> USE DEF DevInv, Dev!LegacyClean
  <1>1. DevTypes'
    <2>1. FileTypes'
      BY DEF DevTypes, FileTypes
    <2>2. FlagTypes'
      BY DEF DevTypes, FlagTypes
    <2>3. PrintTypes'
      BY SeenType DEF DevTypes, FileTypes, PrintTypes, Dev!Fingerprint
    <2> QED BY <2>1, <2>2, <2>3 DEF DevTypes
  <1>2. Followed'
    BY SeenType DEF DevTypes, FileTypes, FlagTypes, Followed, Noticed, Dev!Usable, Dev!Resolvable,
           Dev!Fingerprint
  <1>3. Decided' /\ Closed'
    BY DEF DevTypes, FlagTypes, Decided, Deciding, Closed, Dev!Fingerprint
  <1>4. Remembered' /\ HeldStill' /\ GatePassed' /\ Dev!SkipsAreSound'
    BY DEF DevTypes, FileTypes, FlagTypes, Remembered, Deciding, HeldStill, Gated, GatePassed,
           Dev!SkipsAreSound
  <1> QED BY <1>1, <1>2, <1>3, <1>4

\* The decision of a run that has read its inputs: what it remembers is for them.
LEMMA ReadConfigKeeps == ASSUME DevInv, Dev!ReadConfig PROVE DevInv'
  <1> DEFINE now == Dev!Seen(inputPaths', source)
             successful == IF configFile # config THEN None ELSE lastSuccessful
  <1>1. /\ pc = "reading" /\ ~disposed
        /\ config' = configFile /\ gateKey' = configFile
        /\ watching' /\ inputPaths' = known /\ ~dirty' /\ watching' \in BOOLEAN /\ dirty' \in BOOLEAN
        /\ asked' = now /\ ~moved' /\ moved' \in BOOLEAN
        /\ UNCHANGED <<mode, source, known, schema, configFile, clients, live, configDirty, timer,
                       queued, disposed, edited, built>>
    BY DEF Dev!ReadConfig, Dev!Subscribe, Dev!Takes, Dev!Decide, Dev!Goto
  <1>2. now \in Prints /\ now \notin {None, Unknown}
    BY <1>1, SeenType DEF DevInv, DevTypes, FileTypes
  <1>3. \/ pc' = "prearming" /\ gateKey # configFile /\ lastSuccessful' = successful
           /\ UNCHANGED <<decision, full>>
        \/ \E fp \in {now, Unknown} :
             /\ decision' = fp
             /\ \/ /\ fp # Unknown /\ fp = successful /\ lastSuccessful' = successful
                   /\ full' = FALSE
                   /\ pc' \in {"verifying", "arming"} \/ (pc' = "finishing" /\ gateKey' # "gated")
                \/ full' = TRUE /\ lastSuccessful' = None /\ pc' = "codegen"
    BY DEF Dev!ReadConfig, Dev!Decide, Dev!Goto, Dev!GateStage
  <1> HIDE DEF now
  <1>4. lastSuccessful' = None \/ (lastSuccessful' = lastSuccessful /\ lastSuccessful = now)
    BY <1>1, <1>2, <1>3 DEF DevInv, DevTypes, FileTypes, Remembered
  <1>5. pc' \notin {"idle", "starting", "reading", "cargo", "tsCli", "generating", "building"}
        /\ (pc' \in Deciding => decision' \in {now, Unknown})
    BY <1>3 DEF Deciding
  <1>6. DevTypes'
    <2>1. FileTypes'
      BY <1>1, <1>5 DEF DevInv, DevTypes, FileTypes
    <2>2. FlagTypes'
      BY <1>1, <1>3 DEF DevInv, DevTypes, FlagTypes
    <2>3. PrintTypes'
      BY <1>1, <1>2, <1>3, <1>4 DEF DevInv, DevTypes, PrintTypes
    <2> QED BY <2>1, <2>2, <2>3 DEF DevTypes
  <1>7. Followed' /\ Decided' /\ Closed'
    BY <1>1, <1>5 DEF DevInv, Followed, Decided, Closed, Dev!Fingerprint, now
  <1>8. Remembered'
    BY <1>1, <1>3, <1>4, <1>5 DEF DevInv, DevTypes, FileTypes, Remembered, Deciding
  <1>9. HeldStill' /\ GatePassed'
    BY <1>3, <1>5 DEF HeldStill, GatePassed, Gated
  <1>10. Dev!SkipsAreSound'
    <2> SUFFICES ASSUME mode = "config", lastSuccessful' # None, ~edited
                 PROVE  /\ live # None /\ Dev!Seen(inputPaths', live) = lastSuccessful'
                        /\ clients = Contract[live.main]
      BY <1>1 DEF Dev!SkipsAreSound
    <2>1. lastSuccessful' = lastSuccessful /\ lastSuccessful = now
      BY <1>4
    <2>2. live # None /\ Dev!Seen(inputPaths, live) = now /\ clients = Contract[live.main]
      BY <2>1 DEF DevInv, Dev!SkipsAreSound
    <2>3. inputPaths' = inputPaths
      BY <2>2 DEF now, Dev!Seen
    <2> QED BY <2>1, <2>2, <2>3
  <1> QED BY <1>6, <1>7, <1>8, <1>9, <1>10 DEF DevInv

\* The gate is armed before the inputs are generated anew, and the run decides then.
LEMMA PreArmKeeps == ASSUME DevInv, Dev!PreArm PROVE DevInv'
  <1> DEFINE now == Dev!Fingerprint
  <1>1. /\ pc = "prearming" /\ ~disposed /\ asked' = now /\ ~moved' /\ moved' \in BOOLEAN
        /\ UNCHANGED <<mode, source, known, schema, configFile, clients, live, Dev!watchVars, timer,
                       queued, disposed, config, gateKey, edited, built>>
    BY DEF Dev!PreArm, Dev!Takes, Dev!Decide, Dev!Goto, Dev!Fingerprint
  <1>2. now \in Prints /\ now \notin {None, Unknown} /\ now' = now
    BY <1>1, SeenType DEF DevInv, DevTypes, FileTypes, Dev!Fingerprint
  <1>3. mode = "config" /\ lastSuccessful = None
    BY <1>1 DEF DevInv, DevTypes, FileTypes, Remembered
  <1>4. PICK fp \in {now, Unknown} : decision' = fp
           /\ (\/ fp # Unknown /\ fp = lastSuccessful
               \/ full' = TRUE /\ lastSuccessful' = None /\ pc' = "codegen")
    BY DEF Dev!PreArm, Dev!Decide, Dev!Goto
  <1> HIDE DEF now
  <1>5. decision' \in {now, Unknown} /\ full' = TRUE /\ lastSuccessful' = None /\ pc' = "codegen"
    BY <1>2, <1>3, <1>4
  <1>6. DevTypes'
    <2>1. FileTypes'
      BY <1>1, <1>5 DEF DevInv, DevTypes, FileTypes
    <2>2. FlagTypes'
      BY <1>1, <1>5 DEF DevInv, DevTypes, FlagTypes
    <2>3. PrintTypes'
      BY <1>1, <1>2, <1>5 DEF DevInv, DevTypes, PrintTypes
    <2> QED BY <2>1, <2>2, <2>3 DEF DevTypes
  <1>7. Followed' /\ Decided' /\ Closed'
    BY <1>1, <1>2, <1>5 DEF DevInv, Followed, Decided, Closed, now
  <1>8. Remembered' /\ HeldStill' /\ GatePassed' /\ Dev!SkipsAreSound'
    BY <1>1, <1>5 DEF DevInv, Remembered, HeldStill, GatePassed, Gated, Deciding, Dev!SkipsAreSound
  <1> QED BY <1>6, <1>7, <1>8 DEF DevInv

\* A success: what is remembered is the decision, and it was for the files as
\* they are, or another run is due.
LEMMA FinishKeeps == ASSUME DevInv, Dev!Finish, Dev!Resolvable PROVE DevInv'
  <1> DEFINE now == Dev!Seen(inputPaths', source)
             discovered == inputPaths' # inputPaths
  <1>1. PICK again \in {now, Unknown} :
          /\ lastSuccessful' = IF discovered \/ decision = Unknown THEN None ELSE decision
          /\ asked' = IF decision = Unknown /\ ~discovered THEN Unknown ELSE asked
          /\ timer' = (timer \/ discovered \/ (decision # Unknown /\ again # decision))
    BY DEF Dev!Finish, Dev!Emit, Dev!Subscribe
  <1>2. /\ mode = "config" /\ pc = "finishing" /\ pc' = "reloading"
        /\ inputPaths' = known /\ watching' \in BOOLEAN /\ dirty' \in BOOLEAN
        /\ live' = (IF full THEN built ELSE live) /\ edited' = (IF full THEN moved ELSE edited)
        /\ UNCHANGED <<mode, source, known, schema, configFile, clients, configDirty, queued,
                       disposed,
                       config, gateKey, full, decision, moved>>
    BY DEF Dev!Finish, Dev!Emit, Dev!Subscribe
  <1>3. now \in Prints /\ now \notin {None, Unknown} /\ now = Dev!Fingerprint'
    BY <1>2, SeenType DEF DevInv, DevTypes, FileTypes, Dev!Fingerprint
  <1>4. decision \in {asked, Unknown} /\ ~disposed /\ (~moved => asked = Dev!Fingerprint)
    BY <1>2 DEF DevInv, Decided, Deciding, Closed
  <1> HIDE DEF now
  <1>5. DevTypes'
    <2>1. FileTypes'
      BY <1>2 DEF DevInv, DevTypes, FileTypes
    <2>2. timer' \in BOOLEAN
      BY <1>1
    <2>3. FlagTypes'
      BY <1>2, <2>2 DEF DevInv, DevTypes, FlagTypes
    <2>4. PrintTypes'
      BY <1>1, <1>2 DEF DevInv, DevTypes, PrintTypes
    <2> QED BY <2>1, <2>3, <2>4 DEF DevTypes
  <1>6. Followed'
    BY <1>1, <1>2, <1>3, <1>4 DEF Followed, Noticed
  <1>7. Decided' /\ Closed'
    BY <1>2, <1>4 DEF Decided, Deciding, Closed
  <1>8. Remembered' /\ HeldStill' /\ GatePassed'
    BY <1>1, <1>2 DEF DevInv, Remembered, HeldStill, GatePassed, Gated, Deciding
  <1>9. Dev!SkipsAreSound'
    <2> SUFFICES ASSUME lastSuccessful' # None, ~edited'
                 PROVE  /\ live' # None /\ Dev!Seen(inputPaths', live') = lastSuccessful'
                        /\ clients = Contract[live'.main]
      BY <1>2 DEF Dev!SkipsAreSound
    <2>1. inputPaths' = inputPaths /\ decision # Unknown /\ lastSuccessful' = decision
      BY <1>1
    <2>2. CASE full
      <3>1. live' = source /\ ~moved /\ clients = Contract[source.main]
        BY <1>2, <2>2 DEF DevInv, HeldStill, Gated
      <3>2. decision = Dev!Seen(inputPaths, source)
        BY <1>4, <2>1, <3>1 DEF Dev!Fingerprint
      <3>3. source # None
        BY AbsentAssumption DEF DevInv, DevTypes, FileTypes
      <3> QED BY <2>1, <3>1, <3>2, <3>3
    <2>3. CASE ~full
      <3>1. decision = lastSuccessful /\ live' = live /\ ~edited
        BY <1>2, <2>3 DEF DevInv, Remembered, Deciding
      <3> QED BY <1>2, <2>1, <3>1 DEF DevInv, Dev!SkipsAreSound
    <2> QED BY <2>2, <2>3
  <1> QED BY <1>5, <1>6, <1>7, <1>8, <1>9 DEF DevInv

LEMMA FinishFailsKeeps == ASSUME DevInv, Dev!Finish, ~Dev!Resolvable PROVE DevInv'
  <1> USE DEF DevInv, Dev!Finish, Dev!SubscribeFails, Dev!EndRun
  <1>1. DevTypes'
    <2>1. FileTypes'
      BY DEF DevTypes, FileTypes
    <2>2. FlagTypes'
      BY DEF DevTypes, FlagTypes
    <2>3. PrintTypes'
      BY DEF DevTypes, PrintTypes
    <2> QED BY <2>1, <2>2, <2>3 DEF DevTypes
  <1>2. Followed'
    BY DEF DevTypes, FileTypes, Followed
  <1>3. Decided' /\ Closed'
    BY DEF DevTypes, FlagTypes, FileTypes, Decided, Deciding, Closed
  <1>4. Remembered' /\ HeldStill' /\ GatePassed'
    BY DEF DevTypes, FlagTypes, Remembered, Deciding, HeldStill, Gated, GatePassed
  <1>5. Dev!SkipsAreSound'
    BY DEF Remembered, Deciding, Dev!SkipsAreSound
  <1> QED BY <1>1, <1>2, <1>3, <1>4, <1>5

LEMMA LegacyStartKeeps == ASSUME DevInv, Dev!LegacyStart PROVE DevInv'
  <1>1. /\ mode = "legacy" /\ (pc = "starting" \/ timer) /\ timer' = FALSE
        /\ pc' \in {"cargo", "tsCli", "idle"} /\ (pc = "starting" \/ pc = "idle")
        /\ asked' = Dev!Fingerprint' /\ ~moved' /\ moved' \in BOOLEAN
        /\ (pc' # "idle" => decision' \in {Dev!Fingerprint', Unknown})
        /\ UNCHANGED <<mode, source, known, configDirty, queued, disposed, edited>>
    <2>1. CASE Dev!Resolvable
      BY <2>1 DEF Dev!LegacyStart, Dev!Takes, Dev!Fingerprint, Dev!Subscribe
    <2>2. CASE ~Dev!Resolvable
      BY <2>2 DEF Dev!LegacyStart, Dev!Takes, Dev!Fingerprint, Dev!SubscribeFails
    <2> QED BY <2>1, <2>2
  <1>2. /\ watching' \in BOOLEAN /\ dirty' \in BOOLEAN /\ inputPaths' \in BOOLEAN /\ full' \in BOOLEAN
        /\ decision' \in {decision, Dev!Fingerprint', Unknown}
        /\ lastSuccessful' \in {None, lastSuccessful, Dev!Fingerprint'}
    BY DEF Dev!LegacyStart, Dev!Subscribe, Dev!SubscribeFails, Dev!Memo, Dev!NeedsRust,
           Dev!Fingerprint, DevInv, DevTypes, FileTypes, FlagTypes
  <1>3. Dev!Fingerprint' \in Prints
    BY <1>1, <1>2, SeenType DEF Dev!Fingerprint, DevInv, DevTypes, FileTypes
  <1>4. ~disposed /\ ~queued
    BY <1>1 DEF DevInv, Closed, Decided
  <1>5. DevTypes'
    <2>1. FileTypes'
      BY <1>1, <1>2 DEF DevInv, DevTypes, FileTypes
    <2>2. FlagTypes'
      BY <1>1, <1>2 DEF DevInv, DevTypes, FlagTypes
    <2>3. PrintTypes'
      BY <1>1, <1>2, <1>3 DEF DevInv, DevTypes, PrintTypes
    <2> QED BY <2>1, <2>2, <2>3 DEF DevTypes
  <1>6. Followed' /\ Decided' /\ Closed'
    BY <1>1, <1>4 DEF DevInv, Followed, Decided, Deciding, Closed
  <1>7. Remembered' /\ HeldStill' /\ GatePassed' /\ Dev!SkipsAreSound'
    BY <1>1 DEF Remembered, HeldStill, GatePassed, Dev!SkipsAreSound
  <1> QED BY <1>5, <1>6, <1>7 DEF DevInv

LEMMA LegacyFinishKeeps == ASSUME DevInv, Dev!LegacyFinish PROVE DevInv'
  <1>1. /\ mode = "legacy" /\ pc = "finishing" /\ pc' \in {"reloading", "idle"}
        /\ UNCHANGED <<mode, source, known, configFile, configDirty, disposed, asked, moved>>
        /\ \/ pc' = "reloading" /\ queued' = queued
           \/ pc' = "idle" /\ queued' = (queued /\ disposed)
    <2>1. CASE Dev!Resolvable
      BY <2>1 DEF Dev!LegacyFinish, Dev!Subscribe, Dev!Emit, Dev!EndRun
    <2>2. CASE ~Dev!Resolvable
      BY <2>2 DEF Dev!LegacyFinish, Dev!SubscribeFails, Dev!EndRun
    <2> QED BY <2>1, <2>2
  <1>2. decision \in {asked, Unknown} /\ ~disposed /\ timer \in BOOLEAN /\ queued \in BOOLEAN
        /\ known \in BOOLEAN
    BY <1>1 DEF DevInv, Decided, Deciding, Closed, DevTypes, FlagTypes, FileTypes
  <1>3. \/ /\ UNCHANGED <<inputPaths, watching, dirty, edited, lastSuccessful>>
           /\ timer' = (timer \/ queued) /\ pc' = "idle" /\ full' \in BOOLEAN /\ decision' = None
        \/ /\ inputPaths' = known /\ edited' = moved
           /\ watching' \in BOOLEAN /\ dirty' \in BOOLEAN /\ timer' \in BOOLEAN
           /\ lastSuccessful' \in {decision, None} /\ decision' \in {decision, None}
           /\ full' \in {full, FALSE}
           /\ timer' \/ (decision # Unknown /\ decision = Dev!Fingerprint')
    <2>1. CASE Dev!Resolvable
      <3>1. /\ inputPaths' = known /\ edited' = moved /\ watching' = TRUE /\ dirty' = FALSE
            /\ decision' \in {decision, None} /\ full' \in {full, FALSE}
        BY <2>1 DEF Dev!LegacyFinish, Dev!Subscribe, Dev!Emit, Dev!EndRun
      <3>2. PICK after \in {Dev!Fingerprint', Unknown} :
              LET stable == decision # Unknown /\ after = decision
              IN /\ lastSuccessful' = IF stable THEN decision ELSE None
                 /\ \/ timer' = (timer \/ ~stable)
                    \/ timer' = (timer \/ ~stable \/ (queued /\ ~disposed))
        BY <2>1, <1>1 DEF Dev!LegacyFinish, Dev!Subscribe, Dev!Emit, Dev!EndRun, Dev!Fingerprint
      <3> QED BY <3>1, <3>2, <1>2
    <2>2. CASE ~Dev!Resolvable
      BY <1>1, <1>2, <2>2 DEF Dev!LegacyFinish, Dev!SubscribeFails, Dev!EndRun, DevInv, DevTypes,
                              FlagTypes
    <2> QED BY <2>1, <2>2
  <1>4. DevTypes'
    <2>1. FileTypes'
      BY <1>1, <1>3 DEF DevInv, DevTypes, FileTypes
    <2>2. FlagTypes'
      BY <1>1, <1>2, <1>3 DEF DevInv, DevTypes, FlagTypes
    <2>3. PrintTypes'
      BY <1>1, <1>3 DEF DevInv, DevTypes, PrintTypes
    <2> QED BY <2>1, <2>2, <2>3 DEF DevTypes
  <1>5. Followed'
    BY <1>1, <1>2, <1>3 DEF DevInv, Followed, Noticed, Dev!Usable, Dev!Resolvable, Dev!Fingerprint
  <1>6. Decided' /\ Closed'
    BY <1>1, <1>2 DEF Decided, Deciding, Closed
  <1>7. Remembered' /\ HeldStill' /\ GatePassed' /\ Dev!SkipsAreSound'
    BY <1>1 DEF Remembered, HeldStill, GatePassed, Dev!SkipsAreSound
  <1> QED BY <1>4, <1>5, <1>6, <1>7 DEF DevInv

LEMMA DevKept == DevInv /\ UNCHANGED devVars => DevInv'
  <1> SUFFICES ASSUME DevInv, UNCHANGED devVars PROVE DevInv'
    OBVIOUS
  <1> USE DEF devVars
  <1>1. DevTypes'
    BY DEF DevInv, DevTypes, FileTypes, FlagTypes, PrintTypes
  <1>2. Followed' /\ Decided' /\ Closed'
    BY DEF DevInv, Followed, Noticed, Decided, Deciding, Closed, Dev!Usable, Dev!Resolvable,
           Dev!Fingerprint
  <1>3. Remembered' /\ HeldStill' /\ GatePassed' /\ Dev!SkipsAreSound'
    BY DEF DevInv, Remembered, Deciding, HeldStill, Gated, GatePassed, Dev!SkipsAreSound
  <1> QED BY <1>1, <1>2, <1>3 DEF DevInv

LEMMA RunKeeps == ASSUME DevInv, Dev!Run PROVE DevInv'
  <1>1. CASE Dev!PublishFails \/ Dev!Aborted \/ Dev!Fails
    <2>1. Dev!Returns /\ pc # "idle" /\ (pc \in {"starting", "reading"} => disposed)
      BY <1>1 DEF Dev!PublishFails, Dev!Aborted, Dev!Fails
    <2> QED BY <2>1, ReturnsKeeps
  <1>2. CASE Dev!HooksReturn
    <2>1. Dev!Returns /\ pc = "reloading"
      BY <1>2 DEF Dev!HooksReturn, Dev!Returns
    <2> QED BY <2>1, ReturnsKeeps
  <1>3. CASE Dev!Finish
    BY <1>3, FinishKeeps, FinishFailsKeeps
  <1>4. CASE Dev!Arm \/ Dev!Verify
    BY <1>4, GateKeeps, DriftKeeps
  <1>5. CASE Dev!Start \/ Dev!ReadConfig \/ Dev!ReadFails \/ Dev!PreArm
    BY <1>5, StartKeeps, ReadConfigKeeps, ReadFailsKeeps, PreArmKeeps
  <1>6. CASE Dev!Codegen \/ Dev!RustBin \/ Dev!Generated \/ Dev!TsCli \/ Dev!Built
    BY <1>6, WriteKeeps, GeneratedKeeps, BuiltKeeps
  <1>7. CASE Dev!LegacyClean \/ Dev!LegacyStart \/ Dev!LegacyFinish
    BY <1>7, CleanKeeps, LegacyStartKeeps, LegacyFinishKeeps
  <1> QED BY <1>1, <1>2, <1>3, <1>4, <1>5, <1>6, <1>7 DEF Dev!Run

LEMMA DevNext == DevInv /\ Dev!Next => DevInv'
  BY RunKeeps, WatchKeeps, DisposeKeeps, EditKeeps, EditOthersKeeps DEF Dev!Next

LEMMA SessionInvariance == ReloadSpec => []DevInv
  <1>1. ReloadInit => DevInv
    BY DevStart DEF ReloadInit
  <1>2. DevInv /\ [(AtHost /\ Next) \/ (AtDev /\ Dev!Next)]_all => DevInv'
    BY DevNext, DevKept DEF AtHost, all
  <1> QED BY <1>1, <1>2, PTL DEF ReloadSpec

\* However edits cross polls, runs and the exchange of the watchers, none is
\* lost, and a run that skips Cargo has published what it remembers, for any
\* contents and any number of edits (dev.ts, watch.ts, legacy-dev.ts).
THEOREM DevLoopIsSound == ReloadSpec => []DevLoopSound
  <1>1. DevInv => DevLoopSound
    <2> SUFFICES ASSUME DevInv PROVE Dev!NoEditLost /\ Dev!SkipsAreSound
      BY DEF DevLoopSound, Dev!DevLoopSound
    <2>1. Dev!NoEditLost
      BY DEF DevInv, Followed, Noticed, Decided, Dev!NoEditLost, Dev!AtRest, Dev!Running
    <2> QED BY <2>1 DEF DevInv
  <1> QED BY <1>1, SessionInvariance, PTL

\* What a step may do after dispose, and which step publishes.
Settling == disposed => disposed' /\ pc' \in {pc, "idle"}

LEMMA RunSettles == ASSUME DevInv, Dev!Run PROVE Settling /\ (live' = live \/ Dev!Finish)
  <1> USE DEF Settling, DevInv, Closed
  <1>1. CASE Dev!PublishFails \/ Dev!Aborted \/ Dev!Fails \/ Dev!HooksReturn \/ Dev!ReadFails
    BY <1>1 DEF Dev!PublishFails, Dev!Aborted, Dev!Fails, Dev!HooksReturn, Dev!ReadFails,
                Dev!Returns,
                Dev!EndRun
  <1>2. CASE Dev!Finish
    BY <1>2 DEF Dev!Finish
  <1>3. CASE Dev!Arm \/ Dev!Verify \/ Dev!Built
    BY <1>3 DEF Dev!Arm, Dev!Verify, Dev!Built, Dev!Goto
  <1>4. CASE Dev!Start
    BY <1>4 DEF Dev!Start
  <1>5. CASE Dev!ReadConfig \/ Dev!PreArm
    BY <1>5 DEF Dev!ReadConfig, Dev!PreArm
  <1>6. CASE Dev!Codegen \/ Dev!RustBin \/ Dev!Generated \/ Dev!TsCli
    BY <1>6 DEF Dev!Codegen, Dev!RustBin, Dev!Generated, Dev!TsCli, Dev!WriteSchema
  <1>7. CASE Dev!LegacyClean
    BY <1>7 DEF Dev!LegacyClean
  <1>8. CASE Dev!LegacyStart \/ Dev!LegacyFinish
    BY <1>8 DEF Dev!LegacyStart, Dev!LegacyFinish
  <1> QED BY <1>1, <1>2, <1>3, <1>4, <1>5, <1>6, <1>7, <1>8 DEF Dev!Run

LEMMA Settles == ASSUME DevInv, Dev!Next PROVE Settling /\ (live' = live \/ Dev!Finish)
  <1>1. CASE Dev!Watch \/ Dev!Queue
    BY <1>1 DEF Settling, Dev!Watch, Dev!Queue
  <1>2. CASE \E w \in Dev!Closers : Dev!Dispose(w) \/ Dev!DisposeReturns(w)
    BY <1>2 DEF Settling, Dev!Dispose, Dev!DisposeReturns
  <1>3. CASE \/ \E s \in Dev!Inputs : Dev!Edit(s)
             \/ \E s \in {Foreign, Missing} : Dev!EditSchema(s)
             \/ \E f \in Dev!Configs \cup {"broken"} : Dev!EditConfig(f)
    BY <1>3 DEF Settling, Dev!Edit, Dev!EditSchema, Dev!EditConfig, Dev!Editing
  <1> QED BY <1>1, <1>2, <1>3, RunSettles DEF Dev!Next

\* A core is published by an open session only and, under an armed gate, with the
\* contract of the gate if the files held still; a closed session starts nothing
\* (dev.ts, parity-gate.ts, watch.ts).
THEOREM PublishesRightly == ReloadSpec => PublishedRightly
  <1> DEFINE Rightly ==
        /\ live' # live => ~disposed
        /\ live' # live /\ gateKey = "gated" /\ gateArmed /\ ~armedPre /\ ~moved =>
             Contract[live'.main] = baseline
        /\ disposed => UNCHANGED <<watching, timer, queued>> /\ (pc' # pc => pc' = "idle")
  <1>1. DevInv /\ DevInv' /\ [(AtHost /\ Next) \/ (AtDev /\ Dev!Next)]_all => [Rightly]_Dev!vars
    <2> SUFFICES ASSUME DevInv, DevInv', AtDev /\ Dev!Next PROVE Rightly
      BY DEF AtHost, all, devVars, Dev!vars
    <2>1. Settling /\ (live' = live \/ Dev!Finish)
      BY Settles
    <2>2. live' # live => /\ mode = "config" /\ pc = "finishing" /\ full /\ live' = built
      BY <2>1 DEF Dev!Finish
    <2>3. live' # live => ~disposed
      BY <2>2 DEF DevInv, Closed
    <2>4. live' # live /\ gateKey = "gated" /\ ~moved => Contract[live'.main] = baseline
      BY <2>2 DEF DevInv, HeldStill, Gated, GatePassed
    <2>5. disposed => UNCHANGED <<watching, timer, queued>>
      BY <2>1 DEF Settling, DevInv, Closed, DevTypes, FlagTypes
    <2> QED BY <2>1, <2>3, <2>4, <2>5 DEF Settling
  <1>2. [][Rightly]_Dev!vars <=> PublishedRightly
    BY DEF PublishedRightly, Dev!PublishedRightly
  <1> QED BY <1>1, <1>2, SessionInvariance, PTL DEF ReloadSpec
================================================================================
