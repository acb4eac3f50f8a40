-------------------------------- MODULE DevLoop --------------------------------
(***************************************************************************)
(* `rustra dev' (packages/cli/src): watchers that compare snapshots, a     *)
(* debounce timer and a loop in which one run at a time turns the Rust     *)
(* inputs into a schema, clients and, with a configuration, a core that a  *)
(* running host swaps in.  `mode' is "config" (dev.ts) or "legacy"         *)
(* (legacy-dev.ts, --backend/--app).                                       *)
(*                                                                         *)
(* A step is one job of the event loop: what runs between two awaits.  The *)
(* inputs are the files Cargo is known to read and one it reads besides    *)
(* (an include! or an input of a build script), which only the dep-info of *)
(* a build shows.  The user edits between any two steps.                   *)
(***************************************************************************)
EXTENDS Integers

CONSTANTS
  Contents,      \* of the inputs known beforehand
  First,         \* at the start of the session
  Contract,      \* the schema each of them generates
  Unresolvable,  \* those on which cargo metadata fails
  Foreign,       \* a schema file that no run has written
  Missing,       \* no schema file
  None,
  Unknown,       \* a fingerprint that could not be read
  MaxEdits       \* bound on the edits of a behaviour

Configs == {"gated", "plain"}     \* dev.dylib with the parity gate and without
Inputs == [main : Contents, extra : BOOLEAN]

VARIABLES
  mode,
  source, known, schema, configFile, edits,   \* on disk; known: dep-info is there
  clients, stale, live,         \* the schema the clients are of, whether it is newer,
                                \* and the published core
  watching, inputPaths, dirty, schemaDirty, configDirty,  \* the watchers
  timer, queued, pc, launched, disposed, closing,         \* the loop
  config, initialized,          \* configText; of the legacy mode
  lastGenerated, lastSuccessful,
  gateKey, gateArmed, baseline,
  armedPre, full, decision, artifact,  \* of the run: armedPreCodegen, not skipped, ...
  asked, moved, torn            \* history: the inputs a run was last started for, an
                                \* edit since, and one during the last success

diskVars == <<source, known, schema, configFile, edits>>
outVars == <<clients, stale, live>>
watchVars == <<watching, inputPaths, dirty, schemaDirty, configDirty>>
loopVars == <<timer, queued, pc, launched, disposed, closing>>
memoVars == <<config, initialized, lastGenerated, lastSuccessful>>
gateVars == <<gateKey, gateArmed, baseline>>
runVars == <<armedPre, full, decision, artifact>>
histVars == <<asked, moved, torn>>
vars == <<mode, diskVars, outVars, watchVars, loopVars, memoVars, gateVars, runVars, histVars>>

Running == pc # "idle"
Closers == {"host", "hook"}      \* who calls dispose(): the host, a reload hook

(* What devInputFingerprint tells apart under a set of paths. *)
Seen(paths, s) == <<paths, IF paths THEN s ELSE [s EXCEPT !.extra = FALSE]>>
Fingerprint == Seen(inputPaths, source)

Init ==
  /\ mode \in {"config", "legacy"}
  /\ source = [main |-> First, extra |-> FALSE]
  /\ known \in BOOLEAN /\ schema \in {Missing, Foreign}
  /\ configFile \in IF mode = "config" THEN Configs ELSE {"plain"}
  /\ edits = 0 /\ clients = None /\ stale = FALSE /\ live = None
  /\ watching = (mode = "legacy") /\ inputPaths = FALSE
  /\ dirty = FALSE /\ schemaDirty = FALSE /\ configDirty = FALSE
  /\ timer = FALSE /\ queued = FALSE /\ pc = "starting" /\ launched = FALSE
  /\ disposed = FALSE /\ closing = [w \in Closers |-> "none"]
  /\ config = None /\ initialized = FALSE
  /\ lastGenerated = None /\ lastSuccessful = None
  /\ gateKey = "plain" /\ gateArmed = FALSE /\ baseline = None
  /\ armedPre = FALSE /\ full = FALSE /\ decision = None /\ artifact = None
  /\ asked = None /\ moved = FALSE /\ torn = FALSE

-----------------------------------------------------------------------------
(* The loop (watch.ts): schedule(), the timer, the end of a run and dispose. *)

(* Mutant: what came while the run was on is dropped. *)
MutEndRun(scheduled) ==
  /\ pc' = "idle" /\ launched' = TRUE
  /\ timer' = (timer \/ scheduled) /\ queued' = FALSE
  /\ armedPre' = FALSE /\ full' = FALSE /\ decision' = None /\ artifact' = None
  /\ UNCHANGED <<disposed, closing>>

(* A run returns or fails; what came while it ran is one more run. *)
EndRun(scheduled) ==
  /\ pc' = "idle" /\ launched' = TRUE
  /\ timer' = (timer \/ scheduled \/ (queued /\ ~disposed))
  /\ queued' = (queued /\ disposed)
  /\ armedPre' = FALSE /\ full' = FALSE /\ decision' = None /\ artifact' = None
  /\ UNCHANGED <<disposed, closing>>

Goto(next) == pc' = next /\ UNCHANGED <<timer, queued, launched, disposed, closing>>

(* It goes on to emit reload, and may have called schedule() before. *)
Emit(scheduled) ==
  /\ pc' = "reloading" /\ timer' = (timer \/ scheduled)
  /\ UNCHANGED <<queued, launched, disposed, closing, runVars>>

(* Between awaits no other job of this process runs, nor before the first    *)
(* run; users go on editing.                                                 *)
Yields == pc \notin {"starting", "finishing"}

Queue ==
  /\ timer /\ Running /\ Yields
  /\ timer' = FALSE /\ queued' = TRUE
  /\ UNCHANGED <<mode, diskVars, outVars, watchVars, pc, launched, disposed, closing,
                 memoVars, gateVars, runVars, histVars>>

(* Mutant: a hook that disposes of its session waits for the run it is part of. *)
MutJoins(w) == Running

(* Joining the run from a callback of that run would wait for itself. *)
Joins(w) == Running /\ w # "hook"

Dispose(w) ==
  /\ launched /\ Yields /\ closing[w] = "none"
  /\ w = "hook" => pc = "reloading"
  /\ closing' = [closing EXCEPT ![w] = IF Joins(w) THEN "joining" ELSE "returned"]
  /\ disposed' = TRUE /\ queued' = FALSE /\ timer' = FALSE
  /\ watching' = FALSE
  /\ dirty' = FALSE /\ schemaDirty' = FALSE /\ configDirty' = FALSE
  /\ UNCHANGED <<mode, diskVars, outVars, inputPaths, pc, launched, memoVars, gateVars,
                 runVars, histVars>>

DisposeReturns(w) ==
  /\ closing[w] = "joining" /\ ~Running
  /\ closing' = [closing EXCEPT ![w] = "returned"]
  /\ UNCHANGED <<mode, diskVars, outVars, watchVars, timer, queued, pc, launched, disposed,
                 memoVars, gateVars, runVars, histVars>>

(* emitReload: the hooks have settled, whatever they threw. *)
HooksReturn ==
  /\ pc = "reloading" /\ closing["hook"] # "joining"
  /\ EndRun(FALSE)
  /\ UNCHANGED <<mode, diskVars, outVars, watchVars, memoVars, gateVars, histVars>>

-----------------------------------------------------------------------------
(* The watchers (pollPaths): a snapshot that differs from the one before.    *)

Schedule == timer' = ~disposed

Poll ==
  /\ watching /\ dirty
  /\ dirty' = FALSE /\ Schedule
  /\ UNCHANGED <<watching, inputPaths, schemaDirty, configDirty>>

PollConfig ==
  /\ configDirty
  /\ configDirty' = FALSE /\ Schedule
  /\ UNCHANGED <<watching, inputPaths, dirty, schemaDirty>>

(* What the run itself writes is no reason for another one. *)
OwnSchema == Running \/ (schema # Missing /\ schema = lastGenerated)

PollSchema ==
  /\ watching /\ schemaDirty
  /\ schemaDirty' = FALSE
  /\ IF mode = "config" /\ OwnSchema THEN UNCHANGED timer ELSE Schedule
  /\ UNCHANGED <<watching, inputPaths, dirty, configDirty>>

Watch ==
  /\ Yields
  /\ Poll \/ PollConfig \/ PollSchema
  /\ UNCHANGED <<mode, diskVars, outVars, queued, pc, launched, disposed, closing, memoVars,
                 gateVars, runVars, histVars>>

(* subscribe(): new watchers start from the disk as it is, over the paths    *)
(* Cargo now names.  The configuration has a watcher of its own.             *)
Resolvable == source.main \notin Unresolvable

Subscribe ==
  /\ watching' = TRUE /\ inputPaths' = known
  /\ dirty' = FALSE /\ schemaDirty' = FALSE /\ UNCHANGED configDirty

(* In dev.ts the old watchers are disposed before the paths are resolved; in *)
(* legacy-dev.ts after.                                                      *)
SubscribeFails ==
  /\ watching' = (watching /\ mode = "legacy")
  /\ dirty' = (dirty /\ mode = "legacy") /\ schemaDirty' = (schemaDirty /\ mode = "legacy")
  /\ UNCHANGED <<inputPaths, configDirty>>

-----------------------------------------------------------------------------
(* The run of dev.ts, perform.                                               *)

Start ==
  /\ mode = "config"
  /\ pc = "starting" \/ (timer /\ pc = "idle")
  /\ pc' = "reading" /\ timer' = FALSE
  /\ UNCHANGED <<mode, diskVars, outVars, watchVars, queued, launched, disposed, closing,
                 memoVars, gateVars, runVars, histVars>>

(* An await has ended and the session is closed, or the step has failed.     *)
Returns ==
  /\ EndRun(FALSE)
  /\ UNCHANGED <<mode, diskVars, outVars, watchVars, memoVars, gateVars, histVars>>

Aborted ==
  /\ disposed /\ pc \notin {"idle", "reloading"}
  /\ Returns

(* Cargo, the generator and the capture of a schema may fail.                *)
Fails ==
  /\ ~disposed
  /\ \/ pc \in {"codegen", "generating", "building", "cargo", "tsCli"}
     \/ pc \in {"prearming", "arming"} /\ schema = Missing
  /\ Returns

GateStage(armed, pre) ==
  IF gateKey' # "gated" THEN "finishing" ELSE IF armed /\ ~pre THEN "verifying" ELSE "arming"

(* Mutant: a full run keeps what the last success left to compare with. *)
MutDecide(fp, generated, successful) ==
  LET skips == fp # Unknown /\ fp = successful /\ generated # None /\ schema = generated
  IN /\ decision' = fp /\ full' = ~skips /\ UNCHANGED artifact
     /\ lastSuccessful' = successful
     /\ Goto(IF skips THEN GateStage(gateArmed', armedPre') ELSE "codegen")

(* The decision: skip the Cargo stage if the inputs are those of the last    *)
(* success and the schema on disk is the one generated from them.  A full    *)
(* run forgets the last success before it starts.                            *)
Decide(fp, generated, successful) ==
  LET skips == fp # Unknown /\ fp = successful /\ generated # None /\ schema = generated
  IN /\ decision' = fp /\ full' = ~skips /\ UNCHANGED artifact
     /\ lastSuccessful' = IF skips THEN successful ELSE None
     /\ Goto(IF skips THEN GateStage(gateArmed', armedPre') ELSE "codegen")

Takes == asked' = Seen(inputPaths', source) /\ moved' = FALSE /\ UNCHANGED torn

(* The configuration is read; a new one starts from nothing.  A gate that    *)
(* has just been switched on is armed with the schema there is.              *)
ReadConfig ==
  /\ pc = "reading" /\ ~disposed /\ configFile # "broken" /\ Resolvable
  /\ LET fresh == configFile # config
         prearms == gateKey # configFile /\ configFile = "gated" /\ schema # Missing
         generated == IF fresh THEN None ELSE lastGenerated
         successful == IF fresh THEN None ELSE lastSuccessful
     IN /\ config' = configFile /\ gateKey' = configFile
        /\ lastGenerated' = generated
        /\ gateArmed' = (gateArmed /\ gateKey = configFile)
        /\ baseline' = IF gateKey = configFile THEN baseline ELSE None
        /\ Subscribe /\ Takes
        /\ IF prearms
           THEN Goto("prearming") /\ lastSuccessful' = successful /\ UNCHANGED runVars
           ELSE /\ UNCHANGED armedPre
                /\ \E fp \in {Seen(inputPaths', source), Unknown} : Decide(fp, generated, successful)
  /\ UNCHANGED <<mode, diskVars, outVars, initialized>>

(* readDevConfig throws, or resolveRustInputPaths does.                      *)
ReadFails ==
  /\ pc = "reading" /\ ~disposed
  /\ \/ configFile = "broken" /\ UNCHANGED <<watchVars, memoVars>>
     \/ /\ configFile # "broken" /\ ~Resolvable
        /\ config' = configFile
        /\ IF configFile # config THEN lastGenerated' = None /\ lastSuccessful' = None
           ELSE UNCHANGED <<lastGenerated, lastSuccessful>>
        /\ SubscribeFails /\ UNCHANGED initialized
  /\ EndRun(FALSE)
  /\ UNCHANGED <<mode, diskVars, outVars, gateVars, histVars>>

(* Mutant: a drift is not refused. *)
MutVerify ==
  /\ pc = "verifying" /\ ~disposed
  /\ Goto("finishing")
  /\ UNCHANGED <<gateVars, runVars, mode, diskVars, outVars, watchVars, memoVars, histVars>>

PreArm ==
  /\ pc = "prearming" /\ ~disposed /\ schema # Missing
  /\ baseline' = schema /\ gateArmed' = TRUE /\ armedPre' = TRUE
  /\ UNCHANGED <<gateKey, inputPaths>> /\ Takes
  /\ \E fp \in {Fingerprint, Unknown} : Decide(fp, lastGenerated, lastSuccessful)
  /\ UNCHANGED <<mode, diskVars, outVars, watching, dirty, schemaDirty, configDirty, config,
                 initialized, lastGenerated>>

(* The generator of the package writes the schema; the first compilation     *)
(* leaves dep-info.                                                          *)
WriteSchema ==
  /\ schema' = Contract[source.main] /\ known' = TRUE /\ schemaDirty' = watching
  /\ stale' = TRUE
  /\ UNCHANGED <<mode, source, configFile, edits, clients, live, watching, inputPaths, dirty,
                 configDirty, memoVars, gateVars, runVars, histVars>>

(* runCodegen, in two parts, and then the builds.                            *)
Codegen == pc = "codegen" /\ ~disposed /\ Goto("generating") /\ WriteSchema

Generated ==
  /\ pc = "generating" /\ ~disposed /\ schema # Missing
  /\ clients' = schema /\ stale' = FALSE /\ lastGenerated' = schema
  /\ Goto("building")
  /\ UNCHANGED <<mode, diskVars, live, watchVars, config, initialized, lastSuccessful, gateVars,
                 runVars, histVars>>

Built ==
  /\ pc = "building" /\ ~disposed
  /\ artifact' = source /\ UNCHANGED gateVars
  /\ Goto(GateStage(gateArmed, armedPre))
  /\ UNCHANGED <<mode, diskVars, outVars, watchVars, memoVars, armedPre, full, decision, histVars>>

(* The gate (parity-gate.ts).  A drift is refused once: the baseline follows. *)
Arm ==
  /\ pc = "arming" /\ ~disposed /\ schema # Missing
  /\ baseline' = schema /\ gateArmed' = TRUE /\ UNCHANGED gateKey
  /\ Goto("finishing")
  /\ UNCHANGED <<mode, diskVars, outVars, watchVars, memoVars, runVars, histVars>>

Verify ==
  /\ pc = "verifying" /\ ~disposed
  /\ IF schema = baseline
     THEN Goto("finishing") /\ UNCHANGED <<gateVars, runVars>>
     ELSE /\ baseline' = IF schema = Missing THEN baseline ELSE schema
          /\ UNCHANGED <<gateKey, gateArmed>> /\ EndRun(FALSE)
  /\ UNCHANGED <<mode, diskVars, outVars, watchVars, memoVars, histVars>>

(* publishGatedArtifact, new watchers, and what to remember.                 *)
Finish ==
  /\ mode = "config" /\ pc = "finishing"
  /\ live' = IF full THEN artifact ELSE live
  /\ IF Resolvable
     THEN /\ Subscribe
          /\ \E again \in {Seen(inputPaths', source), Unknown} :
               LET discovered == inputPaths' # inputPaths
                   edited == ~discovered /\ decision # Unknown /\ again # decision
               IN /\ lastSuccessful' = IF discovered \/ decision = Unknown THEN None ELSE decision
                  /\ asked' = IF decision = Unknown /\ ~discovered THEN Unknown ELSE asked
                  /\ Emit(discovered \/ edited)
          /\ torn' = (IF full THEN moved ELSE torn) /\ UNCHANGED moved
     ELSE SubscribeFails /\ EndRun(FALSE) /\ UNCHANGED <<lastSuccessful, histVars>>
  /\ UNCHANGED <<mode, diskVars, clients, stale, config, initialized, lastGenerated, gateVars>>

PublishFails == mode = "config" /\ pc = "finishing" /\ full /\ Returns

-----------------------------------------------------------------------------
(* The run of legacy-dev.ts.                                                 *)

NeedsRust(fp) == ~initialized \/ fp = Unknown \/ fp # lastSuccessful
NeedsClients(fp) == NeedsRust(fp) \/ schema # lastGenerated \/ stale

Memo(x, absent) == IF x = absent THEN None ELSE x

(* The loop asks plan() first; the run resolves the paths and asks again.    *)
LegacyClean ==
  /\ mode = "legacy" /\ timer /\ pc = "idle"
  /\ ~NeedsClients(Fingerprint)
  /\ timer' = FALSE /\ asked' = Fingerprint
  /\ UNCHANGED <<mode, diskVars, outVars, watchVars, queued, pc, launched, disposed, closing,
                 memoVars, gateVars, runVars, moved, torn>>

LegacyStart ==
  /\ mode = "legacy"
  /\ \/ pc = "starting"
     \/ timer /\ pc = "idle" /\ \E fp \in {Fingerprint, Unknown} : NeedsClients(fp)
  /\ IF Resolvable
     THEN /\ Subscribe
          /\ \E fp, before \in {Seen(inputPaths', source), Unknown} :
               IF NeedsClients(fp)
               THEN /\ decision' = before /\ full' = NeedsRust(fp)
                    /\ pc' = IF NeedsRust(fp) THEN "cargo" ELSE "tsCli"
                    /\ UNCHANGED <<memoVars, launched, armedPre, artifact>>
               ELSE /\ pc' = "idle" /\ launched' = TRUE /\ initialized' = TRUE
                    /\ lastSuccessful' = Memo(before, Unknown)
                    /\ lastGenerated' = Memo(schema, Missing)
                    /\ UNCHANGED <<config, runVars>>
     ELSE SubscribeFails /\ pc' = "idle" /\ launched' = TRUE /\ UNCHANGED <<memoVars, runVars>>
  /\ Takes
  /\ timer' = FALSE
  /\ UNCHANGED <<mode, diskVars, outVars, queued, disposed, closing, gateVars>>

RustBin == pc = "cargo" /\ ~disposed /\ Goto("tsCli") /\ WriteSchema

TsCli ==
  /\ pc = "tsCli" /\ ~disposed /\ schema # Missing
  /\ clients' = schema /\ stale' = FALSE
  /\ Goto("finishing")
  /\ UNCHANGED <<mode, diskVars, live, watchVars, memoVars, gateVars, runVars, histVars>>

LegacyFinish ==
  /\ mode = "legacy" /\ pc = "finishing"
  /\ IF Resolvable
     THEN /\ Subscribe
          /\ initialized' = TRUE /\ lastGenerated' = Memo(schema, Missing)
          /\ \E after \in {Seen(inputPaths', source), Unknown} :
               LET stable == decision # Unknown /\ after = decision
               IN /\ lastSuccessful' = IF stable THEN decision ELSE None
                  /\ IF full THEN Emit(~stable) ELSE EndRun(~stable)
          /\ torn' = moved /\ UNCHANGED <<config, asked, moved>>
     ELSE SubscribeFails /\ EndRun(FALSE) /\ UNCHANGED <<memoVars, histVars>>
  /\ UNCHANGED <<mode, diskVars, outVars, gateVars>>

-----------------------------------------------------------------------------
(* Users: an edit of the inputs, of the schema, of the configuration, while  *)
(* the session is open.                                                      *)

Editing ==
  /\ edits < MaxEdits /\ ~disposed /\ edits' = edits + 1
  /\ UNCHANGED <<mode, known, clients, live, watching, inputPaths, loopVars, memoVars, gateVars,
                 runVars, asked, torn>>

(* A file that is written again as it was has been touched, too.             *)
Edit(s) ==
  /\ Editing
  /\ source' = s
  /\ dirty' = (dirty \/ (watching /\ (s = source \/ Seen(inputPaths, s) # Fingerprint)))
  /\ moved' = (moved \/ s # source)
  /\ UNCHANGED <<schema, configFile, stale, schemaDirty, configDirty>>

EditSchema(s) ==
  /\ Editing
  /\ schema' = s /\ s # schema
  /\ schemaDirty' = watching /\ moved' = TRUE /\ stale' = (s # Missing)
  /\ UNCHANGED <<source, configFile, dirty, configDirty>>

EditConfig(f) ==
  /\ Editing /\ mode = "config"
  /\ configFile' = f /\ f # configFile
  /\ configDirty' = TRUE
  /\ UNCHANGED <<source, schema, stale, dirty, schemaDirty, moved>>

Run ==
  \/ Start \/ ReadConfig \/ ReadFails \/ PreArm \/ Codegen \/ Generated \/ Built
  \/ Arm \/ Verify \/ Finish \/ PublishFails \/ Aborted \/ Fails \/ HooksReturn
  \/ LegacyClean \/ LegacyStart \/ RustBin \/ TsCli \/ LegacyFinish

Next ==
  \/ Run \/ Watch \/ Queue
  \/ \E w \in Closers : Dispose(w) \/ DisposeReturns(w)
  \/ \E s \in Inputs : Edit(s)
  \/ \E s \in {Foreign, Missing} : EditSchema(s)
  \/ \E f \in Configs \cup {"broken"} : EditConfig(f)

Spec == Init /\ [][Next]_vars

-----------------------------------------------------------------------------
(* Nothing is under way, and nothing has been seen that would start a run.   *)
AtRest ==
  /\ launched /\ ~disposed /\ ~Running /\ ~timer
  /\ ~dirty /\ ~schemaDirty /\ ~configDirty

(* Inputs a run can be made for.                                             *)
Usable == Resolvable /\ configFile # "broken"

(* However edits cross polls, runs and the exchange of the watchers, the last *)
(* state of the inputs is one a run was started for, unless that run could    *)
(* not read them or the watchers are gone (dev.ts:349-363).                   *)
NoEditLost == AtRest /\ watching /\ Usable /\ asked # Unknown => asked = Fingerprint

(* What is remembered as built is what is published, although runs fail and   *)
(* are refused in between, if the files held still while it was built         *)
(* (dev.ts:253-270).                                                          *)
SkipsAreSound ==
  mode = "config" /\ lastSuccessful # None /\ ~torn =>
    /\ live # None /\ Seen(inputPaths, live) = lastSuccessful
    /\ clients = Contract[live.main]

DevLoopSound == NoEditLost /\ SkipsAreSound

(* The gate and the end of a session: a core is published only by a session   *)
(* that is open, and, under a gate that has been armed by an earlier run, with *)
(* the contract of the core that run published or refused, unless the files   *)
(* were edited while it was built.  A closed session starts nothing.          *)
PublishedRightly ==
  [][/\ live' # live => ~disposed
     /\ live' # live /\ gateKey = "gated" /\ gateArmed /\ ~armedPre /\ ~moved =>
          Contract[live'.main] = baseline
     /\ disposed => UNCHANGED <<watching, timer, queued>> /\ (pc' # pc => pc' = "idle")]_vars

(* Every run ends, what was noticed is taken up, and whoever disposes of the  *)
(* session comes back, a reload hook included (watch.ts:122-137).             *)
DevSettles ==
  /\ []<>~Running
  /\ []<>(AtRest \/ disposed \/ Running)
  /\ \A w \in Closers : []<>(closing[w] # "joining")

(* Sources are followed for as long as the session is open                    *)
(* (packages/cli/README.md:118).                                              *)
SourcesFollowed ==
  AtRest /\ Usable /\ config # None /\ asked # Unknown => asked = Fingerprint

(* What is remembered is the fingerprint of the inputs that the last success  *)
(* consumed (dev.ts:119).                                                     *)
RememberedIsConsumed ==
  mode = "config" /\ lastSuccessful # None => Seen(inputPaths, live) = lastSuccessful
================================================================================
