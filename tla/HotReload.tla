------------------------------- MODULE HotReload -------------------------------
(***************************************************************************)
(* The two processes of a development session: `rustra dev', which turns   *)
(* edits into clients and a published core (DevLoop), and the host, whose   *)
(* watcher swaps in whatever is published (HotCore).  They meet in a file  *)
(* that one renames into place and the other polls: DevLoop knows nothing  *)
(* of its reader, and HotCore takes any writer at any time, a worse one    *)
(* than DevLoop included.  So a behaviour is that of one of them, chosen   *)
(* at the start (`part').                                                  *)
(***************************************************************************)
EXTENDS HotCore

CONSTANTS Contents, First, Contract, Unresolvable, Foreign, Missing, Unknown, MaxEdits  \* of DevLoop

ASSUME ContentsAssumption ==
  /\ First \in Contents \ Unresolvable /\ Unresolvable \subseteq Contents
  /\ DOMAIN Contract = Contents
  /\ {Foreign, Missing, None} \cap {Contract[c] : c \in Contents} = {}
  /\ MaxEdits \in Nat

VARIABLES
  part,
  mode, source, known, schema, configFile, edits, clients, stale, live, watching, inputPaths,
  dirty, schemaDirty, configDirty, timer, queued, pc, launched, disposed, closing, config,
  initialized, lastGenerated, lastSuccessful, gateKey, gateArmed, baseline, armedPre, full,
  decision, built, asked, moved, edited                    \* of DevLoop

devVars == <<mode, source, known, schema, configFile, edits, clients, stale, live, watching,
             inputPaths, dirty, schemaDirty, configDirty, timer, queued, pc, launched, disposed,
             closing, config, initialized, lastGenerated, lastSuccessful, gateKey, gateArmed,
             baseline, armedPre, full, decision, built, asked, moved, edited>>

Dev == INSTANCE DevLoop WITH artifact <- built, torn <- edited

(* Nothing is remembered, or could not be read: no inputs, no fingerprint.   *)
ASSUME AbsentAssumption ==
  {None, Unknown} \cap (Dev!Inputs \cup (BOOLEAN \X Dev!Inputs)) = {}

all == <<part, vars, devVars>>

AtHost == part = "host" /\ UNCHANGED <<part, devVars>>
AtDev == part = "dev" /\ UNCHANGED <<part, vars>>

(* Of the part that does not run, one first state stands for all. *)
ReloadInit ==
  /\ part \in {"host", "dev"} /\ Init /\ Dev!Init
  /\ part = "dev" => core = CHOOSE b \in Loadable : TRUE
  /\ part = "host" => mode = "legacy" /\ known /\ schema = Missing

ReloadSpec == ReloadInit /\ [][(AtHost /\ Next) \/ (AtDev /\ Dev!Next)]_all

(* Both watchers poll, timers fire and jobs run, calls return; cargo ends, in *)
(* one way or the other, and so do the hooks of a host.  Nobody has to edit,  *)
(* to publish, to call or to dispose.                                         *)
ReloadFairness ==
  /\ WF_all(AtHost /\ Watch)
  /\ \A c \in Callers : WF_all(AtHost /\ Return(c))
  /\ WF_all(AtDev /\ Dev!Run) /\ WF_all(AtDev /\ Dev!Watch) /\ WF_all(AtDev /\ Dev!Queue)
  /\ \A w \in Dev!Closers : WF_all(AtDev /\ Dev!DisposeReturns(w))

ReloadFairSpec == ReloadSpec /\ ReloadFairness

-----------------------------------------------------------------------------
(* No edit is lost and no run is skipped that was needed (dev.ts, watch.ts,   *)
(* legacy-dev.ts).                                                            *)
DevLoopSound == Dev!DevLoopSound

(* A core is published by an open session only, and under an armed gate with  *)
(* the contract it was armed for (dev.ts, parity-gate.ts).                    *)
PublishedRightly == Dev!PublishedRightly

(* Every run ends and every dispose() returns, and what was published last is *)
(* served in the end.                                                         *)
ReloadEnds == (part = "dev" => Dev!DevSettles) /\ ServesLatest
================================================================================
