------------------------------- MODULE ClientSide -------------------------------
(***************************************************************************)
(* The layers of the TypeScript client: what becomes of a call (ClientCall:*)
(* options, abort, timeouts, retries), what is sent for it (FrameEngine:    *)
(* buffers, live schema, codecs), and what a React component shows of it   *)
(* (ReactBindings: the Suspense cache and the hooks).  Each sees of the     *)
(* one below that a call settles or does not, and does not know the one    *)
(* above; so a behaviour is that of one of them, chosen at the start        *)
(* (`part').                                                               *)
(***************************************************************************)
EXTENDS ClientCall, Sequences, FiniteSets

CONSTANTS
  MaxDepth, Statics, Dynamics, Wires, MaxGeneration,    \* of FrameEngine
  Keys, Commands, CommandOf, Records, Capacities, Scopes, Calls, MaxPending,
  Inputs, Queries, Subscriptions, Unused,               \* of ReactBindings
  None

ASSUME FrameAssumption ==
  /\ MaxDepth \in Nat \ {0} /\ MaxGeneration \in Nat
  /\ None \notin Statics \cup Dynamics \cup Wires \cup Nat /\ Statics \cap Dynamics = {}
ASSUME CacheAssumption ==
  CommandOf \in [Keys -> Commands] /\ Capacities \subseteq Nat \ {0} /\ Capacities # {}
ASSUME MutationAssumption ==
  None \notin Scopes \cup Calls /\ Scopes # {} /\ MaxPending \in Nat \ {0}
ASSUME HooksAssumption == None \notin Inputs \cup Queries \cup Subscriptions /\ Inputs # {}

VARIABLES
  part,
  exposes, commands, generation, cached, cachedGeneration, codecs, current, buffer, busy,
  depth, pc, target, path, lent, entry, codec, seen, failed,              \* of FrameEngine
  entries, max, rec, scope, scopeEffect, hidden, counters, made, mutation, everHidden,
  props, queryEffect, queryHidden, drew, aborter, run, query,
  mounted, active, result, emitter, cleaned                               \* of ReactBindings

frameVars == <<exposes, commands, generation, cached, cachedGeneration, codecs, current, buffer,
               busy, depth, pc, target, path, lent, entry, codec, seen, failed>>
hookVars == <<entries, max, rec, scope, scopeEffect, hidden, counters, made, mutation, everHidden,
              props, queryEffect, queryHidden, drew, aborter, run, query,
              mounted, active, result, emitter, cleaned>>

Frames == INSTANCE FrameEngine
Hooks == INSTANCE ReactBindings WITH call <- made, current <- drew

all == <<part, vars, frameVars, hookVars>>

AtOptions == part = "options" /\ UNCHANGED <<part, frameVars, hookVars>>
AtFrames == part = "frames" /\ UNCHANGED <<part, vars, hookVars>>
AtHooks == part \in Hooks!Parts /\ UNCHANGED <<vars, frameVars>>

(* Of the parts that do not run, one first state stands for all. *)
ClientInit ==
  /\ part \in {"options", "frames"} \cup Hooks!Parts
  /\ Init /\ Frames!Init /\ Hooks!Init
  /\ part # "options" => ~propagates /\ ~timed /\ ~configured
  /\ part # "frames" => exposes

ClientSpec ==
  ClientInit /\ [][(AtOptions /\ Next) \/ (AtFrames /\ Frames!Next) \/ (AtHooks /\ Hooks!Next)]_all

(* Jobs run and timers fire, and the promise of a subscribe function settles. *)
(* The native side may never answer, the engine need not be configured,       *)
(* nobody has to abort, and no component has to render, call or unmount.      *)
ClientFairness ==
  /\ WF_all(AtOptions /\ (Stop \/ Try \/ Return \/ Backoff \/ Wake))
  /\ \A a \in Attempts :
       /\ WF_all(AtOptions /\ LazyReady(a))
       /\ WF_all(AtOptions /\ TimerFires(a)) /\ WF_all(AtOptions /\ Settle(a))
  /\ \A r \in Records : WF_all(AtHooks /\ Hooks!AtCache /\ Hooks!Cache!Deadline(r))
  /\ \A s \in Subscriptions :
       WF_all(AtHooks /\ Hooks!AtEvent /\ (Hooks!Event!Fulfilled(s) \/ Hooks!Event!Rejected(s)))

ClientFairSpec == ClientSpec /\ ClientFairness

-----------------------------------------------------------------------------
(* Every request reaches the native side whole, under the id and the contract *)
(* its command has while the call runs                                        *)
(* (frame-engine-dispatch.ts, frame-engine-schema.ts).                        *)
FramesSound == Frames!FramesSound

(* What a component shows is the outcome of what it asked for last, from the  *)
(* cache or from a call of its own; and its subscriptions are its own         *)
(* (packages/react/src).                                                      *)
HooksSound == Hooks!HooksSound

(* Late answers do not bring back what has left the Suspense cache, and a full *)
(* cache does not push out a request under way (suspense-cache.ts).           *)
EntriesLeaveOnce == Hooks!EntriesLeaveOnce

(* A hung native side holds nobody: neither a call with a timeout or an abort, *)
(* nor a component that suspended.                                            *)
ClientSettles == Settles /\ Hooks!WokenAndReleased
================================================================================
