------------------------------ MODULE ReactBindings ------------------------------
(***************************************************************************)
(* The bindings of packages/react: the Suspense cache and the three hooks. *)
(* They share no state, a component may use any of them, and what one does *)
(* cannot disturb another: a behaviour is that of one of them (`part'),    *)
(* and the variables of the others keep the value Unused.                  *)
(***************************************************************************)
EXTENDS Integers, Sequences, FiniteSets

CONSTANTS
  Keys, Commands, CommandOf, Records, Capacities,   \* of the cache
  Scopes, Calls, MaxPending,                        \* of useMutation
  Inputs, Queries,                                  \* of useCommand
  Subscriptions,                                    \* of useEvent
  None, Unused

VARIABLES
  part,                                                              \* who is looked at
  entries, max, rec,                                                 \* SuspenseCache
  scope, scopeEffect, hidden, counters, call, mutation, everHidden,  \* MutationHook
  props, queryEffect, queryHidden, current, aborter, run, query,     \* CommandHook
  mounted, active, result, emitter, cleaned                          \* EventHook

cacheVars == <<entries, max, rec>>
mutationVars == <<scope, scopeEffect, hidden, counters, call, mutation, everHidden>>
queryVars == <<props, queryEffect, queryHidden, current, aborter, run, query>>
eventVars == <<mounted, active, result, emitter, cleaned>>
vars == <<part, cacheVars, mutationVars, queryVars, eventVars>>

Cache == INSTANCE SuspenseCache
Mutation == INSTANCE MutationHook WITH effect <- scopeEffect, shown <- mutation
Query == INSTANCE CommandHook
  WITH effect <- queryEffect, hidden <- queryHidden, shown <- query, Runs <- Queries
Event == INSTANCE EventHook WITH Runs <- Subscriptions

Parts == {"cache", "mutation", "query", "event"}

Init ==
  /\ IF part = "cache" THEN Cache!Init
     ELSE entries = Unused /\ max = Unused /\ rec = Unused
  /\ IF part = "mutation" THEN Mutation!Init
     ELSE /\ scope = Unused /\ scopeEffect = Unused /\ hidden = Unused /\ counters = Unused
          /\ call = Unused /\ mutation = Unused /\ everHidden = Unused
  /\ IF part = "query" THEN Query!Init
     ELSE /\ props = Unused /\ queryEffect = Unused /\ queryHidden = Unused
          /\ current = Unused /\ aborter = Unused /\ run = Unused /\ query = Unused
  /\ IF part = "event" THEN Event!Init
     ELSE /\ mounted = Unused /\ active = Unused /\ result = Unused
          /\ emitter = Unused /\ cleaned = Unused

AtCache == part = "cache" /\ UNCHANGED <<part, mutationVars, queryVars, eventVars>>
AtEvent == part = "event" /\ UNCHANGED <<part, cacheVars, mutationVars, queryVars>>

CacheNext == AtCache /\ Cache!Next
MutationNext ==
  part = "mutation" /\ Mutation!Next /\ UNCHANGED <<part, cacheVars, queryVars, eventVars>>
QueryNext ==
  part = "query" /\ Query!Next /\ UNCHANGED <<part, cacheVars, mutationVars, eventVars>>
EventNext == AtEvent /\ Event!Next

Next == CacheNext \/ MutationNext \/ QueryNext \/ EventNext

-----------------------------------------------------------------------------
(* The Suspense cache is bounded, no record outlives its time or loses its    *)
(* timers to another record of its key, and what the next render reads is the *)
(* real outcome however late it came (suspense-cache.ts:110-166).             *)
CacheSound ==
  part = "cache" => Cache!TypeOK /\ Cache!Bounded /\ Cache!TimersOwn /\ Cache!RealOutcomeLands

(* Late answers do not bring back what has left the cache, and a full cache   *)
(* does not push out a request under way.                                     *)
EntriesLeaveOnce ==
  [][part = "cache" => Cache!NeverRepopulates /\ Cache!PendingKept]_vars

(* useMutation shows the outcome of the call made last, nothing from before a *)
(* reset or another scope, and `loading' as long as a call may change it.     *)
MutationShowsLast ==
  part = "mutation" =>
    Mutation!TypeOK /\ Mutation!NothingStale /\ Mutation!LatestWins /\ Mutation!LoadingExact

(* useCommand has one live run, shows the outcome of the input on view, and   *)
(* is loading exactly while that run is under way.                            *)
QueryShowsPresent ==
  part = "query" =>
    Query!TypeOK /\ Query!OneLiveRun /\ Query!ShowsPresent /\ Query!LoadingExact

(* Events of useEvent go to the subscriber on view and to no other, and every *)
(* unsubscribe function is called once.                                       *)
EventsOnce == part = "event" => Event!TypeOK /\ Event!DeliveredOnce

(* All of them.                                                               *)
HooksSound == CacheSound /\ MutationShowsLast /\ QueryShowsPresent /\ EventsOnce

(* A component that suspended is woken, although the engine never answers and *)
(* although its record was invalidated; a subscription that was cleaned up    *)
(* leaves the emitter, although its unsubscribe function came afterwards.     *)
WokenAndReleased ==
  /\ \A r \in Records :
       []<>~(part = "cache" /\ Cache!Waiting(r))
  /\ \A s \in Subscriptions :
       []<>~(part = "event" /\ Event!Lingers(s))
================================================================================
