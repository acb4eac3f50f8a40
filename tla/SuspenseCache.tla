----------------------------- MODULE SuspenseCache -----------------------------
(***************************************************************************)
(* The Suspense cache of one engine (packages/react/src/suspense-cache.ts):*)
(* a bounded Map from key to the record of one invocation, least recently  *)
(* used first.  A record is pending until its invocation settles or its    *)
(* deadline passes; a deadline does not abandon the invocation, whose      *)
(* answer still lands in a record that is still cached.  A settled record  *)
(* is kept for a time and then removed BY KEY, so everything rests on      *)
(* removals clearing the timers of what they remove.                       *)
(*                                                                         *)
(* A record that nothing refers to any more may be used again.             *)
(***************************************************************************)
EXTENDS Integers, FiniteSets

CONSTANTS
  Keys, Commands,
  CommandOf,     \* the command of a key: its first component
  Records,       \* bound: invocations something still refers to
  Capacities     \* the maxEntries that configureSuspenseCache may set

VARIABLES
  entries,       \* the Map and its order: of each record in it, those that come before
  max,           \* policy.maxEntries
  rec            \* what the closures of resolveSuspenseEntry hold of a record

Outcomes == {"fulfilled", "rejected"}

Idle(k) == [key |-> k, status |-> "pending", invocation |-> "none",
            promise |-> "pending", deadline |-> FALSE, expiry |-> FALSE]
Started(k) == [Idle(k) EXCEPT !.invocation = "running", !.deadline = TRUE]

Cached == DOMAIN entries
Pending(r) == rec[r].status = "pending"
Dead(r) ==
  r \notin Cached /\ rec[r].invocation # "running" /\ ~rec[r].deadline /\ ~rec[r].expiry

Empty == [r \in {} |-> {}]

Init ==
  /\ entries = Empty
  /\ max \in Capacities
  /\ \E k \in Keys : rec = [r \in Records |-> Idle(k)]

-----------------------------------------------------------------------------
Without(S) == [r \in Cached \ S |-> entries[r] \ S]
Last(kept, r) == [q \in DOMAIN kept \cup {r} |-> IF q = r THEN DOMAIN kept ELSE kept[q]]

(* What remove() does to the records of S, which it takes out of the Map.    *)
MutRemoved(S) == rec   \* the entry goes, its expiry timer stays
MutSilenced(S) ==      \* and its deadline is cleared with it
  [r \in Records |-> IF r \in S THEN [rec[r] EXCEPT !.expiry = FALSE, !.deadline = FALSE]
                                ELSE rec[r]]
Removed(S) ==
  [r \in Records |-> IF r \in S THEN [rec[r] EXCEPT !.expiry = FALSE] ELSE rec[r]]

(* What may be evicted to make room: nothing while there is room, else the  *)
(* oldest record that has settled.  When every record is pending there is no *)
(* such set, and the request is refused.                                     *)
MutVictims(kept) ==   \* the oldest record, pending or not
  IF Cardinality(DOMAIN kept) < max THEN {{}}
  ELSE {{r} : r \in {r \in DOMAIN kept : kept[r] = {}}}
MutFull(kept) ==      \* the capacity is compared with >
  IF Cardinality(DOMAIN kept) <= max THEN {{}}
  ELSE {{r} : r \in {r \in DOMAIN kept : ~Pending(r) /\ \A q \in kept[r] : Pending(q)}}
Victims(kept) ==
  IF Cardinality(DOMAIN kept) < max THEN {{}}
  ELSE {{r} : r \in {r \in DOMAIN kept : ~Pending(r) /\ \A q \in kept[r] : Pending(q)}}

Hit(k, due) ==
  \E r \in Cached \ due :
    /\ rec[r].key = k
    /\ entries' = Last(Without(due \cup {r}), r)
    /\ rec' = Removed(due)

Refuse(due) ==
  /\ Victims(Without(due)) = {}
  /\ entries' = Without(due)
  /\ rec' = Removed(due)

Insert(k, due) ==
  \E out \in Victims(Without(due)) :
    /\ \E r \in Records : Dead(r)
    /\ LET new == CHOOSE r \in Records : Dead(r)
       IN  /\ entries' = Last(Without(due \cup out), new)
           /\ rec' = [Removed(due \cup out) EXCEPT ![new] = Started(k)]

(* resolveSuspenseEntry: the settled records whose time has passed by the    *)
(* wall clock, any of them, go first; their timers may not have fired yet.   *)
Resolve(k, due) ==
  /\ due \subseteq {r \in Cached : ~Pending(r)}
  /\ IF \E r \in Cached \ due : rec[r].key = k
     THEN Hit(k, due)
     ELSE Refuse(due) \/ Insert(k, due)
  /\ UNCHANGED max

-----------------------------------------------------------------------------
(* The fields of record r once it has settled: settled() clears the deadline *)
(* and, for a record still in the Map, starts its retention anew.            *)
Settled(r, fields) ==
  [fields EXCEPT !.deadline = FALSE, !.expiry = @ \/ r \in Cached]

First(r, how) == IF rec[r].promise = "pending" THEN how ELSE rec[r].promise

(* The invocation settles.  What awaits the promise has the first outcome.   *)
MutAnswer(r, how) ==      \* an answer after the deadline is dropped
  /\ rec[r].invocation = "running"
  /\ rec' = [rec EXCEPT ![r] =
       IF Pending(r)
       THEN Settled(r, [@ EXCEPT !.invocation = how, !.status = how, !.promise = how])
       ELSE [@ EXCEPT !.invocation = how]]
  /\ UNCHANGED <<entries, max>>
MutReinserts(r, how) ==   \* what settles is cached, invalidated or not
  /\ rec[r].invocation = "running"
  /\ rec' = [rec EXCEPT ![r] =
       [@ EXCEPT !.invocation = how, !.status = how, !.promise = First(r, how),
                 !.deadline = FALSE, !.expiry = TRUE]]
  /\ entries' = Last(Without({q \in Cached : rec[q].key = rec[r].key}), r)
  /\ UNCHANGED max
Answer(r, how) ==
  /\ rec[r].invocation = "running"
  /\ rec' = [rec EXCEPT ![r] =
       Settled(r, [@ EXCEPT !.invocation = how, !.status = how, !.promise = First(r, how)])]
  /\ UNCHANGED <<entries, max>>

Deadline(r) ==
  /\ rec[r].deadline
  /\ rec' = [rec EXCEPT ![r] =
       Settled(r, [@ EXCEPT !.status = "rejected", !.promise = First(r, "rejected")])]
  /\ UNCHANGED <<entries, max>>

(* The expiry timer of record r removes whatever has r's key by then.        *)
Expire(r) ==
  LET gone == {q \in Cached : rec[q].key = rec[r].key}
  IN /\ rec[r].expiry
     /\ entries' = Without(gone)
     /\ rec' = [Removed(gone) EXCEPT ![r].expiry = FALSE]
     /\ UNCHANGED max

(* invalidateCommands, of one command or of all of them. *)
Invalidate(cs) ==
  LET gone == {r \in Cached : CommandOf[rec[r].key] \in cs}
  IN /\ gone # {}
     /\ entries' = Without(gone)
     /\ rec' = Removed(gone)
     /\ UNCHANGED max

ConfigureSuspenseCache(n) ==
  /\ Cached # {} \/ n # max
  /\ entries' = Empty
  /\ rec' = Removed(Cached)
  /\ max' = n

-----------------------------------------------------------------------------
Next ==
  \/ \E k \in Keys, due \in SUBSET Records : Resolve(k, due)
  \/ \E r \in Records :
       \/ \E how \in Outcomes : Answer(r, how)
       \/ Deadline(r) \/ Expire(r)
  \/ \E c \in Commands : Invalidate({c})
  \/ Invalidate(Commands)
  \/ \E n \in Capacities : ConfigureSuspenseCache(n)

-----------------------------------------------------------------------------
(* The Map is in one order, and every field has its type. *)
Ordered ==
  /\ \A r \in Cached : entries[r] \subseteq Cached /\ r \notin entries[r]
  /\ \A q, r \in Cached : q # r => (q \in entries[r] <=> r \notin entries[q])
  /\ \A q, r \in Cached : q \in entries[r] => entries[q] \subseteq entries[r]
TypeOK ==
  /\ Cached \subseteq Records /\ entries \in [Cached -> SUBSET Records] /\ Ordered
  /\ max \in Capacities
  /\ rec \in [Records -> [key : Keys, status : {"pending"} \cup Outcomes,
                          invocation : {"none", "running"} \cup Outcomes,
                          promise : {"pending"} \cup Outcomes,
                          deadline : BOOLEAN, expiry : BOOLEAN]]

(* The Map never grows past maxEntries and has one record of a key, whatever *)
(* is pending and whatever was evicted, re-inserted by a hit or reconfigured.*)
Bounded ==
  /\ IsFiniteSet(Cached) /\ Cardinality(Cached) <= max
  /\ \A q, r \in Cached : rec[q].key = rec[r].key => q = r

(* Every timer belongs to what it will act on: an armed expiry is that of a  *)
(* cached record, so a removal by key takes the record it was armed for; and *)
(* nothing cached is for ever, a pending record having its deadline and a    *)
(* settled one its expiry.                                                   *)
TimersOwn ==
  \A r \in Records :
    /\ rec[r].expiry => r \in Cached /\ ~Pending(r)
    /\ r \in Cached => IF Pending(r) THEN rec[r].deadline ELSE rec[r].expiry

(* A deadline is a signal to the component, not the outcome: once the        *)
(* invocation has settled, what the next render reads from the cache is its  *)
(* real outcome, however late it came.                                       *)
RealOutcomeLands ==
  \A r \in Cached : rec[r].invocation \in Outcomes => rec[r].status = rec[r].invocation

(* What left the cache with its invocation under way (invalidated, expired   *)
(* after its deadline, evicted) never comes back when the answer arrives.    *)
NeverRepopulates ==
  \A r \in Records :
    rec[r].invocation = "running" /\ r \notin Cached => r \notin DOMAIN entries'

(* A pending request is not evicted to make room: it leaves the cache only   *)
(* together with every record of its command.  Otherwise two components that *)
(* alternate would invoke the same command again and again.                  *)
PendingKept ==
  \A r \in Cached :
    Pending(r) /\ r \notin DOMAIN entries' =>
      \A q \in Cached :
        CommandOf[rec[q].key] = CommandOf[rec[r].key] => q \notin DOMAIN entries'

(* A component waits on the promise of r. *)
Waiting(r) == rec[r].invocation = "running" /\ rec[r].promise = "pending"
================================================================================
