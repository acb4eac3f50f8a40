-------------------------------- MODULE EventHook --------------------------------
(***************************************************************************)
(* The effect of one useEvent (packages/react/src/useEvent.ts).  Every run *)
(* of the effect subscribes anew; `subscribe` gives an unsubscribe function*)
(* or a promise of one, and either is only looked at later, when the       *)
(* effect may have been cleaned up and run again for another event.        *)
(***************************************************************************)
EXTENDS FiniteSets

CONSTANTS
  Runs,   \* bound: runs of the effect that are not over
  None

VARIABLES
  mounted,   \* the run of the effect that is up, or None
  active,    \* of each run
  result,    \* of each run: "none", "asked", "held" (unsubscribe is set), "over"
  emitter,   \* external: the runs whose callback is registered
  cleaned    \* history: the runs whose unsubscribe function was called twice

Init ==
  /\ mounted = None
  /\ active = [r \in Runs |-> FALSE] /\ result = [r \in Runs |-> "none"]
  /\ emitter = {} /\ cleaned = {}

-----------------------------------------------------------------------------
(* The effect runs.  subscribe registers at once or until its promise        *)
(* settles; when it throws there is nothing to clean up.                     *)
Subscribe(r) ==
  /\ mounted = None /\ result[r] \in {"none", "over"}
  /\ mounted' = r
  /\ active' = [active EXCEPT ![r] = TRUE]
  /\ \/ /\ result' = [result EXCEPT ![r] = "asked"]
        /\ emitter' = emitter \cup {r}
     \/ /\ result' = [result EXCEPT ![r] = "over"]
        /\ UNCHANGED emitter
  /\ cleaned' = cleaned \ {r}

(* The unsubscribe function of r is called. *)
Unsubscribed(r) ==
  /\ emitter' = emitter \ {r}
  /\ cleaned' = IF r \in emitter THEN cleaned ELSE cleaned \cup {r}

(* The promise of the unsubscribe function is fulfilled, *)
MutFulfilled(r) ==   \* a function that arrives late is kept as well
  /\ result[r] = "asked"
  /\ result' = [result EXCEPT ![r] = "held"]
  /\ UNCHANGED <<emitter, cleaned>>
  /\ UNCHANGED <<mounted, active>>
MutCalls(r) ==       \* and called although the effect is up
  /\ result[r] = "asked"
  /\ result' = [result EXCEPT ![r] = "held"]
  /\ Unsubscribed(r)
  /\ UNCHANGED <<mounted, active>>
Fulfilled(r) ==
  /\ result[r] = "asked"
  /\ IF active[r]
     THEN result' = [result EXCEPT ![r] = "held"] /\ UNCHANGED <<emitter, cleaned>>
     ELSE result' = [result EXCEPT ![r] = "over"] /\ Unsubscribed(r)
  /\ UNCHANGED <<mounted, active>>

(* or rejected: the subscription was not made. *)
Rejected(r) ==
  /\ result[r] = "asked"
  /\ result' = [result EXCEPT ![r] = "over"]
  /\ emitter' = emitter \ {r}
  /\ UNCHANGED <<mounted, active, cleaned>>

Cleanup ==
  /\ mounted # None
  /\ active' = [active EXCEPT ![mounted] = FALSE]
  /\ IF result[mounted] = "held"
     THEN result' = [result EXCEPT ![mounted] = "over"] /\ Unsubscribed(mounted)
     ELSE UNCHANGED <<result, emitter, cleaned>>
  /\ mounted' = None

-----------------------------------------------------------------------------
Next ==
  \/ \E r \in Runs : Subscribe(r) \/ Fulfilled(r) \/ Rejected(r)
  \/ Cleanup

-----------------------------------------------------------------------------
TypeOK ==
  /\ mounted \in Runs \cup {None}
  /\ active \in [Runs -> BOOLEAN]
  /\ result \in [Runs -> {"none", "asked", "held", "over"}]
  /\ emitter \subseteq Runs /\ cleaned \subseteq Runs

(* An event is delivered to the subscriber of the effect that is up and to   *)
(* no other, however many earlier runs still wait for their unsubscribe      *)
(* function; and what that run holds unsubscribes a registered callback, the *)
(* function of each run being called once at most.                           *)
DeliveredOnce ==
  /\ \A r \in Runs : active[r] <=> r = mounted
  /\ \A r \in Runs : result[r] = "held" => r \in emitter
  /\ cleaned = {}

(* A run that was cleaned up still has its callback registered. *)
Lingers(r) == r \in emitter /\ ~active[r]
================================================================================
