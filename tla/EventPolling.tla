----------------------------- MODULE EventPolling -----------------------------
(***************************************************************************)
(* How the Node and Bun adapters bring events to their subscribers         *)
(* (packages/node/src/node-events.ts and the polling bridge of             *)
(* packages/bun/src/bun-events.ts): a table of subscriptions, and for all  *)
(* of them either a push listener or a loop that drains the event bus,     *)
(* waits on a timer and drains again.  The Node adapter starts with push   *)
(* where the transport has the path, and falls back to polling once if the *)
(* handshake shows that the runtime does not push.                         *)
(*                                                                         *)
(* A loop is a chain of ticks, each started by the timer of the one        *)
(* before; `timer` is the handle that was stored last, which may belong to *)
(* a timer that has fired.  Listeners may subscribe and unsubscribe during *)
(* a dispatch: a dispatch changes nothing else, so those are the same      *)
(* steps, taken before the drain settles.                                  *)
(***************************************************************************)
EXTENDS Integers, FiniteSets

CONSTANTS
  Adapters,   \* the adapters an instance considers: "node", "bun"
  Keys,       \* (name, callback) pairs
  Loops,      \* chains of ticks, a name is used again; bound on live ones
  NoTimer,
  MaxOpen     \* bound: unsubscribe functions of one key not called yet

ASSUME PollingAssumption ==
  /\ Adapters \subseteq {"node", "bun"}
  /\ IsFiniteSet(Loops) /\ NoTimer \notin Loops /\ MaxOpen \in Nat

VARIABLES
  adapter,
  transport,  \* push path exposed, ready() exposed, the runtime pushes
  open,       \* of each key, the unsubscribe functions still active
  table,      \* the subscribers map
  mode,       \* "push", "polling"
  attached,   \* the push listener is attached (detach # null)
  verdict,    \* the capability check: "none", "waiting" for ready(), "settled"
  polling, timer,
  loop,       \* of each chain: "idle", "draining", "waiting"
  disposed    \* of the Bun bridge

deliveryVars == <<mode, attached, verdict>>
pollVars == <<polling, timer, loop>>
fixedVars == <<adapter, transport>>
vars == <<fixedVars, open, table, deliveryVars, pollVars, disposed>>

Init ==
  /\ adapter \in Adapters
  /\ transport \in [push: BOOLEAN, ready: BOOLEAN, capable: BOOLEAN]
  /\ adapter = "bun" => ~transport.push
  /\ open = [k \in Keys |-> 0] /\ table = {}
  /\ mode = IF transport.push THEN "push" ELSE "polling"
  /\ attached = FALSE /\ verdict = "none"
  /\ polling = FALSE /\ timer = NoTimer
  /\ loop = [l \in Loops |-> "idle"]
  /\ disposed = FALSE

-----------------------------------------------------------------------------
(* One tick of chain l that goes on to drain: drainEvents returns a promise, *)
(* or throws and the tick is tried again after the interval.                 *)

Drains(l) ==
  /\ loop' = [loop EXCEPT ![l] = "draining"]
  /\ UNCHANGED timer

Ends(l) == loop' = [loop EXCEPT ![l] = "idle"]

MutThrows(l) ==    \* a synchronous failure ends the loop, not the tick
  /\ Ends(l)
  /\ UNCHANGED timer

Throws(l) ==
  /\ loop' = [loop EXCEPT ![l] = "waiting"]
  /\ timer' = l

(* What tells each adapter that a loop is running. *)
LoopRuns == IF adapter = "node" THEN polling ELSE timer # NoTimer

EnsurePolling ==
  IF LoopRuns
  THEN UNCHANGED pollVars
  ELSE /\ polling' = (adapter = "node")
       /\ \E l \in Loops : loop[l] = "idle" /\ (Drains(l) \/ Throws(l))

(* clearTimeout does nothing for a timer that has fired. *)
MutClearTimer ==   \* the polling flag survives its loop
  IF timer = NoTimer
  THEN UNCHANGED pollVars
  ELSE /\ timer' = NoTimer /\ UNCHANGED polling
       /\ loop' = [loop EXCEPT ![timer] = IF @ = "waiting" THEN "idle" ELSE @]

ClearTimer ==
  IF timer = NoTimer
  THEN UNCHANGED pollVars
  ELSE /\ timer' = NoTimer /\ polling' = FALSE
       /\ loop' = [loop EXCEPT ![timer] = IF @ = "waiting" THEN "idle" ELSE @]

-----------------------------------------------------------------------------
Subscribe(k) ==
  /\ ~disposed /\ open[k] < MaxOpen
  /\ open' = [open EXCEPT ![k] = @ + 1]
  /\ table' = table \cup {k}
  /\ IF mode = "push"
     THEN attached' = TRUE /\ UNCHANGED pollVars
     ELSE EnsurePolling /\ UNCHANGED attached
  /\ verdict' = IF transport.push /\ transport.ready /\ verdict = "none"
                THEN "waiting" ELSE verdict
  /\ UNCHANGED <<fixedVars, mode, disposed>>

(* The function a subscribe returned, called for the first time. *)
MutUnsubscribe(k) ==   \* the last unsubscribe forgets the push listener
  /\ open[k] > 0
  /\ open' = [open EXCEPT ![k] = @ - 1]
  /\ table' = table \ {k}
  /\ IF table' = {} /\ (adapter = "node" => k \in table)
     THEN ClearTimer /\ UNCHANGED attached
     ELSE UNCHANGED <<pollVars, attached>>
  /\ UNCHANGED <<fixedVars, mode, verdict, disposed>>

Unsubscribe(k) ==
  /\ open[k] > 0
  /\ open' = [open EXCEPT ![k] = @ - 1]
  /\ table' = table \ {k}
  /\ IF table' = {} /\ (adapter = "node" => k \in table)
     THEN ClearTimer /\ attached' = FALSE
     ELSE UNCHANGED <<pollVars, attached>>
  /\ UNCHANGED <<fixedVars, mode, verdict, disposed>>

Dispose ==
  /\ adapter = "bun" /\ ~disposed
  /\ disposed' = TRUE
  /\ table' = {}
  /\ ClearTimer
  /\ UNCHANGED <<fixedVars, open, deliveryVars>>

-----------------------------------------------------------------------------
(* The timer of chain l fires. *)

Fires(l) == loop[l] = "waiting"
NothingToDo == IF adapter = "node" THEN table = {} ELSE disposed

FireDrains(l) ==
  /\ Fires(l) /\ ~NothingToDo
  /\ Drains(l)
  /\ UNCHANGED <<fixedVars, open, table, deliveryVars, polling, disposed>>

FireThrows(l) ==
  /\ Fires(l) /\ ~NothingToDo
  /\ Throws(l)
  /\ UNCHANGED <<fixedVars, open, table, deliveryVars, polling, disposed>>

FireEnds(l) ==
  /\ Fires(l) /\ NothingToDo
  /\ Ends(l)
  /\ polling' = FALSE
  /\ timer' = IF adapter = "node" THEN NoTimer ELSE timer
  /\ UNCHANGED <<fixedVars, open, table, deliveryVars, disposed>>

(* The promise of drainEvents settles, either way, and the events it brought *)
(* have been dispatched.                                                     *)
MutDrained(l) ==   \* the table is not looked at again after the drain
  /\ loop[l] = "draining"
  /\ IF disposed
     THEN Ends(l) /\ timer' = NoTimer /\ polling' = FALSE
     ELSE /\ loop' = [loop EXCEPT ![l] = "waiting"]
          /\ timer' = l
          /\ UNCHANGED polling
  /\ UNCHANGED <<fixedVars, open, table, deliveryVars, disposed>>

Drained(l) ==
  /\ loop[l] = "draining"
  /\ IF disposed \/ table = {}
     THEN Ends(l) /\ timer' = NoTimer /\ polling' = FALSE
     ELSE /\ loop' = [loop EXCEPT ![l] = "waiting"]
          /\ timer' = l
          /\ UNCHANGED polling
  /\ UNCHANGED <<fixedVars, open, table, deliveryVars, disposed>>

(* ready() settles, and pushCapable has its final value. *)
MutVerdict ==   \* the fallback waits for a moment without subscribers
  /\ verdict = "waiting"
  /\ verdict' = "settled"
  /\ IF mode = "push" /\ ~transport.capable /\ table = {}
     THEN mode' = "polling" /\ UNCHANGED <<attached, pollVars>>
     ELSE UNCHANGED <<attached, mode, pollVars>>
  /\ UNCHANGED <<fixedVars, open, table, disposed>>

Verdict ==
  /\ verdict = "waiting"
  /\ verdict' = "settled"
  /\ IF mode = "push" /\ ~transport.capable
     THEN /\ attached' = FALSE
          /\ mode' = "polling"
          /\ IF table # {} THEN EnsurePolling ELSE UNCHANGED pollVars
     ELSE UNCHANGED <<attached, mode, pollVars>>
  /\ UNCHANGED <<fixedVars, open, table, disposed>>

-----------------------------------------------------------------------------
Fire(l) == FireDrains(l) \/ FireThrows(l) \/ FireEnds(l)

Next ==
  \/ \E k \in Keys : Subscribe(k) \/ Unsubscribe(k)
  \/ \E l \in Loops : Fire(l) \/ Drained(l)
  \/ Verdict \/ Dispose

Spec == Init /\ [][Next]_vars

-----------------------------------------------------------------------------
TypeOK ==
  /\ adapter \in {"node", "bun"}
  /\ transport \in [push: BOOLEAN, ready: BOOLEAN, capable: BOOLEAN]
  /\ open \in [Keys -> 0..MaxOpen] /\ table \subseteq Keys
  /\ mode \in {"push", "polling"} /\ attached \in BOOLEAN
  /\ verdict \in {"none", "waiting", "settled"}
  /\ polling \in BOOLEAN /\ timer \in Loops \cup {NoTimer}
  /\ loop \in [Loops -> {"idle", "draining", "waiting"}]
  /\ disposed \in BOOLEAN

Live == {l \in Loops : loop[l] # "idle"}

(* While anybody is subscribed something brings the events: the push listener *)
(* is attached, or a loop is under way.  A loop believed to run when it does  *)
(* not (the flag or the handle kept after its end) would leave every later    *)
(* subscriber waiting for ever.                                               *)
NoDeadStream ==
  table # {} => IF mode = "push" THEN attached ELSE Live # {}

(* Events come by one way: no loop drains the bus while the adapter listens   *)
(* for pushes, and no push listener stays when its last subscriber has gone   *)
(* or the adapter has moved to polling.                                       *)
OnePath ==
  /\ mode = "push" => Live = {}
  /\ attached => mode = "push" /\ table # {}

(* Subscribers are served by exactly one way, whatever the adapter has switched  *)
(* to and whoever has come and gone.                                          *)
ServedByOnePath == NoDeadStream /\ OnePath

(* Polling stops when nobody is subscribed, however many loops there are and  *)
(* whatever was in flight when the last subscriber left.                      *)
IdleStops == []<>(table # {} \/ Live = {})

(* A runtime that turns out not to push does not keep its subscribers on a    *)
(* silent push stream.                                                        *)
NoStuckPush == []<>~(attached /\ transport.ready /\ ~transport.capable)

(* Subscribers go on being served: as long as somebody is subscribed and the  *)
(* adapter polls, the bus is drained again and again.                         *)
KeepsDraining ==
  []<>(table # {} /\ mode = "polling" => \E l \in Loops : loop[l] = "draining")

(* All three. *)
ListenersServed == IdleStops /\ NoStuckPush /\ KeepsDraining

(* node-events.ts:43-46 and bun-events.ts:27-28: all subscriptions of a       *)
(* transport share one loop, so at most one timer is ever armed.              *)
OneLoop == Cardinality({l \in Loops : loop[l] = "waiting"}) <= 1
==============================================================================
