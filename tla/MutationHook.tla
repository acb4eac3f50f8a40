------------------------------ MODULE MutationHook ------------------------------
(***************************************************************************)
(* One mounted useMutation (packages/react/src/useMutation.ts).  The pair  *)
(* of engine and command is a scope with counters of its own; the render   *)
(* state belongs to the scope that wrote it.  Calls of the committed scope *)
(* overlap, functions of replaced scopes are still called by whoever kept  *)
(* them, and React takes the effect of a scope down and puts it up again   *)
(* when it hides and shows the tree.  An unmount is a Hide without a Show. *)
(*                                                                         *)
(* A call captures scope.generation: what matters of it is whether it has  *)
(* been bumped since, `cut`.  latestCall is the call that drew the number. *)
(* A call, or a scope, that nothing refers to any more may be used again.  *)
(***************************************************************************)
EXTENDS Integers, FiniteSets

CONSTANTS
  Scopes, Calls,   \* bounds on the scopes and calls alive
  MaxPending,      \* bound: scope.pendingCalls, which a hidden scope leaks
  None

VARIABLES
  scope,      \* of the committed render
  effect,     \* the scope whose effect is mounted, or None
  hidden,     \* effects are taken down until the tree is shown
  counters,   \* of each scope: active, latest, pending
  call,
  shown,      \* the state of the hook
  everHidden  \* history: an effect has been taken down and its scope kept

Fresh == [active |-> TRUE, latest |-> None, pending |-> 0]
EmptyState(s) == [scope |-> s, data |-> None, loading |-> FALSE, error |-> None]
Idle(s) == [phase |-> "idle", scope |-> s, cut |-> FALSE, failed |-> FALSE, dropped |-> FALSE]

Init ==
  /\ scope \in Scopes /\ effect = None /\ hidden = FALSE /\ everHidden = FALSE
  /\ counters = [s \in Scopes |-> Fresh]
  /\ call = [c \in Calls |-> Idle(scope)]
  /\ shown = EmptyState(scope)

-----------------------------------------------------------------------------
Running(c) == call[c].phase \in {"running", "failing"}
Failing == {c \in Calls : call[c].phase = "failing"}
InUse(c) ==
  Running(c) \/ c \in {shown.data, shown.error} \/ \E s \in Scopes : counters[s].latest = c

MutIsCurrent(c) == counters[call[c].scope].active   \* the generation is not compared
IsCurrent(c) == counters[call[c].scope].active /\ ~call[c].cut

(* What update(changes) makes of the state, for a call of scope s. *)
Updated(s, new) == IF shown.scope = s THEN new ELSE shown

(* A bump of the generation of s.  Of a call that is over nothing is asked   *)
(* any more.                                                                 *)
Bumped(s, after) ==
  [c \in Calls |-> IF call[c].scope # s THEN call[c]
                   ELSE IF Running(c) THEN after[c] ELSE Idle(s)]
Cut(s) == Bumped(s, [c \in Calls |-> [call[c] EXCEPT !.cut = TRUE]])

(* mutateAsync of scope s up to the await. *)
MutCall(s) ==   \* the call is counted when it has an answer only
  LET c == CHOOSE d \in Calls : ~InUse(d)
  IN  /\ (\E d \in Calls : ~InUse(d)) /\ counters[s].pending < MaxPending
      /\ call' = [call EXCEPT ![c] = [Idle(s) EXCEPT !.phase = "running"]]
      /\ counters' = [counters EXCEPT ![s].latest = c]
      /\ shown' = IF counters[s].active
                  THEN Updated(s, [shown EXCEPT !.loading = TRUE, !.error = None]) ELSE shown
      /\ UNCHANGED <<scope, effect, hidden, everHidden>>
Call(s) ==
  LET c == CHOOSE d \in Calls : ~InUse(d)
  IN  /\ (\E d \in Calls : ~InUse(d)) /\ counters[s].pending < MaxPending
      /\ call' = [call EXCEPT ![c] = [Idle(s) EXCEPT !.phase = "running"]]
      /\ counters' = [counters EXCEPT ![s].latest = c, ![s].pending = @ + 1]
      /\ shown' = IF counters[s].active
                  THEN Updated(s, [shown EXCEPT !.loading = TRUE, !.error = None]) ELSE shown
      /\ UNCHANGED <<scope, effect, hidden, everHidden>>

Over(c) == IF call[c].cut THEN Idle(call[c].scope) ELSE [call[c] EXCEPT !.phase = "done"]

(* The finally block, and the update of data that follows a success. *)
Finally(c, data) ==
  LET s == call[c].scope
      left == IF counters[s].pending > 0 THEN counters[s].pending - 1 ELSE 0
  IN IF IsCurrent(c)
     THEN /\ counters' = [counters EXCEPT ![s].pending = left]
          /\ shown' = Updated(s, [shown EXCEPT !.loading = left > 0, !.data = data])
     ELSE UNCHANGED <<counters, shown>>

MutSucceed(c) ==   \* any call of the scope writes its result
  /\ call[c].phase = "running" /\ Failing = {}
  /\ call' = [call EXCEPT ![c] = Over(c)]
  /\ Finally(c, c)
  /\ UNCHANGED <<scope, effect, hidden, everHidden>>
Succeed(c) ==
  /\ call[c].phase = "running" /\ Failing = {}
  /\ call' = [call EXCEPT ![c] = Over(c)]
  /\ Finally(c, IF counters[call[c].scope].latest = c THEN c ELSE shown.data)
  /\ UNCHANGED <<scope, effect, hidden, everHidden>>

(* A failure writes its error and runs onError and onSettled before the      *)
(* finally block: what these callbacks call comes in between.                *)
Fail(c) ==
  LET s == call[c].scope IN
  /\ call[c].phase = "running" /\ Failing = {}
  /\ call' = [call EXCEPT ![c].phase = "failing", ![c].failed = TRUE]
  /\ shown' = IF IsCurrent(c) /\ counters[s].latest = c
              THEN Updated(s, [shown EXCEPT !.error = c]) ELSE shown
  /\ UNCHANGED <<scope, effect, hidden, counters, everHidden>>

Failed(c) ==
  /\ call[c].phase = "failing"
  /\ call' = [call EXCEPT ![c] = Over(c)]
  /\ Finally(c, shown.data)
  /\ UNCHANGED <<scope, effect, hidden, everHidden>>

MutReset(s) ==   \* the state is emptied, calls under way keep their generation
  /\ counters' = [counters EXCEPT ![s].pending = 0]
  /\ call' = Bumped(s, [c \in Calls |-> [call[c] EXCEPT !.dropped = TRUE]])
  /\ shown' = Updated(s, EmptyState(s))
  /\ UNCHANGED <<scope, effect, hidden, everHidden>>
Reset(s) ==
  /\ counters' = [counters EXCEPT ![s].pending = 0]
  /\ call' = Bumped(s, [c \in Calls |-> [call[c] EXCEPT !.cut = TRUE, !.dropped = TRUE]])
  /\ shown' = Updated(s, EmptyState(s))
  /\ UNCHANGED <<scope, effect, hidden, everHidden>>

-----------------------------------------------------------------------------
(* The cleanup of the effect of s. *)
TakenDown(s) == [counters[s] EXCEPT !.active = FALSE, !.pending = 0]

(* A render with another engine or command commits; React has run the        *)
(* effects of the render before by then.                                     *)
Replace(s) ==
  /\ Failing = {} /\ s # scope /\ (hidden \/ effect = scope)
  /\ \A c \in Calls : call[c].scope = s => ~Running(c)
  /\ scope' = s
  /\ counters' = [counters EXCEPT ![s] = Fresh]
  /\ call' = [c \in Calls |-> IF call[c].scope = s THEN Idle(scope') ELSE call[c]]
  /\ shown' = EmptyState(s)
  /\ UNCHANGED <<effect, hidden, everHidden>>

(* The effects of the committed render: the old scope's goes, the new one's comes. *)
RunEffects ==
  /\ Failing = {} /\ ~hidden /\ effect # scope
  /\ effect' = scope
  /\ counters' = [s \in Scopes |-> IF s = scope THEN [counters[s] EXCEPT !.active = TRUE]
                                   ELSE IF s = effect THEN TakenDown(s) ELSE counters[s]]
  /\ call' = IF effect = None THEN call ELSE Cut(effect)
  /\ UNCHANGED <<scope, hidden, shown, everHidden>>

Hide ==
  /\ Failing = {} /\ ~hidden /\ effect = scope
  /\ hidden' = TRUE /\ everHidden' = TRUE
  /\ effect' = None
  /\ counters' = [counters EXCEPT ![scope] = TakenDown(scope)]
  /\ call' = Cut(scope)
  /\ UNCHANGED <<scope, shown>>

Show ==
  /\ Failing = {} /\ hidden
  /\ hidden' = FALSE
  /\ effect' = scope
  /\ counters' = [counters EXCEPT ![scope].active = TRUE]
  /\ UNCHANGED <<scope, call, shown, everHidden>>

-----------------------------------------------------------------------------
Next ==
  \/ \E s \in Scopes : Call(s) \/ Reset(s) \/ Replace(s)
  \/ \E c \in Calls : Succeed(c) \/ Fail(c) \/ Failed(c)
  \/ RunEffects \/ Hide \/ Show

-----------------------------------------------------------------------------
TypeOK ==
  /\ scope \in Scopes /\ effect \in Scopes \cup {None}
  /\ {hidden, everHidden} \subseteq BOOLEAN
  /\ counters \in [Scopes -> [active : BOOLEAN, latest : Calls \cup {None},
                              pending : 0..MaxPending]]
  /\ call \in [Calls -> [phase : {"idle", "running", "failing", "done"}, scope : Scopes,
                         cut : BOOLEAN, failed : BOOLEAN, dropped : BOOLEAN]]
  /\ shown \in [scope : Scopes, data : Calls \cup {None}, loading : BOOLEAN,
                error : Calls \cup {None}]

(* What is shown belongs to the committed scope and to a call made after its *)
(* last reset, however late an answer of a replaced scope or of a call from  *)
(* before the reset comes, and through hiding and showing.                   *)
NothingStale ==
  /\ shown.scope = scope
  /\ \A c \in {shown.data, shown.error} \ {None} : call[c].scope = scope /\ ~call[c].dropped

(* Overlapping calls settle in any order, and onError may call and reset in  *)
(* between: once the call made last has settled, its outcome is what is      *)
(* shown, an error of an earlier call included in what it replaces.          *)
LatestWins ==
  LET c == counters[scope].latest
  IN ~everHidden /\ c # None /\ call[c].phase = "done" /\ ~call[c].cut
       => IF call[c].failed THEN shown.error = c ELSE shown.data = c /\ shown.error = None

(* loading is on exactly while a call of the committed scope made since its  *)
(* last reset has no outcome, as far as the tree was never hidden.           *)
Busy == \E c \in Calls : Running(c) /\ call[c].scope = scope /\ ~call[c].cut
LoadingExact == ~everHidden => (shown.loading <=> Busy)
================================================================================
