------------------------------ MODULE ClientCall ------------------------------
(***************************************************************************)
(* One call of the TypeScript client with all of its options:              *)
(*                                                                         *)
(*     withRetry(attempt => invoke(command, args, {signal, timeoutMs}),    *)
(*               {retries, signal})                                        *)
(*                                                                         *)
(* (packages/types/src/retry.ts, global-config.ts, cancel.ts,              *)
(* cancel-abort.ts).  Every attempt may wait for the lazy engine, then     *)
(* races the engine's answer, the abort signal and a timer; the engine     *)
(* listens to the signal itself, to pass a cancellation on to the native   *)
(* side.  An attempt that times out leaves its native call running, so     *)
(* those of several attempts can be in flight at a time.                   *)
(*                                                                         *)
(* A step is one job of the event loop; what is settled in one job is seen *)
(* by the awaiting function in another, and anything may happen in between.*)
(* The frame engine arms a second timer with the same deadline             *)
(* (invokeWithTimeoutHandledSignal); both are one here.                    *)
(***************************************************************************)
EXTENDS Integers

CONSTANTS
  Retries,    \* options.retries
  NoResult

ASSUME CallAssumption == Retries \in Nat /\ NoResult \notin
  {"value", "retryable", "fatal", "timeout", "cancelled"}

Attempts == 0..Retries
Results == {"value", "retryable", "fatal", "timeout", "cancelled"}

VARIABLES
  propagates,   \* the native module exposes invokeAsync and invokeCancel
  timed,        \* options.timeoutMs is given
  configured,   \* the global engine is installed
  aborted,      \* signal.aborted
  retry,        \* withRetry: "idle", "loop", "awaiting", "sleeping", "done"
  attempt, outcome,
  call,         \* invoke, of each attempt: "unborn", "lazy", "racing", or a result
  listening,    \* its abort listener is registered
  armed,        \* its timer is armed
  fired,        \* what of the race has rejected: "timeout", "cancelled"
  native,       \* the native call of each attempt: "none", "running", "answered"
  engineListens,\* the engine's abort listener is registered
  reply,        \* what the engine's promise settled with
  cancelled,    \* native calls invokeCancel was called for
  reentrant     \* history: attempts during whose dispatch the signal was aborted

envVars == <<propagates, timed>>
retryVars == <<retry, attempt, outcome>>
raceVars == <<call, listening, armed, fired>>
engineVars == <<native, engineListens, reply, cancelled, reentrant>>
vars == <<envVars, configured, aborted, retryVars, raceVars, engineVars>>

Init ==
  /\ propagates \in BOOLEAN /\ timed \in BOOLEAN
  /\ configured \in BOOLEAN /\ aborted = FALSE
  /\ retry = "idle" /\ attempt = 0 /\ outcome = NoResult
  /\ call = [a \in Attempts |-> "unborn"]
  /\ listening = {} /\ armed = {}
  /\ fired = [a \in Attempts |-> {}]
  /\ native = [a \in Attempts |-> "none"]
  /\ engineListens = {} /\ cancelled = {} /\ reentrant = {}
  /\ reply = [a \in Attempts |-> NoResult]

-----------------------------------------------------------------------------
(* The engine of one attempt, and what an abort does to the engines that     *)
(* listen: finish() takes the first outcome only, asks the native side to    *)
(* cancel if it has the id of the call, and rejects.                         *)

Unsettled(a) == reply[a] = NoResult
Notified == {a \in engineListens : Unsettled(a)}

EnginesHearAbort ==
  /\ engineListens' = {}
  /\ reply' = [a \in Attempts |-> IF a \in Notified THEN "cancelled" ELSE reply[a]]
  /\ cancelled' = IF propagates THEN cancelled \cup Notified ELSE cancelled

(* The races and the sleep that hear it. *)
CallersHearAbort ==
  /\ fired' = [a \in Attempts |->
                 IF a \in listening THEN fired[a] \cup {"cancelled"} ELSE fired[a]]
  /\ listening' = {}

Abort ==
  /\ ~aborted
  /\ aborted' = TRUE
  /\ EnginesHearAbort /\ CallersHearAbort
  /\ IF retry = "sleeping"
     THEN retry' = "done" /\ outcome' = "cancelled"
     ELSE UNCHANGED <<retry, outcome>>
  /\ UNCHANGED <<envVars, configured, attempt, call, armed, native, reentrant>>

-----------------------------------------------------------------------------
(* invokeWithTimeout of attempt a. *)

(* The signal was aborted before. *)
Refuse(a) ==
  /\ aborted
  /\ call' = [call EXCEPT ![a] = "cancelled"]
  /\ UNCHANGED <<aborted, listening, armed, fired, engineVars>>

(* engine.invoke throws, or rejects before it reaches the native side. *)
DispatchFails(a) ==
  /\ ~aborted
  /\ call' = [call EXCEPT ![a] = "fatal"]
  /\ UNCHANGED <<aborted, listening, armed, fired, engineVars>>

MutDispatch(a) ==   \* the signal is not looked at before the call
  /\ native' = [native EXCEPT ![a] = "running"]
  /\ engineListens' = engineListens \cup {a}
  /\ call' = [call EXCEPT ![a] = "racing"]
  /\ listening' = listening \cup {a}
  /\ armed' = IF timed THEN armed \cup {a} ELSE armed
  /\ UNCHANGED <<aborted, fired, reply, cancelled, reentrant>>

Dispatch(a) ==
  /\ ~aborted
  /\ native' = [native EXCEPT ![a] = "running"]
  /\ engineListens' = engineListens \cup {a}
  /\ call' = [call EXCEPT ![a] = "racing"]
  /\ listening' = listening \cup {a}
  /\ armed' = IF timed THEN armed \cup {a} ELSE armed
  /\ UNCHANGED <<aborted, fired, reply, cancelled, reentrant>>

(* The native call aborts the signal before it returns.  The callback engine *)
(* listens already, but has no id to cancel; the others register a listener  *)
(* that is never called.  invokeWithTimeout finds the signal aborted.        *)
MutDispatchAborts(a) ==   \* the signal is not looked at again after the call
  /\ ~aborted
  /\ aborted' = TRUE
  /\ native' = [native EXCEPT ![a] = "running"]
  /\ engineListens' = IF propagates THEN {} ELSE {a}
  /\ reply' = [b \in Attempts |-> IF b \in Notified THEN "cancelled" ELSE reply[b]]
  /\ cancelled' = IF propagates THEN cancelled \cup Notified ELSE cancelled
  /\ reentrant' = reentrant \cup {a}
  /\ call' = [call EXCEPT ![a] = "racing"]
  /\ CallersHearAbort
  /\ armed' = IF timed THEN armed \cup {a} ELSE armed

DispatchAborts(a) ==
  /\ ~aborted
  /\ aborted' = TRUE
  /\ native' = [native EXCEPT ![a] = "running"]
  /\ engineListens' = IF propagates THEN {} ELSE {a}
  /\ reply' = [b \in Attempts |->
                 IF b \in Notified \/ (b = a /\ propagates) THEN "cancelled" ELSE reply[b]]
  /\ cancelled' = IF propagates THEN cancelled \cup Notified ELSE cancelled
  /\ reentrant' = reentrant \cup {a}
  /\ call' = [call EXCEPT ![a] = "cancelled"]
  /\ CallersHearAbort
  /\ UNCHANGED armed

Run(a) == Refuse(a) \/ DispatchFails(a) \/ Dispatch(a) \/ DispatchAborts(a)

(* invoke without an engine waits for the initialization, deaf to the signal  *)
(* and without a timer.                                                       *)
Invoke(a) ==
  IF configured
  THEN Run(a)
  ELSE /\ call' = [call EXCEPT ![a] = "lazy"]
       /\ UNCHANGED <<aborted, listening, armed, fired, engineVars>>

Configure ==
  /\ ~configured
  /\ configured' = TRUE
  /\ UNCHANGED <<envVars, aborted, retryVars, raceVars, engineVars>>

LazyReady(a) ==
  /\ call[a] = "lazy" /\ configured
  /\ Run(a)
  /\ UNCHANGED <<envVars, configured, retryVars>>

LazyFails(a) ==
  /\ call[a] = "lazy" /\ ~configured
  /\ \E r \in {"retryable", "fatal"} : call' = [call EXCEPT ![a] = r]
  /\ UNCHANGED <<envVars, configured, aborted, retryVars, listening, armed, fired,
                 engineVars>>

(* The native callback: too late when the promise has settled. *)
Answer(a) ==
  /\ native[a] = "running"
  /\ native' = [native EXCEPT ![a] = "answered"]
  /\ engineListens' = engineListens \ {a}
  /\ IF Unsettled(a)
     THEN \E r \in {"value", "retryable", "fatal"} : reply' = [reply EXCEPT ![a] = r]
     ELSE UNCHANGED reply
  /\ UNCHANGED <<envVars, configured, aborted, retryVars, raceVars, cancelled, reentrant>>

TimerFires(a) ==
  /\ a \in armed
  /\ armed' = armed \ {a}
  /\ fired' = [fired EXCEPT ![a] = @ \cup {"timeout"}]
  /\ UNCHANGED <<envVars, configured, aborted, retryVars, call, listening, engineVars>>

(* Promise.race takes one of those that have settled; finally clears up. *)
MutSettle(a) ==   \* an attempt that is over stops listening altogether
  /\ call[a] = "racing"
  /\ \E r \in fired[a] \cup ({reply[a]} \ {NoResult}) :
       call' = [call EXCEPT ![a] = r]
  /\ listening' = listening \ {a}
  /\ armed' = armed \ {a}
  /\ engineListens' = engineListens \ {a}
  /\ UNCHANGED <<envVars, configured, aborted, retryVars, fired, native, reply,
                 cancelled, reentrant>>

MutSettleAnswered(a) ==   \* only an answer clears up
  /\ call[a] = "racing"
  /\ \E r \in fired[a] \cup ({reply[a]} \ {NoResult}) :
       /\ call' = [call EXCEPT ![a] = r]
       /\ listening' = IF r = "timeout" THEN listening ELSE listening \ {a}
  /\ armed' = armed \ {a}
  /\ UNCHANGED <<envVars, configured, aborted, retryVars, fired, engineVars>>

Settle(a) ==
  /\ call[a] = "racing"
  /\ \E r \in fired[a] \cup ({reply[a]} \ {NoResult}) :
       call' = [call EXCEPT ![a] = r]
  /\ listening' = listening \ {a}
  /\ armed' = armed \ {a}
  /\ UNCHANGED <<envVars, configured, aborted, retryVars, fired, engineVars>>

-----------------------------------------------------------------------------
(* withRetry. *)

Begin ==
  /\ retry = "idle"
  /\ retry' = "loop"
  /\ UNCHANGED <<envVars, configured, aborted, attempt, outcome, raceVars, engineVars>>

End(result) == retry' = "done" /\ outcome' = result

(* The top of the loop. *)
Stop ==
  /\ retry = "loop" /\ aborted
  /\ End("cancelled")
  /\ UNCHANGED <<envVars, configured, aborted, attempt, raceVars, engineVars>>

Try ==
  /\ retry = "loop" /\ ~aborted
  /\ retry' = "awaiting"
  /\ Invoke(attempt)
  /\ UNCHANGED <<envVars, configured, attempt, outcome>>

(* retryIf is isRetryableCode, which takes a cancellation for retryable. *)
Retryable(r) == r \in {"retryable", "timeout", "cancelled"}

Return ==
  /\ retry = "awaiting" /\ call[attempt] \in Results
  /\ call[attempt] = "value" \/ attempt = Retries \/ ~Retryable(call[attempt])
  /\ End(call[attempt])
  /\ UNCHANGED <<envVars, configured, aborted, attempt, raceVars, engineVars>>

Backoff ==
  /\ retry = "awaiting" /\ Retryable(call[attempt]) /\ attempt < Retries
  /\ IF aborted
     THEN End("cancelled")
     ELSE retry' = "sleeping" /\ UNCHANGED outcome
  /\ UNCHANGED <<envVars, configured, aborted, attempt, raceVars, engineVars>>

Wake ==
  /\ retry = "sleeping"
  /\ retry' = "loop" /\ attempt' = attempt + 1
  /\ UNCHANGED <<envVars, configured, aborted, outcome, raceVars, engineVars>>

-----------------------------------------------------------------------------
Next ==
  \/ Abort \/ Configure
  \/ Begin \/ Stop \/ Try \/ Return \/ Backoff \/ Wake
  \/ \E a \in Attempts :
       LazyReady(a) \/ LazyFails(a) \/ Answer(a) \/ TimerFires(a) \/ Settle(a)

Spec == Init /\ [][Next]_vars

-----------------------------------------------------------------------------
TypeOK ==
  /\ propagates \in BOOLEAN /\ timed \in BOOLEAN
  /\ configured \in BOOLEAN /\ aborted \in BOOLEAN
  /\ retry \in {"idle", "loop", "awaiting", "sleeping", "done"}
  /\ attempt \in Attempts /\ outcome \in Results \cup {NoResult}
  /\ call \in [Attempts -> {"unborn", "lazy", "racing"} \cup Results]
  /\ listening \subseteq Attempts /\ armed \subseteq Attempts
  /\ fired \in [Attempts -> SUBSET {"timeout", "cancelled"}]
  /\ native \in [Attempts -> {"none", "running", "answered"}]
  /\ engineListens \subseteq Attempts /\ cancelled \subseteq Attempts
  /\ reply \in [Attempts -> Results \cup {NoResult}]
  /\ reentrant \subseteq Attempts

(* An abort reaches every native call of this caller that is still running:   *)
(* also those of attempts that timed out and were retried, which nobody       *)
(* awaits any more.  Left out: a call during whose dispatch the signal was    *)
(* aborted, when its id is not known yet.                                     *)
AbortReachesNative ==
  aborted /\ propagates =>
    \A a \in Attempts \ reentrant : native[a] = "running" => a \in cancelled

(* When the caller has its result no timer stays armed and no listener on the *)
(* signal (which may live as long as the program), but for those of engines   *)
(* whose native call still runs.                                              *)
NothingLeftBehind ==
  retry = "done" =>
    /\ armed = {} /\ listening = {}
    /\ \A a \in engineListens : native[a] = "running"

(* No native call is started once the signal is aborted, whether the abort    *)
(* came while the caller waited for the engine, slept, or saw an attempt fail. *)
NoStartAfterAbort ==
  [][aborted => \A a \in Attempts : native[a] = "none" => native'[a] = "none"]_vars

(* A hung native side holds nobody: with an engine installed, an aborted call *)
(* and a call with a timeout end.                                             *)
Settles ==
  []<>(configured /\ (aborted \/ timed) /\ retry # "idle" => retry = "done")
==============================================================================
