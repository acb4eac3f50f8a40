-------------------------- MODULE ClientSide_proofs --------------------------
(***************************************************************************)
(* Proofs about the layers of the client: a call with any number of        *)
(* retries, frames, the Suspense cache and the hooks.                      *)
(***************************************************************************)
EXTENDS ClientSide, FiniteSetTheorems, TLAPS

USE DEF envVars, retryVars, raceVars, engineVars

(* The conjuncts of the inductive invariant. *)

\* Nothing has been done for an attempt whose dispatch is still to come.
Fresh ==
  /\ \A a \in Attempts : call[a] \in {"unborn", "lazy"} => native[a] = "none"
  /\ \A a \in Attempts : native[a] = "none" => reply[a] = NoResult /\ a \notin engineListens
  /\ \A a \in Attempts : a > attempt => call[a] = "unborn"
  /\ retry \in {"idle", "loop"} => call[attempt] = "unborn"

\* Only the attempt that is awaited races.
OneRace ==
  /\ \A a \in Attempts : call[a] \in {"lazy", "racing"} => retry = "awaiting" /\ a = attempt
  /\ \A a \in armed \cup listening : call[a] = "racing"
  /\ retry = "sleeping" => attempt < Retries

\* A running native call has a listener that can still cancel it, or was
\* cancelled, or could not be.
Covered ==
  /\ \A a \in engineListens : native[a] = "running"
  /\ aborted /\ propagates => engineListens = {}
  /\ \A a \in Attempts :
       native[a] = "running" /\ propagates =>
         \/ a \in engineListens /\ reply[a] = NoResult
         \/ a \in cancelled \cup reentrant

IInv == TypeOK /\ Fresh /\ OneRace /\ Covered

(***************************************************************************)
(* Initial states.                                                         *)
(***************************************************************************)
LEMMA InvInit == Init => IInv
  <1> SUFFICES ASSUME Init PROVE IInv
    OBVIOUS
  <1>1. TypeOK
    <2>1. 0 \in Attempts
      BY CallAssumption DEF Attempts
    <2>2. fired \in [Attempts -> SUBSET {"timeout", "cancelled"}]
      BY DEF Init
    <2> QED BY <2>1, <2>2 DEF Init, TypeOK, Results
  <1>2. Fresh /\ OneRace /\ Covered
    BY CallAssumption DEF Init, Fresh, OneRace, Covered, Attempts
  <1> QED BY <1>1, <1>2 DEF IInv

(***************************************************************************)
(* Steps.                                                                  *)
(***************************************************************************)
LEMMA NoResultIsNone == NoResult \notin Results
  BY CallAssumption DEF Results

LEMMA AttemptsAreNumbers == \A a \in Attempts : a \in Int /\ a <= Retries
  BY CallAssumption DEF Attempts

LEMMA InvAbort == ASSUME IInv, Abort PROVE IInv'
  <1> USE NoResultIsNone DEF IInv
  <1>1. TypeOK'
    BY DEF TypeOK, Abort, EnginesHearAbort, CallersHearAbort, Notified, Unsettled, Results
  <1>2. Fresh'
    BY DEF TypeOK, Fresh, Abort, EnginesHearAbort, Notified, Unsettled
  <1>3. OneRace'
    BY DEF TypeOK, OneRace, Abort, EnginesHearAbort, CallersHearAbort
  <1>4. Covered'
    BY DEF TypeOK, Covered, Abort, EnginesHearAbort, Notified, Unsettled
  <1> QED BY <1>1, <1>2, <1>3, <1>4

\* The run of an attempt, at the top of the loop or after the lazy wait.
LEMMA InvRun ==
  ASSUME IInv, Run(attempt), retry \in {"loop", "awaiting"}, retry' = "awaiting",
         call[attempt] \in {"unborn", "lazy"},
         UNCHANGED <<envVars, configured, attempt, outcome>>
  PROVE  IInv'
  <1> USE NoResultIsNone DEF IInv
  <1>1. attempt \in Attempts /\ native[attempt] = "none"
    BY DEF TypeOK, Fresh
  <1>2. CASE Refuse(attempt)
    <2>1. TypeOK'
      BY <1>1, <1>2 DEF TypeOK, Refuse, Results
    <2>2. Fresh'
      BY <1>1, <1>2, AttemptsAreNumbers DEF TypeOK, Refuse, Fresh
    <2>3. OneRace' /\ Covered'
      BY <1>1, <1>2 DEF TypeOK, Refuse, OneRace, Covered
    <2> QED BY <2>1, <2>2, <2>3
  <1>3. CASE DispatchFails(attempt)
    <2>1. TypeOK'
      BY <1>1, <1>3 DEF TypeOK, DispatchFails, Results
    <2>2. Fresh'
      BY <1>1, <1>3, AttemptsAreNumbers DEF TypeOK, DispatchFails, Fresh
    <2>3. OneRace' /\ Covered'
      BY <1>1, <1>3 DEF TypeOK, DispatchFails, OneRace, Covered
    <2> QED BY <2>1, <2>2, <2>3
  <1>4. CASE Dispatch(attempt)
    <2>1. TypeOK'
      BY <1>1, <1>4 DEF TypeOK, Dispatch
    <2>2. Fresh'
      BY <1>1, <1>4, AttemptsAreNumbers DEF TypeOK, Dispatch, Fresh
    <2>3. OneRace'
      BY <1>1, <1>4 DEF TypeOK, Dispatch, OneRace
    <2>4. Covered'
      BY <1>1, <1>4 DEF TypeOK, Dispatch, Covered, Fresh
    <2> QED BY <2>1, <2>2, <2>3, <2>4
  <1>5. CASE DispatchAborts(attempt)
    <2>1. TypeOK'
      BY <1>1, <1>5 DEF TypeOK, DispatchAborts, CallersHearAbort, Notified, Unsettled, Results
    <2>2. Fresh'
      BY <1>1, <1>5, AttemptsAreNumbers DEF TypeOK, DispatchAborts, Fresh, Notified, Unsettled
    <2>3. OneRace'
      BY <1>1, <1>5 DEF TypeOK, DispatchAborts, CallersHearAbort, OneRace
    <2>4. Covered'
      BY <1>1, <1>5 DEF TypeOK, DispatchAborts, Covered, Notified, Unsettled
    <2> QED BY <2>1, <2>2, <2>3, <2>4
  <1> QED BY <1>2, <1>3, <1>4, <1>5 DEF Run

LEMMA InvTry == ASSUME IInv, Try PROVE IInv'
  <1> USE DEF IInv
  <1>1. call[attempt] = "unborn" /\ attempt \in Attempts
    BY DEF TypeOK, Fresh, Try
  <1>2. CASE configured
    BY <1>1, <1>2, InvRun DEF Try, Invoke
  <1>3. CASE ~configured
    <2>1. call' = [call EXCEPT ![attempt] = "lazy"]
      BY <1>3 DEF Try, Invoke
    <2>2. TypeOK'
      BY <1>1, <1>3, <2>1 DEF TypeOK, Try, Invoke
    <2>3. Fresh' /\ OneRace' /\ Covered'
      BY <1>1, <1>3, <2>1, AttemptsAreNumbers
         DEF TypeOK, Try, Invoke, Fresh, OneRace, Covered
    <2> QED BY <2>2, <2>3
  <1> QED BY <1>2, <1>3

LEMMA InvLazyReady ==
  ASSUME IInv, NEW a \in Attempts, LazyReady(a) PROVE IInv'
  <1>1. a = attempt /\ retry = "awaiting"
    BY DEF IInv, OneRace, LazyReady
  <1> QED BY <1>1, InvRun DEF LazyReady

LEMMA InvLazyFails ==
  ASSUME IInv, NEW a \in Attempts, LazyFails(a) PROVE IInv'
  <1> USE DEF IInv
  <1>1. PICK r \in {"retryable", "fatal"} : call' = [call EXCEPT ![a] = r]
    BY DEF LazyFails
  <1>2. TypeOK'
    BY <1>1 DEF TypeOK, LazyFails, Results
  <1>3. a = attempt /\ retry = "awaiting"
    BY DEF OneRace, LazyFails
  <1>4. Fresh' /\ OneRace' /\ Covered'
    BY <1>1, <1>3, AttemptsAreNumbers DEF TypeOK, LazyFails, Fresh, OneRace, Covered
  <1> QED BY <1>2, <1>4

LEMMA InvAnswer ==
  ASSUME IInv, NEW a \in Attempts, Answer(a) PROVE IInv'
  <1> USE NoResultIsNone DEF IInv
  <1>1. reply' \in [Attempts -> Results \cup {NoResult}]
    BY DEF TypeOK, Answer, Results
  <1>2. \A b \in Attempts : b # a => reply'[b] = reply[b]
    BY DEF TypeOK, Answer
  <1>3. TypeOK'
    BY <1>1 DEF TypeOK, Answer
  <1>4. Fresh'
    BY <1>2, AttemptsAreNumbers DEF TypeOK, Answer, Fresh
  <1>5. OneRace'
    BY DEF TypeOK, Answer, OneRace
  <1>6. Covered'
    BY <1>2 DEF TypeOK, Answer, Covered
  <1> QED BY <1>3, <1>4, <1>5, <1>6

LEMMA InvTimerFires ==
  ASSUME IInv, NEW a \in Attempts, TimerFires(a) PROVE IInv'
  <1> USE DEF IInv
  <1>1. TypeOK'
    BY DEF TypeOK, TimerFires
  <1>2. Fresh' /\ OneRace' /\ Covered'
    BY AttemptsAreNumbers DEF TypeOK, TimerFires, Fresh, OneRace, Covered
  <1> QED BY <1>1, <1>2

LEMMA InvSettle ==
  ASSUME IInv, NEW a \in Attempts, Settle(a) PROVE IInv'
  <1> USE DEF IInv
  <1>1. PICK r \in fired[a] \cup ({reply[a]} \ {NoResult}) : call' = [call EXCEPT ![a] = r]
    BY DEF Settle
  <1>2. r \in Results
    BY <1>1 DEF TypeOK, Results
  <1>3. TypeOK'
    BY <1>1, <1>2 DEF TypeOK, Settle
  <1>4. r \notin {"unborn", "lazy", "racing"}
    BY <1>2 DEF Results
  <1>5. a = attempt /\ retry = "awaiting"
    BY DEF Settle, OneRace
  <1>6. Fresh'
    BY <1>1, <1>4, <1>5, AttemptsAreNumbers DEF TypeOK, Settle, Fresh
  <1>7. OneRace' /\ Covered'
    BY <1>1, <1>4, <1>5 DEF TypeOK, Settle, OneRace, Covered
  <1> QED BY <1>3, <1>6, <1>7

\* The steps of withRetry itself, and the installation of the engine.
LEMMA InvRetry ==
  ASSUME IInv, Configure \/ Begin \/ Stop \/ Return \/ Backoff \/ Wake PROVE IInv'
  <1> USE DEF IInv
  <1>1. CASE Configure
    BY <1>1 DEF TypeOK, Configure, Fresh, OneRace, Covered
  <1>2. CASE Begin
    BY <1>2 DEF TypeOK, Begin, Fresh, OneRace, Covered
  <1>3. CASE Stop
    BY <1>3 DEF TypeOK, Stop, End, Results, Fresh, OneRace, Covered
  <1>4. CASE Return
    BY <1>4 DEF TypeOK, Return, End, Results, Fresh, OneRace, Covered
  <1>5. CASE Backoff
    BY <1>5 DEF TypeOK, Backoff, End, Retryable, Results, Fresh, OneRace, Covered
  <1>6. CASE Wake
    <2>1. retry = "sleeping" /\ attempt' = attempt + 1 /\ retry' = "loop"
      BY <1>6 DEF Wake
    <2>2. attempt' \in Attempts
      BY <2>1, CallAssumption DEF TypeOK, OneRace, Attempts
    <2>3. attempt' > attempt /\ \A a \in Attempts : a > attempt' => a > attempt
      BY <2>1, AttemptsAreNumbers DEF TypeOK
    <2>4. Fresh'
      BY <1>6, <2>2, <2>3 DEF Wake, Fresh
    <2> QED BY <1>6, <2>1, <2>2, <2>4 DEF TypeOK, Wake, OneRace, Covered
  <1> QED BY <1>1, <1>2, <1>3, <1>4, <1>5, <1>6

LEMMA InvNext == IInv /\ [Next]_vars => IInv'
  <1> SUFFICES ASSUME IInv, [Next]_vars PROVE IInv'
    OBVIOUS
  <1>1. CASE UNCHANGED vars
    BY <1>1 DEF vars, IInv, TypeOK, Fresh, OneRace, Covered
  <1>2. CASE Abort
    BY <1>2, InvAbort
  <1>3. CASE Try
    BY <1>3, InvTry
  <1>4. CASE Configure \/ Begin \/ Stop \/ Return \/ Backoff \/ Wake
    BY <1>4, InvRetry
  <1>5. ASSUME NEW a \in Attempts,
               LazyReady(a) \/ LazyFails(a) \/ Answer(a) \/ TimerFires(a) \/ Settle(a)
        PROVE  IInv'
    BY <1>5, InvLazyReady, InvLazyFails, InvAnswer, InvTimerFires, InvSettle
  <1> QED BY <1>1, <1>2, <1>3, <1>4, <1>5 DEF Next

(***************************************************************************)
(* The theorems.                                                           *)
(***************************************************************************)

\* The inductive invariant holds.
THEOREM Invariance == Spec => []IInv
  <1> QED BY InvInit, InvNext, PTL DEF Spec

\* Every variable keeps its type.
THEOREM TypeCorrect == Spec => []TypeOK
  <1>1. IInv => TypeOK
    BY DEF IInv
  <1> QED BY Invariance, <1>1, PTL

\* An abort reaches every native call of the caller that still runs, those of
\* the attempts that timed out before included (cancel.ts, invokeCallbackWithAbort).
THEOREM AbortIsPropagated == Spec => []AbortReachesNative
  <1>1. IInv => AbortReachesNative
    BY DEF IInv, Covered, AbortReachesNative
  <1> QED BY Invariance, <1>1, PTL

\* A settled call leaves no timer, and no listener but for native calls that run
\* (the finally of invokeWithTimeout and the cleanup of invokeCallbackWithAbort).
THEOREM CleansUp == Spec => []NothingLeftBehind
  <1>1. IInv => NothingLeftBehind
    BY DEF IInv, TypeOK, OneRace, Covered, NothingLeftBehind
  <1> QED BY Invariance, <1>1, PTL

\* Nothing is sent once the signal is aborted, whatever the caller waited for.
THEOREM AbortStopsAttempts == Spec => NoStartAfterAbort
  <1> DEFINE Kept == aborted => \A a \in Attempts : native[a] = "none" => native'[a] = "none"
  <1>1. IInv /\ [Next]_vars => [Kept]_vars
    <2> SUFFICES ASSUME IInv, Next, aborted, NEW a \in Attempts, native[a] = "none"
                 PROVE  native'[a] = "none"
      BY DEF vars
    <2>1. ASSUME NEW b \in Attempts, Run(b) PROVE native' = native
      BY <2>1 DEF Run, Refuse, DispatchFails, Dispatch, DispatchAborts
    <2>2. CASE Try
      <3>1. attempt \in Attempts
        BY DEF IInv, TypeOK
      <3> QED BY <2>1, <2>2, <3>1 DEF Try, Invoke
    <2>3. ASSUME NEW b \in Attempts,
                 LazyReady(b) \/ LazyFails(b) \/ Answer(b) \/ TimerFires(b) \/ Settle(b)
          PROVE  native'[a] = "none"
      BY <2>1, <2>3 DEF IInv, TypeOK, LazyReady, LazyFails, Answer, TimerFires, Settle
    <2>4. CASE Abort \/ Configure \/ Begin \/ Stop \/ Return \/ Backoff \/ Wake
      BY <2>4 DEF Abort, Configure, Begin, Stop, Return, Backoff, Wake
    <2> QED BY <2>2, <2>3, <2>4 DEF Next
  <1> QED BY Invariance, <1>1, PTL DEF Spec, NoStartAfterAbort

-----------------------------------------------------------------------------
(***************************************************************************)
(* FrameEngine.  The conjuncts of its inductive invariant.                 *)
(***************************************************************************)
Depths == Frames!Depths
Rows == [id : 1..MaxGeneration, wire : Wires] \cup {None}
Schemas == [Dynamics -> Rows]
InJob == {"polling", "resyncing", "looking", "found", "unknown"}

\* The histories have their types too.
FrameTypes ==
  /\ Frames!TypeOK
  /\ seen \in [Depths -> SUBSET Rows]
  /\ target \in [Depths -> Statics \cup Dynamics \cup {None}]
  /\ path \in [Depths -> Frames!Paths]
  /\ codec \in [Depths -> Wires \cup {None}]

\* Only the innermost call moves; those around it are at a point that can call.
CallsNested ==
  \A c \in Depths :
    /\ c > depth => pc[c] = "idle" /\ c \notin lent
    /\ c < depth => pc[c] \in {"encoding", "native"}
    /\ pc[c] \in InJob => target[c] \in Dynamics

\* A buffer that is lent holds the frame of the one call that has it.
BuffersLent ==
  /\ Frames!FramesIntact
  /\ \A c \in lent : target[c] \in Statics /\ target[c] \in busy

\* A cache of this generation is the registry, and codecs that are not stale
\* are those of its entries.
CacheFresh ==
  /\ cachedGeneration # None => cachedGeneration <= generation
  /\ cachedGeneration = generation => cached = commands
  /\ \A p \in Frames!Paths, n \in Dynamics :
       current[p] /\ codecs[p][n] # None => cached \in Schemas /\ codecs[p][n] = cached[n].wire

\* What a call has looked up, its command was since it began.
LookedUp ==
  /\ \A c \in Depths :
       /\ pc[c] # "idle" /\ target[c] \in Dynamics => commands[target[c]] \in seen[c]
       /\ pc[c] = "looking" /\ exposes /\ c \notin failed =>
            cached \in Schemas /\ cached[target[c]] \in seen[c]
       /\ pc[c] = "found" =>
            cached \in Schemas /\ cached[target[c]] # None /\ cached[target[c]] \in seen[c]
  /\ Frames!SentAsLive /\ Frames!MissingIsMissing

FrameInv == FrameTypes /\ CallsNested /\ BuffersLent /\ CacheFresh /\ LookedUp

USE DEF Frames!registryVars, Frames!schemaVars, Frames!bufferVars, Frames!callVars, Depths, InJob

LEMMA RowIsItsFields ==
  \A row \in Rows : row # None => row.wire \in Wires /\ row = [id |-> row.id, wire |-> row.wire]
  BY DEF Rows

LEMMA FrameInit == Frames!Init => FrameInv
  <1> SUFFICES ASSUME Frames!Init PROVE FrameInv
    OBVIOUS
  <1> USE FrameAssumption DEF Frames!Init
  <1>1. FrameTypes
    BY DEF FrameTypes, Frames!TypeOK, Frames!Depths, Frames!Paths, Rows
  <1>2. CallsNested /\ BuffersLent /\ CacheFresh /\ LookedUp
    BY DEF CallsNested, BuffersLent, CacheFresh, LookedUp, Frames!FramesIntact,
           Frames!SentAsLive, Frames!MissingIsMissing, Frames!Depths
  <1> QED BY <1>1, <1>2 DEF FrameInv

(***************************************************************************)
(* Steps.                                                                  *)
(***************************************************************************)
LEMMA InvChange ==
  ASSUME FrameInv, NEW n \in Dynamics, NEW row \in Rows, Frames!Change(n, row) PROVE FrameInv'
  <1> USE FrameAssumption DEF FrameInv, Frames!Change
  <1>1. FrameTypes'
    BY DEF FrameTypes, Frames!TypeOK, Rows
  <1>2. CallsNested' /\ BuffersLent'
    BY DEF CallsNested, BuffersLent, Frames!FramesIntact
  <1>3. CacheFresh'
    BY DEF CacheFresh, FrameTypes, Frames!TypeOK
  <1>4. /\ seen' \in [Depths -> SUBSET Rows]
        /\ \A c \in Depths : seen[c] \subseteq seen'[c] /\ (target[c] = n => row \in seen'[c])
    BY DEF FrameTypes
  <1>5. \A m \in Dynamics : m # n => commands'[m] = commands[m]
    BY DEF FrameTypes, Frames!TypeOK
  <1>6. commands'[n] = row
    BY DEF FrameTypes, Frames!TypeOK
  <1>7. LookedUp'
    BY <1>4, <1>5, <1>6 DEF LookedUp, Frames!SentAsLive, Frames!MissingIsMissing
  <1> QED BY <1>1, <1>2, <1>3, <1>7

LEMMA InvInvokeStatic ==
  ASSUME FrameInv, NEW c \in Depths, NEW s \in Statics, Frames!InvokeStatic(c, s) PROVE FrameInv'
  <1> USE FrameAssumption DEF FrameInv, Frames!InvokeStatic, Frames!MayBegin, Frames!Begin
  <1>1. FrameTypes'
    BY DEF FrameTypes, Frames!TypeOK, Frames!Depths
  <1>2. CallsNested'
    BY DEF FrameTypes, Frames!TypeOK, Frames!Depths, CallsNested
  <1>3. BuffersLent'
    BY DEF FrameTypes, Frames!TypeOK, Frames!Depths, CallsNested, BuffersLent, Frames!FramesIntact
  <1>4. CacheFresh'
    BY DEF CacheFresh
  <1>5. LookedUp'
    BY DEF FrameTypes, Frames!TypeOK, LookedUp, Frames!SentAsLive, Frames!MissingIsMissing
  <1> QED BY <1>1, <1>2, <1>3, <1>4, <1>5

LEMMA InvInvokeDynamic ==
  ASSUME FrameInv, NEW c \in Depths, NEW n \in Dynamics, NEW p \in Frames!Paths,
         Frames!InvokeDynamic(c, n, p)
  PROVE  FrameInv'
  <1> USE FrameAssumption DEF FrameInv, Frames!InvokeDynamic, Frames!MayBegin, Frames!Begin
  <1>1. FrameTypes'
    BY DEF FrameTypes, Frames!TypeOK, Frames!Depths, Rows
  <1>2. CallsNested'
    BY DEF FrameTypes, Frames!TypeOK, Frames!Depths, CallsNested
  <1>3. BuffersLent'
    BY DEF FrameTypes, Frames!TypeOK, Frames!Depths, CallsNested, BuffersLent, Frames!FramesIntact
  <1>4. CacheFresh'
    BY DEF CacheFresh
  <1>5. LookedUp'
    BY DEF FrameTypes, Frames!TypeOK, LookedUp, Frames!SentAsLive, Frames!MissingIsMissing
  <1> QED BY <1>1, <1>2, <1>3, <1>4, <1>5

\* A step of the innermost call on its way, which lends and returns nothing.
LEMMA InvMoves ==
  ASSUME FrameInv, NEW c \in Depths, c = depth, pc[c] # "idle",
         NEW where \in {"polling", "resyncing", "looking", "found", "unknown", "encoding", "native"},
         where \in InJob => target[c] \in Dynamics,
         pc' = [pc EXCEPT ![c] = where],
         UNCHANGED <<depth, target, Frames!bufferVars>>
  PROVE  CallsNested' /\ BuffersLent' /\ \A d \in Depths : d # c => pc'[d] = pc[d]
  <1> USE DEF FrameInv, FrameTypes, Frames!TypeOK
  <1>1. CallsNested'
    BY DEF CallsNested, Frames!Depths
  <1>2. BuffersLent'
    BY DEF BuffersLent, Frames!FramesIntact
  <1> QED BY <1>1, <1>2

LEMMA InvRead ==
  ASSUME FrameInv, Frames!ReadSchema, UNCHANGED <<Frames!registryVars, codecs>>
  PROVE  CacheFresh' /\ cached' = commands /\ commands \in Schemas
  BY DEF FrameInv, FrameTypes, Frames!TypeOK, Frames!ReadSchema, CacheFresh, Schemas, Rows

\* Calls that are not on their way do not look at the cache.
LEMMA InvRefresh ==
  ASSUME FrameInv, Frames!Refresh PROVE FrameInv'
  <1> USE DEF FrameInv, Frames!Refresh, Frames!ReadSchema
  <1>1. FrameTypes' /\ CallsNested' /\ BuffersLent'
    BY DEF FrameTypes, Frames!TypeOK, CallsNested, BuffersLent, Frames!FramesIntact, Rows
  <1>2. CacheFresh'
    BY InvRead
  <1>3. \A c \in Depths : pc[c] \in {"idle", "encoding", "native"}
    BY DEF CallsNested, Frames!MayBegin, FrameTypes, Frames!TypeOK, Frames!Depths
  <1>4. LookedUp'
    BY <1>3 DEF LookedUp, Frames!SentAsLive, Frames!MissingIsMissing
  <1> QED BY <1>1, <1>2, <1>4

LEMMA InvPoll ==
  ASSUME FrameInv, NEW c \in Depths, Frames!Poll(c) \/ Frames!PollFails(c) PROVE FrameInv'
  <1> USE DEF FrameInv, Frames!Poll, Frames!PollFails, Frames!Running
  <1>1. FrameTypes'
    BY DEF FrameTypes, Frames!TypeOK
  <1>2. CallsNested' /\ BuffersLent' /\ \A d \in Depths : d # c => pc'[d] = pc[d]
    BY InvMoves DEF CallsNested
  <1>3. CacheFresh'
    BY DEF CacheFresh
  <1>4. pc'[c] = "looking" /\ exposes /\ c \notin failed' => cached = commands
    BY DEF CacheFresh, FrameTypes, Frames!TypeOK
  <1>5. LookedUp'
    BY <1>2, <1>4 DEF LookedUp, CallsNested, Frames!SentAsLive, Frames!MissingIsMissing,
                      FrameTypes, Frames!TypeOK, Schemas, Rows
  <1> QED BY <1>1, <1>2, <1>3, <1>5

LEMMA InvResync ==
  ASSUME FrameInv, NEW c \in Depths, Frames!Resync(c) PROVE FrameInv'
  <1> USE DEF FrameInv, Frames!Resync, Frames!Running
  <1>1. FrameTypes'
    BY DEF FrameTypes, Frames!TypeOK, Frames!ReadSchema, Rows
  <1>2. CallsNested' /\ BuffersLent' /\ \A d \in Depths : d # c => pc'[d] = pc[d]
    BY InvMoves DEF CallsNested
  <1>3. \/ Frames!ReadSchema /\ UNCHANGED failed
        \/ failed' = failed \cup {c} /\ UNCHANGED <<cached, cachedGeneration, current>>
    OBVIOUS
  <1>4. \A d \in Depths : d # c => pc[d] \in {"idle", "encoding", "native"}
    BY DEF CallsNested, FrameTypes, Frames!TypeOK, Frames!Depths
  <1>5. CacheFresh'
    BY <1>3, InvRead DEF CacheFresh
  <1>6. pc'[c] = "looking"
    BY DEF FrameTypes, Frames!TypeOK
  <1>7. LookedUp'
    BY <1>2, <1>3, <1>4, <1>6, InvRead
       DEF LookedUp, CallsNested, Frames!SentAsLive, Frames!MissingIsMissing
  <1> QED BY <1>1, <1>2, <1>5, <1>7

LEMMA InvLookupAgain ==
  ASSUME FrameInv, NEW c \in Depths, Frames!LookupAgain(c) PROVE FrameInv'
  <1> USE DEF FrameInv, Frames!LookupAgain, Frames!GivesUp, Frames!Running
  <1>1. FrameTypes'
    <2>1. CASE Frames!ReadSchema /\ UNCHANGED failed
      BY <2>1 DEF FrameTypes, Frames!TypeOK, Frames!ReadSchema, Frames!Paths, Rows
    <2>2. CASE failed' = failed \cup {c} /\ UNCHANGED <<cached, cachedGeneration, current>>
      BY <2>2 DEF FrameTypes, Frames!TypeOK, Frames!Paths, Rows
    <2> QED BY <2>1, <2>2
  <1>2. CallsNested' /\ BuffersLent' /\ \A d \in Depths : d # c => pc'[d] = pc[d]
    BY InvMoves DEF CallsNested
  <1>3. \/ Frames!ReadSchema /\ UNCHANGED failed
        \/ failed' = failed \cup {c} /\ UNCHANGED <<cached, cachedGeneration, current>>
    OBVIOUS
  <1>4. \A d \in Depths : d # c => pc[d] \in {"idle", "encoding", "native"}
    BY DEF CallsNested, FrameTypes, Frames!TypeOK, Frames!Depths
  <1>5. CacheFresh'
    BY <1>3, InvRead DEF CacheFresh
  <1>6. \/ pc'[c] = "found" /\ Frames!ReadSchema /\ commands[target[c]] # None
        \/ pc'[c] = "polling"
        \/ pc'[c] = "unknown" /\ (c \in failed' \/ commands[target[c]] = None)
    BY DEF FrameTypes, Frames!TypeOK
  <1>7. LookedUp'
    BY <1>2, <1>3, <1>4, <1>6, InvRead
       DEF LookedUp, CallsNested, Frames!SentAsLive, Frames!MissingIsMissing
  <1> QED BY <1>1, <1>2, <1>5, <1>7

\* Lookup and Found: the codec is the one of the entry.
LEMMA InvCompile ==
  ASSUME FrameInv, NEW c \in Depths, Frames!Lookup(c) \/ Frames!Found(c) PROVE FrameInv'
  <1> DEFINE row == cached[target[c]]
             known == IF current[path[c]] THEN codecs[path[c]] ELSE [n \in Dynamics |-> None]
  <1> USE DEF FrameInv, Frames!Lookup, Frames!Found, Frames!Running
  <1>1. /\ Frames!Compile(c, row) /\ c = depth /\ pc[c] \in {"looking", "found"}
        /\ pc' = [pc EXCEPT ![c] = "encoding"]
        /\ UNCHANGED <<exposes, commands, generation, cached, cachedGeneration, buffer, busy, lent,
                       depth, target, path, failed, seen>>
    OBVIOUS
  <1>2. target[c] \in Dynamics /\ path[c] \in Frames!Paths
    BY <1>1 DEF CallsNested, FrameTypes
  <1>3. cached \in Schemas /\ row \in Rows /\ row # None
    <2>1. CASE Frames!Lookup(c)
      BY <1>2, <2>1 DEF Frames!Hit, FrameTypes, Frames!TypeOK, Schemas, Rows
    <2>2. CASE Frames!Found(c)
      BY <1>2, <2>2 DEF LookedUp, Schemas
    <2> QED BY <2>1, <2>2
  <1>4. known \in [Dynamics -> Wires \cup {None}]
    BY <1>2 DEF FrameTypes, Frames!TypeOK
  <1>5. (IF known[target[c]] # None THEN known[target[c]] ELSE row.wire) = row.wire
    BY <1>2 DEF CacheFresh
  <1>6. /\ codecs' = [codecs EXCEPT ![path[c]] = [known EXCEPT ![target[c]] = row.wire]]
        /\ current' = [current EXCEPT ![path[c]] = TRUE]
        /\ entry' = [entry EXCEPT ![c] = row] /\ codec' = [codec EXCEPT ![c] = row.wire]
    BY <1>1, <1>5 DEF Frames!Compile
  <1>7. row.wire \in Wires /\ row = [id |-> row.id, wire |-> row.wire]
    BY <1>3, RowIsItsFields
  <1> HIDE DEF row, known
  <1>8. FrameTypes'
    BY <1>1, <1>2, <1>3, <1>4, <1>6, <1>7 DEF FrameTypes, Frames!TypeOK, Rows
  <1>9. CallsNested' /\ BuffersLent' /\ \A d \in Depths : d # c => pc'[d] = pc[d]
    BY <1>1, InvMoves
  <1>10. CacheFresh'
    <2>1. ASSUME NEW p \in Frames!Paths, NEW n \in Dynamics, current'[p], codecs'[p][n] # None
          PROVE  codecs'[p][n] = cached[n].wire
      <3>1. CASE p # path[c]
        BY <1>1, <1>2, <1>6, <2>1, <3>1 DEF CacheFresh, FrameTypes, Frames!TypeOK
      <3>2. CASE p = path[c] /\ n = target[c]
        BY <1>1, <1>2, <1>4, <1>6, <2>1, <3>2 DEF FrameTypes, Frames!TypeOK, row
      <3>3. CASE p = path[c] /\ n # target[c]
        <4>1. codecs'[p][n] = known[n]
          BY <1>1, <1>2, <1>4, <1>6, <2>1, <3>3 DEF FrameTypes, Frames!TypeOK
        <4> QED BY <1>1, <2>1, <3>3, <4>1 DEF CacheFresh, known
      <3> QED BY <3>1, <3>2, <3>3
    <2> QED BY <1>1, <1>3, <2>1 DEF CacheFresh
  <1>11. exposes /\ c \notin failed => row \in seen[c]
    BY <1>1 DEF LookedUp, row
  <1>12. pc'[c] = "encoding" /\ entry'[c] = row /\ codec'[c] = row.wire
    BY <1>1, <1>6 DEF FrameTypes, Frames!TypeOK
  <1>13. \A d \in Depths : d # c => entry'[d] = entry[d] /\ codec'[d] = codec[d]
    BY <1>1, <1>6 DEF FrameTypes, Frames!TypeOK
  <1>14. LookedUp'
    BY <1>1, <1>7, <1>9, <1>11, <1>12, <1>13
       DEF LookedUp, Frames!SentAsLive, Frames!MissingIsMissing
  <1> QED BY <1>8, <1>9, <1>10, <1>14

LEMMA InvSend ==
  ASSUME FrameInv, NEW c \in Depths, Frames!Send(c) PROVE FrameInv'
  <1> USE DEF FrameInv, Frames!Send, Frames!Running
  <1>1. FrameTypes'
    BY DEF FrameTypes, Frames!TypeOK
  <1>2. CallsNested' /\ BuffersLent' /\ \A d \in Depths : d # c => pc'[d] = pc[d]
    BY InvMoves
  <1>3. CacheFresh'
    BY DEF CacheFresh
  <1>4. LookedUp'
    BY <1>2 DEF LookedUp, Frames!SentAsLive, Frames!MissingIsMissing, FrameTypes, Frames!TypeOK
  <1> QED BY <1>1, <1>2, <1>3, <1>4

\* What is returned was lent to this call and to no other.
LEMMA InvEnd ==
  ASSUME FrameInv, NEW c \in Depths, Frames!End(c) PROVE FrameInv'
  <1> USE DEF FrameInv, Frames!End, Frames!Running
  <1>1. FrameTypes'
    BY FrameAssumption DEF FrameTypes, Frames!TypeOK, Frames!Depths, Frames!Paths, Rows
  <1>2. CallsNested'
    BY DEF FrameTypes, Frames!TypeOK, Frames!Depths, CallsNested
  <1>3. \A d \in lent : d # c => target'[d] = target[d]
    BY DEF FrameTypes, Frames!TypeOK
  <1>4. \A d \in lent : d # c /\ c \in lent => target[d] # target[c]
    BY DEF BuffersLent, Frames!FramesIntact
  <1>5. \A d \in lent' : target'[d] \in busy' /\ target'[d] \in Statics /\ buffer'[target'[d]] = d
    BY <1>3, <1>4 DEF BuffersLent, Frames!FramesIntact
  <1>6. ASSUME NEW s \in busy' PROVE \E d \in lent' : s = target'[d]
    <2>1. PICK d \in lent : s = target[d]
      BY <1>6 DEF BuffersLent, Frames!FramesIntact
    <2> QED BY <1>3, <1>6, <2>1
  <1>7. BuffersLent'
    BY <1>5, <1>6 DEF BuffersLent, Frames!FramesIntact
  <1>8. CacheFresh'
    BY DEF CacheFresh
  <1>9. LookedUp'
    BY DEF FrameTypes, Frames!TypeOK, LookedUp, Frames!SentAsLive, Frames!MissingIsMissing
  <1> QED BY <1>1, <1>2, <1>7, <1>8, <1>9

LEMMA FrameNext == FrameInv /\ Frames!Next => FrameInv'
  <1> SUFFICES ASSUME FrameInv, Frames!Next PROVE FrameInv'
    OBVIOUS
  <1>1. ASSUME NEW n \in Dynamics, NEW w \in Wires, Frames!Register(n, w) PROVE FrameInv'
    <2> DEFINE row == [id |-> IF commands[n] = None THEN generation + 1 ELSE commands[n].id,
                       wire |-> w]
    <2>1. row \in Rows /\ Frames!Change(n, row)
      BY <1>1, FrameAssumption
         DEF Rows, FrameInv, FrameTypes, Frames!TypeOK, Frames!Register, Frames!Change
    <2> QED BY <2>1, InvChange
  <1>2. ASSUME NEW n \in Dynamics, Frames!Unregister(n) PROVE FrameInv'
    BY <1>2, InvChange DEF Frames!Unregister, Rows
  <1>3. CASE Frames!Refresh
    BY <1>3, InvRefresh
  <1>4. ASSUME NEW c \in Depths, NEW s \in Statics, Frames!InvokeStatic(c, s) PROVE FrameInv'
    BY <1>4, InvInvokeStatic
  <1>5. ASSUME NEW c \in Depths, NEW n \in Dynamics, NEW p \in Frames!Paths,
               Frames!InvokeDynamic(c, n, p)
        PROVE  FrameInv'
    BY <1>5, InvInvokeDynamic
  <1>6. ASSUME NEW c \in Depths,
               \/ Frames!Poll(c) \/ Frames!PollFails(c) \/ Frames!Resync(c) \/ Frames!Lookup(c)
               \/ Frames!LookupAgain(c) \/ Frames!Found(c) \/ Frames!Send(c) \/ Frames!End(c)
        PROVE  FrameInv'
    BY <1>6, InvPoll, InvResync, InvCompile, InvLookupAgain, InvSend, InvEnd
  <1> QED BY <1>1, <1>2, <1>3, <1>4, <1>5, <1>6 DEF Frames!Next

LEMMA FrameKept == FrameInv /\ UNCHANGED frameVars => FrameInv'
  BY DEF frameVars, FrameInv, FrameTypes, Frames!TypeOK, CallsNested, BuffersLent, CacheFresh,
         LookedUp, Frames!FramesIntact, Frames!SentAsLive, Frames!MissingIsMissing

\* Whatever calls are made from within a call and whatever other threads register, a
\* frame stays in its buffer until its call returns, it goes out under an id and a
\* contract its command has had since the call began, and a command is reported missing
\* only if it was (frame-engine-dispatch.ts, frame-engine-schema.ts).
THEOREM FramesAreSound == ClientSpec => []FramesSound
  <1>1. ClientInit => FrameInv
    BY FrameInit DEF ClientInit
  <1>2. FrameInv /\ [(AtOptions /\ Next) \/ (AtFrames /\ Frames!Next) \/ (AtHooks /\ Hooks!Next)]_all
          => FrameInv'
    BY FrameNext, FrameKept DEF AtOptions, AtHooks, all
  <1>3. FrameInv => FramesSound
    BY DEF FrameInv, FrameTypes, BuffersLent, LookedUp, FramesSound, Frames!FramesSound
  <1> QED BY <1>1, <1>2, <1>3, PTL DEF ClientSpec

(***************************************************************************)
(* The Suspense cache: every step keeps CacheInv, whose parts are the types, *)
(* the order and the bound of the Map, one record of a key, and the timers. *)
(* Hooks!Cache!Cached is written InMap.                                    *)
(***************************************************************************)
RecordType ==
  [key : Keys, status : {"pending", "fulfilled", "rejected"},
   invocation : {"none", "running", "fulfilled", "rejected"},
   promise : {"pending", "fulfilled", "rejected"}, deadline : BOOLEAN, expiry : BOOLEAN]
InMap == DOMAIN entries
MapOrdered(e) ==
  /\ DOMAIN e \subseteq Records /\ e \in [DOMAIN e -> SUBSET Records]
  /\ \A r \in DOMAIN e : e[r] \subseteq DOMAIN e /\ r \notin e[r]
  /\ \A q, r \in DOMAIN e : q # r => (q \in e[r] <=> r \notin e[q])
  /\ \A q, r \in DOMAIN e : q \in e[r] => e[q] \subseteq e[r]
CacheTypes == MapOrdered(entries) /\ max \in Capacities /\ rec \in [Records -> RecordType]
MapSmall == IsFiniteSet(InMap) /\ Cardinality(InMap) <= max
OneOfKey == \A q, r \in InMap : rec[q].key = rec[r].key => q = r
DeadlineRuns == \A r \in Records : rec[r].deadline => rec[r].invocation = "running"
CacheInv ==
  /\ CacheTypes /\ MapSmall /\ OneOfKey /\ DeadlineRuns
  /\ Hooks!Cache!TimersOwn /\ Hooks!Cache!RealOutcomeLands

LEMMA CacheTypesAre == CacheTypes => Hooks!Cache!TypeOK
  BY DEF CacheTypes, MapOrdered, RecordType, Hooks!Cache!TypeOK, Hooks!Cache!Ordered,
     Hooks!Cache!Cached, Hooks!Cache!Outcomes

LEMMA SameCardinality == \A S : Hooks!Cache!Cardinality(S) = Cardinality(S)
  BY DEF Hooks!Cache!Cardinality, Cardinality

LEMMA SameFinite == \A S : Hooks!Cache!IsFiniteSet(S) <=> IsFiniteSet(S)
  BY DEF Hooks!Cache!IsFiniteSet, IsFiniteSet

LEMMA MapIsBounded == MapSmall /\ OneOfKey => Hooks!Cache!Bounded
  BY SameCardinality, SameFinite DEF MapSmall, OneOfKey, InMap, Hooks!Cache!Bounded, Hooks!Cache!Cached

LEMMA CacheFirst == Hooks!Cache!Init => CacheInv
<1> SUFFICES ASSUME Hooks!Cache!Init PROVE CacheInv
  OBVIOUS
<1>1. InMap = {} /\ entries = [r \in {} |-> {}]
  BY DEF Hooks!Cache!Init, Hooks!Cache!Empty, InMap
<1>2. max \in Capacities /\ max \in Nat
  BY CacheAssumption DEF Hooks!Cache!Init
<1>3. PICK k \in Keys : rec = [r \in Records |-> Hooks!Cache!Idle(k)]
  BY DEF Hooks!Cache!Init
<1>4. Hooks!Cache!Idle(k) \in RecordType /\ Hooks!Cache!Idle(k).deadline = FALSE
      /\ Hooks!Cache!Idle(k).expiry = FALSE
  BY DEF Hooks!Cache!Idle, RecordType
<1>5. rec \in [Records -> RecordType] /\ \A r \in Records : ~rec[r].deadline /\ ~rec[r].expiry
  BY <1>3, <1>4
<1>6. CacheTypes
  BY <1>1, <1>2, <1>5 DEF CacheTypes, MapOrdered
<1>7. MapSmall
  BY <1>1, <1>2, FS_EmptySet DEF MapSmall
<1> QED
  BY <1>1, <1>5, <1>6, <1>7 DEF CacheInv, OneOfKey, DeadlineRuns, Hooks!Cache!TimersOwn,
     Hooks!Cache!RealOutcomeLands, Hooks!Cache!Cached, InMap

(***************************************************************************)
(* The Map without some of its records, and with one at its end.            *)
(***************************************************************************)
LEMMA WithoutOrdered ==
  ASSUME MapOrdered(entries), NEW S
  PROVE  /\ MapOrdered(Hooks!Cache!Without(S))
         /\ DOMAIN Hooks!Cache!Without(S) = InMap \ S
         /\ \A r \in InMap \ S : Hooks!Cache!Without(S)[r] = entries[r] \ S
<1> DEFINE e == [r \in InMap \ S |-> entries[r] \ S]
<1>1. Hooks!Cache!Without(S) = e
  BY DEF Hooks!Cache!Without, Hooks!Cache!Cached, InMap
<1>2. DOMAIN e = InMap \ S /\ \A r \in InMap \ S : e[r] = entries[r] \ S
  OBVIOUS
<1>3. MapOrdered(e)
  <2>1. e \in [DOMAIN e -> SUBSET Records] /\ DOMAIN e \subseteq Records
    BY DEF MapOrdered, InMap
  <2> HIDE DEF e
  <2>2. \A r \in DOMAIN e : e[r] \subseteq DOMAIN e /\ r \notin e[r]
    BY <1>2 DEF MapOrdered, InMap
  <2>3. \A q, r \in DOMAIN e : q # r => (q \in e[r] <=> r \notin e[q])
    BY <1>2 DEF MapOrdered, InMap
  <2>4. \A q, r \in DOMAIN e : q \in e[r] => e[q] \subseteq e[r]
    BY <1>2 DEF MapOrdered, InMap
  <2> QED BY <2>1, <2>2, <2>3, <2>4 DEF MapOrdered
<1> QED BY <1>1, <1>2, <1>3

LEMMA LastOrdered ==
  ASSUME NEW e, MapOrdered(e), NEW r \in Records, r \notin DOMAIN e
  PROVE  /\ MapOrdered(Hooks!Cache!Last(e, r))
         /\ DOMAIN Hooks!Cache!Last(e, r) = DOMAIN e \cup {r}
<1> DEFINE l == [q \in DOMAIN e \cup {r} |-> IF q = r THEN DOMAIN e ELSE e[q]]
<1>1. Hooks!Cache!Last(e, r) = l
  BY DEF Hooks!Cache!Last
<1>2. DOMAIN l = DOMAIN e \cup {r} /\ l[r] = DOMAIN e /\ \A q \in DOMAIN e : l[q] = e[q]
  OBVIOUS
<1>3. MapOrdered(l)
  <2>1. l \in [DOMAIN l -> SUBSET Records] /\ DOMAIN l \subseteq Records
    BY DEF MapOrdered
  <2> HIDE DEF l
  <2>2. \A q \in DOMAIN l : l[q] \subseteq DOMAIN l /\ q \notin l[q]
    BY <1>2 DEF MapOrdered
  <2>3. \A p, q \in DOMAIN l : p # q => (p \in l[q] <=> q \notin l[p])
    BY <1>2 DEF MapOrdered
  <2>4. \A p, q \in DOMAIN l : p \in l[q] => l[p] \subseteq l[q]
    BY <1>2 DEF MapOrdered
  <2> QED BY <2>1, <2>2, <2>3, <2>4 DEF MapOrdered
<1> QED BY <1>1, <1>2, <1>3

(***************************************************************************)
(* What every removal comes to.  Only the record of a removal by key and    *)
(* records that have settled may be removed with others of other commands.  *)
(***************************************************************************)
Leave(S) ==
  /\ MapOrdered(entries)' /\ InMap' = InMap \ S
  /\ rec' = Hooks!Cache!Removed(S)

LEMMA RemovedIs ==
  ASSUME CacheTypes, NEW S, rec' = Hooks!Cache!Removed(S)
  PROVE  /\ rec' \in [Records -> RecordType]
         /\ \A r \in Records \ S : rec'[r] = rec[r]
         /\ \A r \in Records :
              /\ rec'[r].key = rec[r].key /\ rec'[r].status = rec[r].status
              /\ rec'[r].invocation = rec[r].invocation /\ rec'[r].deadline = rec[r].deadline
         /\ \A r \in Records \cap S : rec'[r].expiry = FALSE
<1>1. rec \in [Records -> RecordType]
  BY DEF CacheTypes
<1> DEFINE Off(r) == [rec[r] EXCEPT !.expiry = FALSE]
<1>2. ASSUME NEW r \in Records
      PROVE  /\ Off(r) \in RecordType /\ rec[r] \in RecordType
             /\ Off(r).key = rec[r].key /\ Off(r).status = rec[r].status
             /\ Off(r).invocation = rec[r].invocation /\ Off(r).deadline = rec[r].deadline
             /\ Off(r).expiry = FALSE
  BY <1>1 DEF RecordType
<1>3. rec' = [r \in Records |-> IF r \in S THEN Off(r) ELSE rec[r]]
  BY DEF Hooks!Cache!Removed
<1> HIDE DEF Off
<1> QED BY <1>2, <1>3

LEMMA LeaveKeeps ==
  ASSUME CacheInv, NEW S, Leave(S), max' \in Capacities, max' = max \/ InMap' = {}
  PROVE  CacheInv'
<1>1. CacheTypes /\ \A r \in Capacities : r \in Nat
  BY CacheAssumption DEF CacheInv
<1>2. /\ rec' \in [Records -> RecordType]
      /\ \A r \in Records \ S : rec'[r] = rec[r]
      /\ \A r \in Records :
              /\ rec'[r].key = rec[r].key /\ rec'[r].status = rec[r].status
              /\ rec'[r].invocation = rec[r].invocation /\ rec'[r].deadline = rec[r].deadline
      /\ \A r \in Records \cap S : rec'[r].expiry = FALSE
  BY <1>1, RemovedIs DEF Leave
<1>3. InMap \subseteq Records /\ InMap' = InMap \ S
  BY <1>1 DEF CacheTypes, MapOrdered, InMap, Leave
<1>4. CacheTypes'
  BY <1>2 DEF CacheTypes, Leave
<1>5. MapSmall'
  <2>1. IsFiniteSet(InMap') /\ Cardinality(InMap') <= Cardinality(InMap)
        /\ Cardinality(InMap) \in Nat /\ Cardinality(InMap') \in Nat
    BY <1>3, FS_Subset, FS_CardinalityType DEF CacheInv, MapSmall
  <2>2. InMap' = {} => Cardinality(InMap') = 0
    BY FS_EmptySet
  <2> QED BY <1>1, <2>1, <2>2 DEF CacheInv, MapSmall, CacheTypes
<1>6. OneOfKey'
  BY <1>2, <1>3 DEF CacheInv, OneOfKey
<1>7. DeadlineRuns'
  BY <1>2 DEF CacheInv, DeadlineRuns
<1>8. Hooks!Cache!TimersOwn'
  <2> SUFFICES ASSUME NEW r \in Records
               PROVE  /\ rec'[r].expiry => r \in InMap' /\ rec'[r].status # "pending"
                      /\ r \in InMap' => IF rec'[r].status = "pending" THEN rec'[r].deadline
                                         ELSE rec'[r].expiry
    BY DEF Hooks!Cache!TimersOwn, Hooks!Cache!Cached, Hooks!Cache!Pending, InMap
  <2>1. /\ rec[r].expiry => r \in InMap /\ rec[r].status # "pending"
        /\ r \in InMap => IF rec[r].status = "pending" THEN rec[r].deadline ELSE rec[r].expiry
    BY DEF CacheInv, Hooks!Cache!TimersOwn, Hooks!Cache!Cached, Hooks!Cache!Pending, InMap
  <2>2. CASE r \in S
    BY <1>2, <1>3, <2>2
  <2>3. CASE r \notin S
    BY <1>2, <1>3, <2>1, <2>3
  <2> QED BY <2>2, <2>3
<1>9. Hooks!Cache!RealOutcomeLands'
  BY <1>2, <1>3
  DEF CacheInv, Hooks!Cache!RealOutcomeLands, Hooks!Cache!Cached, InMap, Hooks!Cache!Outcomes
<1> QED BY <1>4, <1>5, <1>6, <1>7, <1>8, <1>9 DEF CacheInv

(* None comes back, and a pending record leaves only with its command. *)
EntriesMove == Hooks!Cache!NeverRepopulates /\ Hooks!Cache!PendingKept

LEMMA LeaveMoves ==
  ASSUME CacheInv, NEW S, Leave(S),
         \A r \in InMap \cap S : rec[r].status = "pending" =>
           \A q \in InMap : CommandOf[rec[q].key] = CommandOf[rec[r].key] => q \in S
  PROVE  EntriesMove
<1>1. InMap' = InMap \ S
  BY DEF Leave
<1>2. Hooks!Cache!NeverRepopulates
  BY <1>1 DEF Hooks!Cache!NeverRepopulates, Hooks!Cache!Cached, InMap
<1>3. Hooks!Cache!PendingKept
  BY <1>1 DEF Hooks!Cache!PendingKept, Hooks!Cache!Cached, Hooks!Cache!Pending, InMap
<1> QED BY <1>2, <1>3 DEF EntriesMove

LEMMA DueLeaves ==
  ASSUME CacheInv, NEW due, due \subseteq {r \in InMap : rec[r].status # "pending"}, Leave(due),
         max' = max
  PROVE  CacheInv' /\ EntriesMove
<1>1. max' \in Capacities
  BY DEF CacheInv, CacheTypes
<1>2. \A r \in InMap \cap due : rec[r].status = "pending" =>
           \A q \in InMap : CommandOf[rec[q].key] = CommandOf[rec[r].key] => q \in due
  OBVIOUS
<1> QED BY <1>1, <1>2, LeaveKeeps, LeaveMoves

LEMMA RefuseKeeps ==
  ASSUME CacheInv, NEW due, due \subseteq {r \in InMap : rec[r].status # "pending"},
         Hooks!Cache!Refuse(due), max' = max
  PROVE  CacheInv' /\ EntriesMove
<1>1. Leave(due)
  BY WithoutOrdered DEF CacheInv, CacheTypes, Hooks!Cache!Refuse, Leave, InMap
<1> QED BY <1>1, DueLeaves

LEMMA HitKeeps ==
  ASSUME CacheInv, NEW due, due \subseteq {r \in InMap : rec[r].status # "pending"}, NEW k,
         Hooks!Cache!Hit(k, due), max' = max
  PROVE  CacheInv' /\ EntriesMove
<1>1. PICK r \in InMap \ due :
        /\ entries' = Hooks!Cache!Last(Hooks!Cache!Without(due \cup {r}), r)
        /\ rec' = Hooks!Cache!Removed(due)
  BY DEF Hooks!Cache!Hit, Hooks!Cache!Cached, InMap
<1>2. r \in Records
  BY DEF CacheInv, CacheTypes, MapOrdered, InMap
<1> DEFINE e == Hooks!Cache!Without(due \cup {r})
<1>3. MapOrdered(e) /\ DOMAIN e = InMap \ (due \cup {r})
  BY WithoutOrdered DEF CacheInv, CacheTypes
<1>4. entries' = Hooks!Cache!Last(e, r) /\ r \notin DOMAIN e
  BY <1>1, <1>3
<1> HIDE DEF e
<1>5. MapOrdered(Hooks!Cache!Last(e, r)) /\ DOMAIN Hooks!Cache!Last(e, r) = DOMAIN e \cup {r}
  BY <1>2, <1>3, <1>4, LastOrdered
<1>6. Leave(due)
  <2>1. InMap' = InMap \ due
    BY <1>3, <1>4, <1>5 DEF InMap
  <2>2. MapOrdered(entries')
    BY <1>4, <1>5
  <2> QED BY <1>1, <2>1, <2>2 DEF Leave
<1> QED BY <1>6, DueLeaves

(***************************************************************************)
(* A new record, for which one that has settled may make room.              *)
(***************************************************************************)
LEMMA RoomMade ==
  ASSUME CacheInv, NEW due, NEW out \in Hooks!Cache!Victims(Hooks!Cache!Without(due)),
         max \in Nat \ {0}
  PROVE  /\ out \subseteq {r \in InMap \ due : rec[r].status # "pending"}
         /\ IsFiniteSet(InMap \ (due \cup out))
         /\ Cardinality(InMap \ (due \cup out)) + 1 <= max
<1> DEFINE e == Hooks!Cache!Without(due)
<1>1. DOMAIN e = InMap \ due
  BY WithoutOrdered DEF CacheInv, CacheTypes
<1>2. out \in IF Hooks!Cache!Cardinality(DOMAIN e) < max THEN {{}}
              ELSE {{r} : r \in {r \in DOMAIN e : ~Hooks!Cache!Pending(r)
                                   /\ \A q \in e[r] : Hooks!Cache!Pending(q)}}
  BY DEF Hooks!Cache!Victims
<1> HIDE DEF e
<1>3. IsFiniteSet(InMap) /\ Cardinality(InMap) <= max /\ Cardinality(InMap) \in Nat
  BY FS_CardinalityType DEF CacheInv, MapSmall
<1>4. IsFiniteSet(DOMAIN e) /\ Cardinality(DOMAIN e) <= Cardinality(InMap)
      /\ Cardinality(DOMAIN e) \in Nat
  BY <1>1, <1>3, FS_Subset, FS_CardinalityType
<1>5. CASE Cardinality(DOMAIN e) < max
  <2>1. out = {}
    BY <1>2, <1>5, SameCardinality
  <2>2. InMap \ (due \cup out) = DOMAIN e
    BY <1>1, <2>1
  <2> QED BY <1>3, <1>4, <1>5, <2>1, <2>2
<1>6. CASE ~(Cardinality(DOMAIN e) < max)
  <2>1. PICK r \in DOMAIN e : ~Hooks!Cache!Pending(r) /\ out = {r}
    BY <1>2, <1>6, SameCardinality
  <2>2. InMap \ (due \cup out) = (DOMAIN e) \ {r}
    BY <1>1, <2>1
  <2>3. IsFiniteSet((DOMAIN e) \ {r}) /\ Cardinality((DOMAIN e) \ {r}) = Cardinality(DOMAIN e) - 1
    BY <1>4, <2>1, FS_RemoveElement
  <2>4. Cardinality((DOMAIN e) \ {r}) + 1 <= max
    BY <1>3, <1>4, <2>3
  <2>5. out \subseteq {q \in InMap \ due : rec[q].status # "pending"}
    BY <1>1, <2>1 DEF Hooks!Cache!Pending
  <2> QED BY <2>2, <2>3, <2>4, <2>5
<1> QED BY <1>5, <1>6

Enter(S, new, k) ==
  /\ entries' = Hooks!Cache!Last(Hooks!Cache!Without(S), new)
  /\ rec' = [Hooks!Cache!Removed(S) EXCEPT ![new] = Hooks!Cache!Started(k)]

Entered(S, new, k) ==
  /\ MapOrdered(entries') /\ InMap' = (InMap \ S) \cup {new}
  /\ rec' \in [Records -> RecordType]
  /\ rec'[new].key = k /\ rec'[new].status = "pending"
  /\ rec'[new].invocation = "running" /\ rec'[new].deadline = TRUE /\ rec'[new].expiry = FALSE
  /\ \A r \in Records \ (S \cup {new}) : rec'[r] = rec[r]
  /\ \A r \in Records \ {new} :
       /\ rec'[r].key = rec[r].key /\ rec'[r].status = rec[r].status
       /\ rec'[r].invocation = rec[r].invocation /\ rec'[r].deadline = rec[r].deadline
  /\ \A r \in (Records \ {new}) \cap S : rec'[r].expiry = FALSE

LEMMA EnterIs ==
  ASSUME CacheInv, NEW k \in Keys, NEW S, NEW new \in Records, new \notin InMap, Enter(S, new, k)
  PROVE  Entered(S, new, k)
<1> DEFINE e == Hooks!Cache!Without(S)
           Off(r) == [rec[r] EXCEPT !.expiry = FALSE]
           start == Hooks!Cache!Started(k)
<1>1. MapOrdered(e) /\ DOMAIN e = InMap \ S
  BY WithoutOrdered DEF CacheInv, CacheTypes
<1>2. entries' = Hooks!Cache!Last(e, new) /\ new \notin DOMAIN e
  BY <1>1 DEF Enter
<1>3. rec \in [Records -> RecordType]
  BY DEF CacheInv, CacheTypes
<1>4. ASSUME NEW r \in Records
      PROVE  /\ Off(r) \in RecordType /\ rec[r] \in RecordType
             /\ Off(r).key = rec[r].key /\ Off(r).status = rec[r].status
             /\ Off(r).invocation = rec[r].invocation /\ Off(r).deadline = rec[r].deadline
             /\ Off(r).expiry = FALSE
  BY <1>3 DEF RecordType
<1>5. rec' = [r \in Records |-> IF r = new THEN start ELSE IF r \in S THEN Off(r) ELSE rec[r]]
  <2> DEFINE R == [r \in Records |-> IF r \in S THEN Off(r) ELSE rec[r]]
  <2>1. Hooks!Cache!Removed(S) = R
    BY DEF Hooks!Cache!Removed
  <2>2. rec' = [R EXCEPT ![new] = Hooks!Cache!Started(k)]
    <3> HIDE DEF R
    <3>1. rec' = [Hooks!Cache!Removed(S) EXCEPT ![new] = Hooks!Cache!Started(k)]
      BY Zenon DEF Enter
    <3> QED BY <2>1, <3>1, Zenon
  <2> HIDE DEF Off, start
  <2> QED BY <2>2 DEF start
<1>6. start \in RecordType /\ start.key = k /\ start.status = "pending"
      /\ start.invocation = "running" /\ start.deadline = TRUE /\ start.expiry = FALSE
  <2>1. Hooks!Cache!Idle(k) \in RecordType /\ Hooks!Cache!Idle(k).key = k
        /\ Hooks!Cache!Idle(k).status = "pending" /\ Hooks!Cache!Idle(k).expiry = FALSE
    BY DEF RecordType, Hooks!Cache!Idle
  <2> QED BY <2>1 DEF RecordType, Hooks!Cache!Started
<1> HIDE DEF e, Off, start
<1>7. MapOrdered(Hooks!Cache!Last(e, new))
      /\ DOMAIN Hooks!Cache!Last(e, new) = DOMAIN e \cup {new}
  BY <1>1, <1>2, LastOrdered
<1>8. MapOrdered(entries') /\ InMap' = (InMap \ S) \cup {new}
  BY <1>1, <1>2, <1>7 DEF InMap
<1>9. rec' \in [Records -> RecordType] /\ rec'[new] = start
      /\ \A r \in Records \ {new} : rec'[r] = IF r \in S THEN Off(r) ELSE rec[r]
  BY <1>4, <1>5, <1>6
<1> QED BY <1>4, <1>6, <1>8, <1>9 DEF Entered

LEMMA EnterKeeps ==
  ASSUME CacheInv, NEW k \in Keys, NEW S,
         S \subseteq {r \in InMap : rec[r].status # "pending"},
         \A r \in InMap \ S : rec[r].key # k,
         IsFiniteSet(InMap \ S), Cardinality(InMap \ S) + 1 <= max,
         NEW new \in Records, new \notin InMap, rec[new].invocation # "running",
         Enter(S, new, k), max' = max
  PROVE  CacheInv' /\ EntriesMove
<1>1. Entered(S, new, k)
  BY EnterIs
<1>2. /\ MapOrdered(entries') /\ InMap' = (InMap \ S) \cup {new}
      /\ rec' \in [Records -> RecordType]
      /\ rec'[new].key = k /\ rec'[new].status = "pending" /\ rec'[new].invocation = "running"
      /\ rec'[new].deadline = TRUE /\ rec'[new].expiry = FALSE
      /\ \A r \in Records \ (S \cup {new}) : rec'[r] = rec[r]
      /\ \A r \in Records \ {new} :
           /\ rec'[r].key = rec[r].key /\ rec'[r].status = rec[r].status
           /\ rec'[r].invocation = rec[r].invocation /\ rec'[r].deadline = rec[r].deadline
      /\ \A r \in (Records \ {new}) \cap S : rec'[r].expiry = FALSE
  BY <1>1 DEF Entered
<1>3. InMap \subseteq Records /\ max \in Capacities
  BY DEF CacheInv, CacheTypes, MapOrdered, InMap
<1>4. CacheTypes'
  BY <1>2, <1>3 DEF CacheTypes
<1>5. MapSmall'
  <2>1. new \notin InMap \ S
    OBVIOUS
  <2>2. IsFiniteSet(InMap') /\ Cardinality(InMap') = Cardinality(InMap \ S) + 1
    BY <1>2, <2>1, FS_AddElement
  <2> QED BY <2>2 DEF MapSmall
<1>6. OneOfKey'
  BY <1>2, <1>3 DEF CacheInv, OneOfKey
<1>7. DeadlineRuns'
  <2> SUFFICES ASSUME NEW r \in Records, rec'[r].deadline PROVE rec'[r].invocation = "running"
    BY DEF DeadlineRuns
  <2>1. CASE r = new
    BY <1>2, <2>1
  <2>2. CASE r # new
    BY <1>2, <2>2 DEF CacheInv, DeadlineRuns
  <2> QED BY <2>1, <2>2
<1>8. Hooks!Cache!TimersOwn'
  <2> SUFFICES ASSUME NEW r \in Records
               PROVE  /\ rec'[r].expiry => r \in InMap' /\ rec'[r].status # "pending"
                      /\ r \in InMap' => IF rec'[r].status = "pending" THEN rec'[r].deadline
                                         ELSE rec'[r].expiry
    BY DEF Hooks!Cache!TimersOwn, Hooks!Cache!Cached, Hooks!Cache!Pending, InMap
  <2>1. /\ rec[r].expiry => r \in InMap /\ rec[r].status # "pending"
        /\ r \in InMap => IF rec[r].status = "pending" THEN rec[r].deadline ELSE rec[r].expiry
    BY DEF CacheInv, Hooks!Cache!TimersOwn, Hooks!Cache!Cached, Hooks!Cache!Pending, InMap
  <2>2. CASE r = new
    BY <1>2, <2>2
  <2>3. CASE r # new /\ r \in S
    BY <1>2, <2>3
  <2>4. CASE r # new /\ r \notin S
    BY <1>2, <2>1, <2>4
  <2> QED BY <2>2, <2>3, <2>4
<1>9. Hooks!Cache!RealOutcomeLands'
  <2> SUFFICES ASSUME NEW r \in InMap', rec'[r].invocation \in {"fulfilled", "rejected"}
               PROVE  rec'[r].status = rec'[r].invocation
    BY DEF Hooks!Cache!RealOutcomeLands, Hooks!Cache!Cached, InMap, Hooks!Cache!Outcomes
  <2>1. r # new /\ r \in InMap
    BY <1>2
  <2> QED BY <1>2, <1>3, <2>1
      DEF CacheInv, Hooks!Cache!RealOutcomeLands, Hooks!Cache!Cached, InMap, Hooks!Cache!Outcomes
<1>10. EntriesMove
  <2>1. Hooks!Cache!NeverRepopulates
    BY <1>2 DEF Hooks!Cache!NeverRepopulates, Hooks!Cache!Cached, InMap
  <2>2. Hooks!Cache!PendingKept
    BY <1>2 DEF Hooks!Cache!PendingKept, Hooks!Cache!Cached, Hooks!Cache!Pending, InMap
  <2> QED BY <2>1, <2>2 DEF EntriesMove
<1> QED BY <1>4, <1>5, <1>6, <1>7, <1>8, <1>9, <1>10 DEF CacheInv

LEMMA InsertKeeps ==
  ASSUME CacheInv, NEW k \in Keys, NEW due, due \subseteq {r \in InMap : rec[r].status # "pending"},
         \A r \in InMap \ due : rec[r].key # k,
         Hooks!Cache!Insert(k, due), max' = max
  PROVE  CacheInv' /\ EntriesMove
<1> DEFINE new == CHOOSE r \in Records : Hooks!Cache!Dead(r)
<1>1. PICK out \in Hooks!Cache!Victims(Hooks!Cache!Without(due)) :
        /\ \E r \in Records : Hooks!Cache!Dead(r)
        /\ entries' = Hooks!Cache!Last(Hooks!Cache!Without(due \cup out), new)
        /\ rec' = [Hooks!Cache!Removed(due \cup out) EXCEPT ![new] = Hooks!Cache!Started(k)]
  BY DEF Hooks!Cache!Insert
<1>2. new \in Records /\ Hooks!Cache!Dead(new)
  BY <1>1
<1> HIDE DEF new
<1>3. new \notin InMap /\ rec[new].invocation # "running"
  BY <1>2 DEF Hooks!Cache!Dead, Hooks!Cache!Cached, InMap
<1>4. max \in Nat \ {0}
  BY CacheAssumption DEF CacheInv, CacheTypes
<1>5. /\ out \subseteq {r \in InMap \ due : rec[r].status # "pending"}
      /\ IsFiniteSet(InMap \ (due \cup out))
      /\ Cardinality(InMap \ (due \cup out)) + 1 <= max
  BY <1>4, RoomMade
<1> DEFINE S == due \cup out
<1>6. /\ S \subseteq {r \in InMap : rec[r].status # "pending"}
      /\ \A r \in InMap \ S : rec[r].key # k
      /\ IsFiniteSet(InMap \ S) /\ Cardinality(InMap \ S) + 1 <= max
  BY <1>5
<1>7. Enter(S, new, k)
  BY <1>1 DEF Enter
<1> HIDE DEF S
<1> QED BY <1>2, <1>3, <1>6, <1>7, EnterKeeps

LEMMA ResolveKeeps ==
  ASSUME CacheInv, NEW k \in Keys, NEW due \in SUBSET Records, Hooks!Cache!Resolve(k, due)
  PROVE  CacheInv' /\ EntriesMove
<1>1. due \subseteq {r \in InMap : rec[r].status # "pending"} /\ max' = max
  BY DEF Hooks!Cache!Resolve, Hooks!Cache!Cached, Hooks!Cache!Pending, InMap
<1>2. \/ Hooks!Cache!Hit(k, due) \/ Hooks!Cache!Refuse(due)
      \/ ((\A r \in InMap \ due : rec[r].key # k) /\ Hooks!Cache!Insert(k, due))
  BY DEF Hooks!Cache!Resolve, Hooks!Cache!Cached, InMap
<1> QED BY <1>1, <1>2, HitKeeps, RefuseKeeps, InsertKeeps

(***************************************************************************)
(* What has been started settles, and what has settled expires.             *)
(***************************************************************************)
SettlesInMap(r) ==
  /\ entries' = entries /\ max' = max
  /\ rec' \in [Records -> RecordType]
  /\ \A q \in Records : q # r => rec'[q] = rec[q]
  /\ rec'[r].key = rec[r].key /\ rec'[r].deadline = FALSE
  /\ rec'[r].status # "pending"
  /\ rec'[r].expiry = (rec[r].expiry \/ r \in InMap)
  /\ rec'[r].invocation \in {"fulfilled", "rejected"} => rec'[r].status = rec'[r].invocation

LEMMA SettleKeeps ==
  ASSUME CacheInv, NEW r \in Records, SettlesInMap(r)
  PROVE  CacheInv' /\ EntriesMove
<1>1. InMap' = InMap /\ InMap \subseteq Records /\ rec \in [Records -> RecordType]
  BY DEF InMap, SettlesInMap, CacheInv, CacheTypes, MapOrdered
<1>2. CacheTypes' /\ MapSmall'
  BY <1>1 DEF CacheInv, CacheTypes, MapSmall, SettlesInMap
<1>3. OneOfKey'
  BY <1>1 DEF CacheInv, OneOfKey, SettlesInMap
<1>4. DeadlineRuns'
  BY DEF CacheInv, DeadlineRuns, SettlesInMap
<1>5. Hooks!Cache!TimersOwn'
  <2> SUFFICES ASSUME NEW q \in Records
               PROVE  /\ rec'[q].expiry => q \in InMap' /\ rec'[q].status # "pending"
                      /\ q \in InMap' => IF rec'[q].status = "pending" THEN rec'[q].deadline
                                         ELSE rec'[q].expiry
    BY DEF Hooks!Cache!TimersOwn, Hooks!Cache!Cached, Hooks!Cache!Pending, InMap
  <2>1. /\ rec[q].expiry => q \in InMap /\ rec[q].status # "pending"
        /\ q \in InMap => IF rec[q].status = "pending" THEN rec[q].deadline ELSE rec[q].expiry
    BY DEF CacheInv, Hooks!Cache!TimersOwn, Hooks!Cache!Cached, Hooks!Cache!Pending, InMap
  <2>2. CASE q = r
    BY <1>1, <2>1, <2>2 DEF SettlesInMap
  <2>3. CASE q # r
    BY <1>1, <2>1, <2>3 DEF SettlesInMap
  <2> QED BY <2>2, <2>3
<1>6. Hooks!Cache!RealOutcomeLands'
  <2> SUFFICES ASSUME NEW q \in InMap, rec'[q].invocation \in {"fulfilled", "rejected"}
               PROVE  rec'[q].status = rec'[q].invocation
    BY <1>1 DEF Hooks!Cache!RealOutcomeLands, Hooks!Cache!Cached, InMap, Hooks!Cache!Outcomes
  <2>1. CASE q = r
    BY <2>1 DEF SettlesInMap
  <2>2. CASE q # r
    BY <1>1, <2>2
    DEF SettlesInMap, CacheInv, Hooks!Cache!RealOutcomeLands, Hooks!Cache!Cached, InMap, Hooks!Cache!Outcomes
  <2> QED BY <2>1, <2>2
<1>7. EntriesMove
  BY <1>1 DEF EntriesMove, Hooks!Cache!NeverRepopulates, Hooks!Cache!PendingKept,
     Hooks!Cache!Cached, InMap
<1> QED BY <1>2, <1>3, <1>4, <1>5, <1>6, <1>7 DEF CacheInv

LEMMA AnswerKeeps ==
  ASSUME CacheInv, NEW r \in Records, NEW how \in Hooks!Cache!Outcomes, Hooks!Cache!Answer(r, how)
  PROVE  CacheInv' /\ EntriesMove
<1>1. rec \in [Records -> RecordType] /\ rec[r] \in RecordType
  BY DEF CacheInv, CacheTypes
<1>2. how \in {"fulfilled", "rejected"} /\ UNCHANGED <<entries, max>>
  BY DEF Hooks!Cache!Outcomes, Hooks!Cache!Answer
<1> DEFINE fields == [rec[r] EXCEPT !.invocation = how, !.status = how,
                                    !.promise = Hooks!Cache!First(r, how)]
           new == Hooks!Cache!Settled(r, fields)
<1>3. /\ fields \in RecordType /\ fields.key = rec[r].key /\ fields.status = how
      /\ fields.invocation = how /\ fields.expiry = rec[r].expiry
  <2>1. Hooks!Cache!First(r, how) \in {"pending", "fulfilled", "rejected"}
    BY <1>1, <1>2 DEF Hooks!Cache!First, RecordType
  <2> QED BY <1>1, <1>2, <2>1 DEF RecordType
<1>4. rec' = [rec EXCEPT ![r] = Hooks!Cache!Settled(r, fields)]
  BY <1>1 DEF Hooks!Cache!Answer
<1>5. rec' = [rec EXCEPT ![r] = new]
  BY <1>4
<1>6. new \in RecordType /\ new.key = rec[r].key /\ new.deadline = FALSE /\ new.status = how
      /\ new.invocation = how /\ new.expiry = (rec[r].expiry \/ r \in InMap)
  <2> HIDE DEF fields
  <2> QED BY <1>1, <1>2, <1>3 DEF Hooks!Cache!Settled, Hooks!Cache!Cached, InMap, RecordType
<1> HIDE DEF new
<1>7. SettlesInMap(r)
  BY <1>1, <1>2, <1>5, <1>6 DEF SettlesInMap
<1> QED BY <1>7, SettleKeeps

LEMMA DeadlineKeeps ==
  ASSUME CacheInv, NEW r \in Records, Hooks!Cache!Deadline(r)
  PROVE  CacheInv' /\ EntriesMove
<1>1. rec \in [Records -> RecordType] /\ rec[r] \in RecordType
  BY DEF CacheInv, CacheTypes
<1>2. rec[r].invocation = "running" /\ UNCHANGED <<entries, max>>
  BY DEF Hooks!Cache!Deadline, CacheInv, DeadlineRuns
<1> DEFINE fields == [rec[r] EXCEPT !.status = "rejected",
                                    !.promise = Hooks!Cache!First(r, "rejected")]
           new == Hooks!Cache!Settled(r, fields)
<1>3. /\ fields \in RecordType /\ fields.key = rec[r].key /\ fields.status = "rejected"
      /\ fields.invocation = "running" /\ fields.expiry = rec[r].expiry
  <2>1. Hooks!Cache!First(r, "rejected") \in {"pending", "fulfilled", "rejected"}
    BY <1>1, <1>2 DEF Hooks!Cache!First, RecordType
  <2> QED BY <1>1, <1>2, <2>1 DEF RecordType
<1>4. rec' = [rec EXCEPT ![r] = Hooks!Cache!Settled(r, fields)]
  BY <1>1 DEF Hooks!Cache!Deadline
<1>5. rec' = [rec EXCEPT ![r] = new]
  BY <1>4
<1>6. new \in RecordType /\ new.key = rec[r].key /\ new.deadline = FALSE /\ new.status = "rejected"
      /\ new.invocation = "running" /\ new.expiry = (rec[r].expiry \/ r \in InMap)
  <2> HIDE DEF fields
  <2> QED BY <1>1, <1>2, <1>3 DEF Hooks!Cache!Settled, Hooks!Cache!Cached, InMap, RecordType
<1> HIDE DEF new
<1>7. SettlesInMap(r)
  BY <1>1, <1>2, <1>5, <1>6 DEF SettlesInMap
<1> QED BY <1>7, SettleKeeps

LEMMA ExpireKeeps ==
  ASSUME CacheInv, NEW r \in Records, Hooks!Cache!Expire(r)
  PROVE  CacheInv' /\ EntriesMove
<1> DEFINE gone == {q \in InMap : rec[q].key = rec[r].key}
<1>1. /\ rec[r].expiry /\ max' = max
      /\ entries' = Hooks!Cache!Without(gone)
      /\ rec' = [Hooks!Cache!Removed(gone) EXCEPT ![r].expiry = FALSE]
  BY DEF Hooks!Cache!Expire, Hooks!Cache!Cached, InMap
<1>2. r \in InMap /\ rec[r].status # "pending"
  BY <1>1 DEF CacheInv, Hooks!Cache!TimersOwn, Hooks!Cache!Cached, Hooks!Cache!Pending, InMap
<1>3. gone = {r}
  BY <1>2 DEF CacheInv, OneOfKey
<1>4. r \in gone /\ rec \in [Records -> RecordType]
  BY <1>3 DEF CacheInv, CacheTypes
<1> HIDE DEF gone
<1>5. rec' = Hooks!Cache!Removed(gone)
  <2>1. Hooks!Cache!Removed(gone)[r] = [rec[r] EXCEPT !.expiry = FALSE]
    BY <1>4 DEF Hooks!Cache!Removed
  <2>2. Hooks!Cache!Removed(gone)[r].expiry = FALSE
    BY <1>4, <2>1 DEF RecordType
  <2>3. [Hooks!Cache!Removed(gone)[r] EXCEPT !.expiry = FALSE] = Hooks!Cache!Removed(gone)[r]
    BY <1>4, <2>1 DEF RecordType
  <2>4. \A f : f = [q \in Records |-> f[q]] /\ [f[r] EXCEPT !.expiry = FALSE] = f[r] =>
           [f EXCEPT ![r].expiry = FALSE] = f
    OBVIOUS
  <2>5. Hooks!Cache!Removed(gone) = [q \in Records |-> Hooks!Cache!Removed(gone)[q]]
    BY DEF Hooks!Cache!Removed
  <2> QED BY <1>1, <2>3, <2>4, <2>5
<1>6. gone \subseteq {q \in InMap : rec[q].status # "pending"}
  BY <1>2, <1>3
<1>7. Leave(gone)
  BY <1>1, <1>5, WithoutOrdered DEF CacheInv, CacheTypes, Leave, InMap
<1> QED BY <1>1, <1>6, <1>7, DueLeaves

LEMMA InvalidateKeeps ==
  ASSUME CacheInv, NEW cs, Hooks!Cache!Invalidate(cs)
  PROVE  CacheInv' /\ EntriesMove
<1> DEFINE gone == {r \in InMap : CommandOf[rec[r].key] \in cs}
<1>1. /\ max' = max /\ entries' = Hooks!Cache!Without(gone) /\ rec' = Hooks!Cache!Removed(gone)
  BY DEF Hooks!Cache!Invalidate, Hooks!Cache!Cached, InMap
<1>2. \A r \in InMap \cap gone : rec[r].status = "pending" =>
           \A q \in InMap : CommandOf[rec[q].key] = CommandOf[rec[r].key] => q \in gone
  OBVIOUS
<1> HIDE DEF gone
<1>3. Leave(gone) /\ max' \in Capacities
  BY <1>1, WithoutOrdered DEF CacheInv, CacheTypes, Leave, InMap
<1> QED BY <1>1, <1>2, <1>3, LeaveKeeps, LeaveMoves

LEMMA ConfigureKeeps ==
  ASSUME CacheInv, NEW n \in Capacities, Hooks!Cache!ConfigureSuspenseCache(n)
  PROVE  CacheInv' /\ EntriesMove
<1> DEFINE gone == InMap
<1>1. /\ max' \in Capacities /\ entries' = Hooks!Cache!Empty /\ rec' = Hooks!Cache!Removed(gone)
  BY DEF Hooks!Cache!ConfigureSuspenseCache, Hooks!Cache!Cached, InMap
<1>2. InMap' = {} /\ MapOrdered(entries')
  BY <1>1 DEF InMap, Hooks!Cache!Empty, MapOrdered
<1>3. \A r \in InMap \cap gone : rec[r].status = "pending" =>
           \A q \in InMap : CommandOf[rec[q].key] = CommandOf[rec[r].key] => q \in gone
  OBVIOUS
<1>4. InMap' = InMap \ gone
  BY <1>2
<1> HIDE DEF gone
<1>5. Leave(gone)
  BY <1>1, <1>2, <1>4 DEF Leave
<1> QED BY <1>1, <1>2, <1>3, <1>5, LeaveKeeps, LeaveMoves

LEMMA CacheStep == CacheInv /\ Hooks!Cache!Next => CacheInv' /\ EntriesMove
  BY ResolveKeeps, AnswerKeeps, DeadlineKeeps, ExpireKeeps, InvalidateKeeps, ConfigureKeeps
  DEF Hooks!Cache!Next

(***************************************************************************)
(* useMutation: the calls that loading waits for are counted, and the state *)
(* shows what the newest of them has come to.                              *)
(***************************************************************************)
CallType == [phase : {"idle", "running", "failing", "done"}, scope : Scopes,
             cut : BOOLEAN, failed : BOOLEAN, dropped : BOOLEAN]
ShownType == [scope : Scopes, data : Calls \cup {None}, loading : BOOLEAN,
              error : Calls \cup {None}]
CounterType == [active : BOOLEAN, latest : Calls \cup {None}, pending : 0..MaxPending]

CallsTold ==
  \A c \in Calls :
    /\ made[c].dropped => made[c].cut
    /\ made[c].phase = "running" => ~made[c].failed
    /\ made[c].phase = "failing" => made[c].failed
LatestOwn ==
  \A s \in Scopes : counters[s].latest # None => made[counters[s].latest].scope = s
HiddenOnce == hidden => everHidden

Newest == counters[scope].latest
NewestShown ==
  Newest # None /\ ~made[Newest].cut =>
    /\ made[Newest].phase = "running" => mutation.error = None
    /\ made[Newest].phase = "failing" => mutation.error = Newest
    /\ made[Newest].phase = "done" =>
         IF made[Newest].failed THEN mutation.error = Newest
         ELSE mutation.data = Newest /\ mutation.error = None

Awaits(c) == made[c].phase \in {"running", "failing"} /\ made[c].scope = scope /\ ~made[c].cut
Awaited == {c \in Calls : Awaits(c)}
Counted ==
  /\ IsFiniteSet(Awaited)
  /\ counters[scope].pending = Cardinality(Awaited)
  /\ mutation.loading <=> Awaited # {}

MutationInv ==
  /\ Hooks!Mutation!TypeOK /\ Hooks!Mutation!NothingStale
  /\ CallsTold /\ LatestOwn /\ HiddenOnce
  /\ ~everHidden => counters[scope].active /\ NewestShown /\ Counted

USE DEF CallType, ShownType, CounterType

LEMMA MutationImplies ==
  MutationInv => Hooks!Mutation!LatestWins /\ Hooks!Mutation!LoadingExact
<1> SUFFICES ASSUME MutationInv PROVE Hooks!Mutation!LatestWins /\ Hooks!Mutation!LoadingExact
  OBVIOUS
<1>1. Hooks!Mutation!LatestWins
  BY DEF MutationInv, NewestShown, Newest, Hooks!Mutation!LatestWins
<1>2. Hooks!Mutation!Busy <=> Awaited # {}
  BY DEF Hooks!Mutation!Busy, Hooks!Mutation!Running, Awaited, Awaits
<1> QED BY <1>1, <1>2 DEF MutationInv, Counted, Hooks!Mutation!LoadingExact

LEMMA MutationFirst == Hooks!Mutation!Init => MutationInv
<1> SUFFICES ASSUME Hooks!Mutation!Init PROVE MutationInv
  OBVIOUS
<1>1. Hooks!Mutation!TypeOK
  <2>1. Hooks!Mutation!Fresh \in CounterType
    BY MutationAssumption DEF Hooks!Mutation!Fresh
  <2>2. counters \in [Scopes -> CounterType]
    BY <2>1 DEF Hooks!Mutation!Init
  <2>3. Hooks!Mutation!Idle(scope) \in CallType /\ Hooks!Mutation!EmptyState(scope) \in ShownType
    BY DEF Hooks!Mutation!Init, Hooks!Mutation!Idle, Hooks!Mutation!EmptyState
  <2>4. made \in [Calls -> CallType] /\ mutation \in ShownType
    BY <2>3 DEF Hooks!Mutation!Init
  <2> QED BY <2>2, <2>4 DEF Hooks!Mutation!Init, Hooks!Mutation!TypeOK
<1>2. Awaited = {}
  BY DEF Awaited, Awaits, Hooks!Mutation!Init, Hooks!Mutation!Idle
<1>3. Counted
  BY <1>2, FS_EmptySet DEF Counted, Hooks!Mutation!Init, Hooks!Mutation!Fresh, Hooks!Mutation!EmptyState
<1> QED
  BY <1>1, <1>3 DEF MutationInv, CallsTold, LatestOwn, HiddenOnce, NewestShown, Newest,
     Hooks!Mutation!NothingStale,
     Hooks!Mutation!Init, Hooks!Mutation!Fresh, Hooks!Mutation!Idle, Hooks!Mutation!EmptyState

LEMMA MutationTypes ==
  MutationInv =>
    /\ scope \in Scopes /\ counters \in [Scopes -> CounterType]
    /\ made \in [Calls -> CallType] /\ mutation \in ShownType /\ mutation.scope = scope
    /\ \A c \in Calls : made[c] \in CallType
    /\ \A s \in Scopes : counters[s] \in CounterType
  BY DEF MutationInv, Hooks!Mutation!TypeOK, Hooks!Mutation!NothingStale

(* A call takes a record that nothing refers to. *)
LEMMA ChosenCall ==
  ASSUME NEW s \in Scopes, Hooks!Mutation!Call(s)
  PROVE  \E c \in Calls :
           /\ ~Hooks!Mutation!InUse(c)
           /\ counters[s].pending < MaxPending
           /\ made' = [made EXCEPT ![c] = [Hooks!Mutation!Idle(s) EXCEPT !.phase = "running"]]
           /\ counters' = [counters EXCEPT ![s].latest = c, ![s].pending = @ + 1]
           /\ mutation' = IF counters[s].active
                THEN Hooks!Mutation!Updated(s, [mutation EXCEPT !.loading = TRUE, !.error = None])
                ELSE mutation
           /\ UNCHANGED <<scope, scopeEffect, hidden, everHidden>>
<1>1. \E d \in Calls : ~Hooks!Mutation!InUse(d)
  BY DEF Hooks!Mutation!Call
<1> DEFINE c == CHOOSE d \in Calls : ~Hooks!Mutation!InUse(d)
<1>2. c \in Calls /\ ~Hooks!Mutation!InUse(c)
  BY <1>1
<1>3. /\ counters[s].pending < MaxPending
      /\ made' = [made EXCEPT ![c] = [Hooks!Mutation!Idle(s) EXCEPT !.phase = "running"]]
      /\ counters' = [counters EXCEPT ![s].latest = c, ![s].pending = @ + 1]
      /\ mutation' = IF counters[s].active
                THEN Hooks!Mutation!Updated(s, [mutation EXCEPT !.loading = TRUE, !.error = None])
                ELSE mutation
      /\ UNCHANGED <<scope, scopeEffect, hidden, everHidden>>
  BY DEF Hooks!Mutation!Call
<1> HIDE DEF c
<1> QED BY <1>2, <1>3

LEMMA CallKeeps ==
  ASSUME MutationInv, NEW s \in Scopes, Hooks!Mutation!Call(s)
  PROVE  MutationInv'
<1>1. PICK c \in Calls :
           /\ ~Hooks!Mutation!InUse(c)
           /\ counters[s].pending < MaxPending
           /\ made' = [made EXCEPT ![c] = [Hooks!Mutation!Idle(s) EXCEPT !.phase = "running"]]
           /\ counters' = [counters EXCEPT ![s].latest = c, ![s].pending = @ + 1]
           /\ mutation' = IF counters[s].active
                THEN Hooks!Mutation!Updated(s, [mutation EXCEPT !.loading = TRUE, !.error = None])
                ELSE mutation
           /\ UNCHANGED <<scope, scopeEffect, hidden, everHidden>>
  BY ChosenCall
<1>2. /\ scope \in Scopes /\ counters \in [Scopes -> CounterType]
      /\ made \in [Calls -> CallType] /\ mutation \in ShownType /\ mutation.scope = scope
  BY MutationTypes
<1>3. /\ made' \in [Calls -> CallType]
      /\ made'[c] = [phase |-> "running", scope |-> s, cut |-> FALSE, failed |-> FALSE,
                     dropped |-> FALSE]
      /\ \A d \in Calls \ {c} : made'[d] = made[d]
  BY <1>1, <1>2 DEF Hooks!Mutation!Idle
<1>4. /\ counters' \in [Scopes -> CounterType]
      /\ counters'[s].latest = c /\ counters'[s].pending = counters[s].pending + 1
      /\ counters'[s].active = counters[s].active
      /\ \A r \in Scopes \ {s} : counters'[r] = counters[r]
  BY <1>1, <1>2, MutationAssumption
<1>5. /\ mutation' \in ShownType /\ mutation'.scope = scope /\ mutation'.data = mutation.data
      /\ mutation'.error \in {mutation.error, None}
      /\ s # scope => mutation' = mutation
      /\ s = scope /\ counters[s].active => mutation'.loading = TRUE /\ mutation'.error = None
  BY <1>1, <1>2 DEF Hooks!Mutation!Updated
<1>6. /\ ~(made[c].phase \in {"running", "failing"})
      /\ c \notin {mutation.data, mutation.error} /\ \A r \in Scopes : counters[r].latest # c
  BY <1>1 DEF Hooks!Mutation!InUse, Hooks!Mutation!Running
<1>7. Hooks!Mutation!TypeOK'
  BY <1>1, <1>3, <1>4, <1>5 DEF MutationInv, Hooks!Mutation!TypeOK
<1>8. Hooks!Mutation!NothingStale' /\ CallsTold' /\ LatestOwn' /\ HiddenOnce'
  <2>1. Hooks!Mutation!NothingStale'
    <3> SUFFICES ASSUME NEW d \in {mutation'.data, mutation'.error} \ {None}
                 PROVE  made'[d].scope = scope /\ ~made'[d].dropped
      BY <1>1, <1>5 DEF Hooks!Mutation!NothingStale
    <3>1. d \in {mutation.data, mutation.error} \ {None}
      BY <1>5
    <3>2. d \in Calls \ {c}
      BY <1>2, <1>6, <3>1
    <3> QED BY <1>3, <3>1, <3>2 DEF MutationInv, Hooks!Mutation!NothingStale
  <2>2. CallsTold'
    BY <1>3 DEF MutationInv, CallsTold
  <2>3. LatestOwn'
    <3> SUFFICES ASSUME NEW q \in Scopes, counters'[q].latest # None
                 PROVE  made'[counters'[q].latest].scope = q
      BY DEF LatestOwn
    <3>1. CASE q = s
      BY <1>3, <1>4, <3>1
    <3>2. CASE q # s
      <4>1. counters'[q].latest = counters[q].latest /\ counters[q].latest \in Calls \ {c}
        BY <1>2, <1>4, <1>6, <3>2
      <4> QED BY <1>3, <4>1 DEF MutationInv, LatestOwn
    <3> QED BY <3>1, <3>2
  <2> QED BY <1>1, <2>1, <2>2, <2>3 DEF MutationInv, HiddenOnce
<1>9. ASSUME ~everHidden' PROVE counters'[scope'].active /\ NewestShown' /\ Counted'
  <2>1. counters[scope].active /\ NewestShown /\ Counted
    BY <1>1, <1>9 DEF MutationInv
  <2>2. CASE s = scope
    <3>1. NewestShown'
      BY <1>1, <1>3, <1>4, <1>5, <2>1, <2>2 DEF NewestShown, Newest
    <3>2. Awaited' = Awaited \cup {c} /\ c \notin Awaited
      BY <1>1, <1>3, <1>6, <2>2 DEF Awaited, Awaits
    <3>3. Counted'
      BY <1>1, <1>4, <1>5, <2>1, <2>2, <3>2, FS_AddElement DEF Counted
    <3> QED BY <1>1, <1>4, <2>1, <2>2, <3>1, <3>3
  <2>3. CASE s # scope
    <3>1. Awaited' = Awaited
      BY <1>1, <1>3, <1>6, <2>3 DEF Awaited, Awaits
    <3>2. Newest' = Newest /\ (Newest # None => made'[Newest] = made[Newest])
      BY <1>1, <1>2, <1>3, <1>4, <1>6, <2>3 DEF Newest
    <3> QED BY <1>1, <1>2, <1>4, <1>5, <2>1, <2>3, <3>1, <3>2 DEF NewestShown, Counted
  <2> QED BY <2>2, <2>3
<1> QED BY <1>7, <1>8, <1>9 DEF MutationInv

(***************************************************************************)
(* The end of a call, by a success or after the callbacks of a failure.     *)
(***************************************************************************)
MutationEnds(c, data) ==
  /\ Hooks!Mutation!Running(c)
  /\ made' = [made EXCEPT ![c] = Hooks!Mutation!Over(c)]
  /\ Hooks!Mutation!Finally(c, data)
  /\ UNCHANGED <<scope, scopeEffect, hidden, everHidden>>

LEMMA EndedCall ==
  ASSUME MutationInv, NEW c \in Calls, Hooks!Mutation!Running(c),
         made' = [made EXCEPT ![c] = Hooks!Mutation!Over(c)]
  PROVE  /\ made' \in [Calls -> CallType]
         /\ \A d \in Calls : d # c => made'[d] = made[d]
         /\ made'[c].scope = made[c].scope /\ made'[c].cut = FALSE
         /\ made'[c].phase = IF made[c].cut THEN "idle" ELSE "done"
         /\ made'[c].dropped = FALSE
         /\ ~made[c].cut => made'[c].failed = made[c].failed
<1>1. made \in [Calls -> CallType] /\ made[c] \in CallType
  BY MutationTypes
<1>2. made[c].dropped => made[c].cut
  BY DEF MutationInv, CallsTold
<1>3. CASE made[c].cut
  <2>1. made'[c] = [phase |-> "idle", scope |-> made[c].scope, cut |-> FALSE,
                    failed |-> FALSE, dropped |-> FALSE]
    BY <1>1, <1>3 DEF Hooks!Mutation!Over, Hooks!Mutation!Idle
  <2>2. made' \in [Calls -> CallType] /\ \A d \in Calls : d # c => made'[d] = made[d]
    <3>1. Hooks!Mutation!Over(c) \in CallType
      BY <1>1, <1>3 DEF Hooks!Mutation!Over, Hooks!Mutation!Idle
    <3> QED BY <1>1, <3>1
  <2> QED BY <1>1, <1>3, <2>1, <2>2
<1>4. CASE ~made[c].cut
  <2>1. made'[c] = [made[c] EXCEPT !.phase = "done"]
    BY <1>1, <1>4 DEF Hooks!Mutation!Over
  <2>2. made'[c] \in CallType /\ made'[c].scope = made[c].scope /\ made'[c].cut = made[c].cut
        /\ made'[c].phase = "done" /\ made'[c].dropped = made[c].dropped
        /\ made'[c].failed = made[c].failed
    BY <1>1, <2>1
  <2>3. made[c].cut = FALSE /\ made[c].dropped = FALSE
    BY <1>1, <1>2, <1>4
  <2> QED BY <1>1, <1>4, <2>2, <2>3
<1> QED BY <1>3, <1>4

LEMMA EndKeeps ==
  ASSUME MutationInv, NEW c \in Calls, NEW data \in {c, mutation.data}, MutationEnds(c, data),
         ~everHidden /\ counters[scope].latest = c /\ made[c].scope = scope /\ ~made[c].cut =>
           IF made[c].failed THEN mutation.error = c
           ELSE data = c /\ mutation.error = None,
         counters[made[c].scope].latest # c => data = mutation.data
  PROVE  MutationInv'
<1> DEFINE s == made[c].scope
           left == IF counters[s].pending > 0 THEN counters[s].pending - 1 ELSE 0
<1>1. /\ scope \in Scopes /\ counters \in [Scopes -> CounterType]
      /\ made \in [Calls -> CallType] /\ mutation \in ShownType /\ mutation.scope = scope
      /\ s \in Scopes /\ UNCHANGED <<scope, scopeEffect, hidden, everHidden>>
  BY MutationTypes DEF MutationEnds
<1>2. /\ made' \in [Calls -> CallType]
      /\ \A d \in Calls : d # c => made'[d] = made[d]
      /\ made'[c].scope = s /\ made'[c].cut = FALSE
      /\ made'[c].phase = IF made[c].cut THEN "idle" ELSE "done"
      /\ made'[c].dropped = FALSE
      /\ ~made[c].cut => made'[c].failed = made[c].failed
  BY EndedCall DEF MutationEnds
<1>3. IF counters[s].active /\ ~made[c].cut
      THEN /\ counters' = [counters EXCEPT ![s].pending = left]
           /\ mutation' = IF scope = s THEN [mutation EXCEPT !.loading = left > 0, !.data = data]
                          ELSE mutation
      ELSE UNCHANGED <<counters, mutation>>
  BY <1>1 DEF MutationEnds, Hooks!Mutation!Finally, Hooks!Mutation!IsCurrent, Hooks!Mutation!Updated
<1>4. left \in 0..MaxPending /\ (counters[s].pending > 0 => left = counters[s].pending - 1)
  BY <1>1, MutationAssumption
<1>5. (left > 0) \in BOOLEAN /\ data \in Calls \cup {None}
  BY <1>1
<1>6. counters[s].latest # c => data = mutation.data
  OBVIOUS
<1> HIDE DEF s, left
<1>7. /\ counters' \in [Scopes -> CounterType]
      /\ \A r \in Scopes : /\ counters'[r].latest = counters[r].latest
                           /\ counters'[r].active = counters[r].active
                           /\ r # s => counters'[r] = counters[r]
  BY <1>1, <1>3, <1>4
<1>8. /\ mutation' \in ShownType /\ mutation'.scope = scope /\ mutation'.error = mutation.error
      /\ mutation'.data \in {mutation.data, data}
      /\ scope # s \/ made[c].cut => mutation'.data = mutation.data
      /\ mutation'.data # mutation.data => scope = s /\ ~made[c].cut
  <2> DEFINE new == [mutation EXCEPT !.loading = left > 0, !.data = data]
  <2>1. new \in ShownType /\ new.scope = mutation.scope /\ new.error = mutation.error
        /\ new.data = data /\ new.loading = (left > 0)
    BY <1>1, <1>5
  <2>2. mutation' = mutation \/ (mutation' = new /\ scope = s /\ ~made[c].cut)
    BY <1>3
  <2> HIDE DEF new
  <2> QED BY <1>1, <2>1, <2>2
<1>9. Hooks!Mutation!TypeOK'
  BY <1>1, <1>2, <1>7, <1>8 DEF MutationInv, Hooks!Mutation!TypeOK
<1>10. Hooks!Mutation!NothingStale'
  <2> SUFFICES ASSUME NEW d \in {mutation'.data, mutation'.error} \ {None}
               PROVE  made'[d].scope = scope /\ ~made'[d].dropped
    BY <1>1, <1>8 DEF Hooks!Mutation!NothingStale
  <2>1. d \in Calls
    BY <1>8
  <2>2. d = c \/ d \in {mutation.data, mutation.error}
    BY <1>8
  <2>3. CASE d \in {mutation.data, mutation.error}
    BY <1>2, <2>1, <2>3 DEF MutationInv, Hooks!Mutation!NothingStale, s
  <2>4. CASE d \notin {mutation.data, mutation.error}
    <3>1. d = c /\ scope = s
      BY <1>8, <2>2, <2>4
    <3> QED BY <1>2, <3>1
  <2> QED BY <2>3, <2>4
<1>11. CallsTold' /\ LatestOwn' /\ HiddenOnce'
  <2>1. CallsTold'
    BY <1>2 DEF MutationInv, CallsTold
  <2>2. LatestOwn'
    <3> SUFFICES ASSUME NEW r \in Scopes, counters'[r].latest # None
                 PROVE  made'[counters'[r].latest].scope = r
      BY DEF LatestOwn
    <3>1. counters'[r].latest = counters[r].latest /\ counters[r].latest \in Calls
      BY <1>1, <1>7
    <3> QED BY <1>2, <3>1 DEF MutationInv, LatestOwn, s
  <2> QED BY <1>1, <2>1, <2>2 DEF MutationInv, HiddenOnce
<1>12. ASSUME ~everHidden' PROVE counters'[scope'].active /\ NewestShown' /\ Counted'
  <2>1. counters[scope].active /\ NewestShown /\ Counted /\ Newest \in Calls \cup {None}
    BY <1>1, <1>12 DEF MutationInv, Newest
  <2>2. Newest' = Newest
    BY <1>1, <1>7 DEF Newest
  <2>3. CASE scope # s \/ made[c].cut
    <3>1. Awaited' = Awaited
      BY <1>1, <1>2, <2>3 DEF Awaited, Awaits, s
    <3>2. counters'[scope].pending = counters[scope].pending
          /\ mutation'.loading = mutation.loading /\ mutation'.data = mutation.data
      BY <1>1, <1>3, <1>7, <2>3
    <3>3. NewestShown'
      <4>1. CASE Newest = c
        <5>1. c # None
          BY MutationAssumption
        <5>2. s = scope
          BY <1>1, <4>1, <5>1 DEF MutationInv, LatestOwn, Newest, s
        <5>3. made'[c].phase = "idle"
          BY <1>2, <2>3, <5>2
        <5> QED BY <2>2, <4>1, <5>3 DEF NewestShown
      <4>2. CASE Newest # c
        BY <1>2, <1>8, <2>1, <2>2, <3>2, <4>2 DEF NewestShown
      <4> QED BY <4>1, <4>2
    <3> QED BY <1>1, <1>7, <2>1, <3>1, <3>2, <3>3 DEF Counted
  <2>4. CASE scope = s /\ ~made[c].cut
    <3>1. Awaited' = Awaited \ {c} /\ c \in Awaited
      BY <1>1, <1>2, <2>4 DEF Awaited, Awaits, s, MutationEnds, Hooks!Mutation!Running
    <3>2. IsFiniteSet(Awaited') /\ Cardinality(Awaited') = Cardinality(Awaited) - 1
          /\ Cardinality(Awaited) \in Nat /\ Cardinality(Awaited') \in Nat
          /\ (Cardinality(Awaited') = 0 <=> Awaited' = {})
      BY <2>1, <3>1, FS_RemoveElement, FS_CardinalityType, FS_EmptySet DEF Counted
    <3>3. left = Cardinality(Awaited')
      BY <1>4, <2>1, <2>4, <3>2 DEF Counted
    <3>4. counters'[scope].pending = left /\ mutation'.loading = (left > 0)
          /\ mutation'.data = data
      <4>1. /\ counters' = [counters EXCEPT ![s].pending = left]
            /\ mutation' = [mutation EXCEPT !.loading = left > 0, !.data = data]
        BY <1>3, <2>1, <2>4
      <4> QED BY <1>1, <1>5, <2>4, <4>1
    <3>5. Counted'
      <4>1. left > 0 <=> Awaited' # {}
        BY <3>2, <3>3
      <4>2. mutation'.loading <=> Awaited' # {}
        BY <3>4, <4>1
      <4>3. IsFiniteSet(Awaited') /\ counters'[scope'].pending = Cardinality(Awaited')
        BY <1>1, <3>2, <3>3, <3>4
      <4> QED BY <4>2, <4>3 DEF Counted
    <3>6. NewestShown'
      <4>1. CASE Newest = c
        BY <1>1, <1>2, <1>8, <1>12, <2>2, <2>4, <3>4, <4>1 DEF NewestShown, Newest, s
      <4>2. CASE Newest # c
        <5>1. Newest # None => made'[Newest] = made[Newest]
          BY <1>2, <2>1, <4>2
        <5>2. data = mutation.data
          BY <1>6, <2>4, <4>2 DEF Newest
        <5> QED BY <1>8, <2>1, <2>2, <3>4, <4>2, <5>1, <5>2 DEF NewestShown
      <4> QED BY <4>1, <4>2
    <3> QED BY <1>1, <1>7, <2>1, <3>5, <3>6
  <2> QED BY <2>3, <2>4
<1> QED BY <1>9, <1>10, <1>11, <1>12 DEF MutationInv

LEMMA SucceedKeeps ==
  ASSUME MutationInv, NEW c \in Calls, Hooks!Mutation!Succeed(c)
  PROVE  MutationInv'
<1> DEFINE data == IF counters[made[c].scope].latest = c THEN c ELSE mutation.data
<1>1. MutationEnds(c, data) /\ made[c].phase = "running"
  BY DEF Hooks!Mutation!Succeed, MutationEnds, Hooks!Mutation!Running
<1>2. ~made[c].failed
  BY <1>1 DEF MutationInv, CallsTold
<1>3. ~everHidden /\ counters[scope].latest = c /\ made[c].scope = scope /\ ~made[c].cut
        => data = c /\ mutation.error = None
  BY <1>1, MutationAssumption DEF MutationInv, NewestShown, Newest
<1>4. data \in {c, mutation.data} /\ (counters[made[c].scope].latest # c => data = mutation.data)
  OBVIOUS
<1> HIDE DEF data
<1> QED BY <1>1, <1>2, <1>3, <1>4, EndKeeps

LEMMA FailedKeeps ==
  ASSUME MutationInv, NEW c \in Calls, Hooks!Mutation!Failed(c)
  PROVE  MutationInv'
<1>1. MutationEnds(c, mutation.data) /\ made[c].phase = "failing"
  BY DEF Hooks!Mutation!Failed, MutationEnds, Hooks!Mutation!Running
<1>2. made[c].failed
  BY <1>1 DEF MutationInv, CallsTold
<1>3. ~everHidden /\ counters[scope].latest = c /\ made[c].scope = scope /\ ~made[c].cut
        => mutation.error = c
  BY <1>1, MutationAssumption DEF MutationInv, NewestShown, Newest
<1> QED BY <1>1, <1>2, <1>3, EndKeeps

LEMMA FailKeeps ==
  ASSUME MutationInv, NEW c \in Calls, Hooks!Mutation!Fail(c)
  PROVE  MutationInv'
<1> DEFINE s == made[c].scope
<1>1. /\ scope \in Scopes /\ counters \in [Scopes -> CounterType]
      /\ made \in [Calls -> CallType] /\ mutation \in ShownType /\ mutation.scope = scope
      /\ s \in Scopes /\ UNCHANGED <<scope, scopeEffect, hidden, counters, everHidden>>
      /\ made[c].phase = "running"
      /\ made' = [made EXCEPT ![c].phase = "failing", ![c].failed = TRUE]
  BY MutationTypes DEF Hooks!Mutation!Fail
<1>2. mutation' = IF counters[s].active /\ ~made[c].cut /\ counters[s].latest = c /\ scope = s
                  THEN [mutation EXCEPT !.error = c] ELSE mutation
  BY <1>1 DEF Hooks!Mutation!Fail, Hooks!Mutation!IsCurrent, Hooks!Mutation!Updated
<1> HIDE DEF s
<1>3. /\ made' \in [Calls -> CallType]
      /\ \A d \in Calls : d # c => made'[d] = made[d]
      /\ made'[c].phase = "failing" /\ made'[c].failed = TRUE /\ made'[c].scope = made[c].scope
      /\ made'[c].cut = made[c].cut /\ made'[c].dropped = made[c].dropped
  BY <1>1
<1>4. /\ mutation' \in ShownType /\ mutation'.scope = scope /\ mutation'.data = mutation.data
      /\ mutation'.loading = mutation.loading
      /\ mutation'.error # mutation.error => mutation'.error = c /\ s = scope /\ ~made[c].cut
      /\ counters[s].latest # c => mutation'.error = mutation.error
  BY <1>1, <1>2
<1>5. Hooks!Mutation!TypeOK'
  BY <1>1, <1>3, <1>4 DEF MutationInv, Hooks!Mutation!TypeOK
<1>6. Hooks!Mutation!NothingStale'
  <2> SUFFICES ASSUME NEW d \in {mutation'.data, mutation'.error} \ {None}
               PROVE  made'[d].scope = scope /\ ~made'[d].dropped
    BY <1>1, <1>4 DEF Hooks!Mutation!NothingStale
  <2>1. d \in Calls
    BY <1>4
  <2>2. made'[d].scope = made[d].scope /\ made'[d].dropped = made[d].dropped
    BY <1>3, <2>1
  <2>3. CASE d \in {mutation.data, mutation.error}
    BY <2>2, <2>3 DEF MutationInv, Hooks!Mutation!NothingStale
  <2>4. CASE d \notin {mutation.data, mutation.error}
    BY <1>4, <2>2, <2>4 DEF MutationInv, CallsTold, s
  <2> QED BY <2>3, <2>4
<1>7. CallsTold' /\ LatestOwn' /\ HiddenOnce'
  <2>1. CallsTold'
    BY <1>3 DEF MutationInv, CallsTold
  <2>2. LatestOwn'
    BY <1>1, <1>3 DEF MutationInv, LatestOwn
  <2> QED BY <1>1, <2>1, <2>2 DEF MutationInv, HiddenOnce
<1>8. ASSUME ~everHidden' PROVE counters'[scope'].active /\ NewestShown' /\ Counted'
  <2>1. counters[scope].active /\ NewestShown /\ Counted /\ Newest' = Newest
    BY <1>1, <1>8 DEF MutationInv, Newest
  <2>2. Awaited' = Awaited
    BY <1>1, <1>3 DEF Awaited, Awaits
  <2>3. NewestShown'
    <3>1. CASE Newest = c
      <4>1. c # None
        BY MutationAssumption
      <4>2. s = scope
        BY <1>1, <3>1, <4>1 DEF MutationInv, LatestOwn, Newest, s
      <4>3. ~made[c].cut => mutation'.error = c
        BY <1>1, <1>2, <2>1, <3>1, <4>2 DEF Newest
      <4> QED BY <1>3, <2>1, <3>1, <4>3 DEF NewestShown
    <3>2. CASE Newest # c
      <4>1. mutation'.error = mutation.error
        BY <1>4, <3>2 DEF Newest
      <4>2. Newest # None => made'[Newest] = made[Newest]
        BY <1>1, <1>3, <3>2 DEF Newest
      <4> QED BY <1>4, <2>1, <4>1, <4>2 DEF NewestShown
    <3> QED BY <3>1, <3>2
  <2> QED BY <1>1, <1>4, <2>1, <2>2, <2>3 DEF Counted
<1> QED BY <1>5, <1>6, <1>7, <1>8 DEF MutationInv

(***************************************************************************)
(* Bumps of a generation: the calls of the scope are cut, or over.          *)
(***************************************************************************)
BumpedAt(s) ==
  /\ made' \in [Calls -> CallType]
  /\ \A c \in Calls : made[c].scope # s => made'[c] = made[c]
  /\ \A c \in Calls : made[c].scope = s =>
       /\ made'[c].scope = s
       /\ made'[c].dropped => made'[c].cut
       /\ made'[c].failed = made[c].failed \/ made'[c].failed = FALSE
       /\ IF made[c].phase \in {"running", "failing"}
          THEN made'[c].phase = made[c].phase /\ made'[c].cut = TRUE
               /\ made'[c].failed = made[c].failed
          ELSE made'[c].phase = "idle"

LEMMA CutBumps ==
  ASSUME MutationInv, NEW s \in Scopes, made' = Hooks!Mutation!Cut(s)
  PROVE  /\ BumpedAt(s)
         /\ \A c \in Calls : made'[c].dropped => made[c].dropped
<1>1. made \in [Calls -> CallType] /\ \A c \in Calls : made[c] \in CallType
  BY MutationTypes
<1> DEFINE After(c) == IF made[c].scope # s THEN made[c]
                       ELSE IF made[c].phase \in {"running", "failing"}
                            THEN [made[c] EXCEPT !.cut = TRUE]
                            ELSE [phase |-> "idle", scope |-> s, cut |-> FALSE,
                                  failed |-> FALSE, dropped |-> FALSE]
<1>2. made' = [c \in Calls |-> After(c)]
  BY DEF Hooks!Mutation!Cut, Hooks!Mutation!Bumped, Hooks!Mutation!Running, Hooks!Mutation!Idle
<1>3. ASSUME NEW c \in Calls PROVE After(c) \in CallType
  BY <1>1
<1>4. \A c \in Calls : made'[c] = After(c)
  BY <1>2
<1>5. made' \in [Calls -> CallType]
  BY <1>2, <1>3
<1> QED BY <1>1, <1>4, <1>5 DEF BumpedAt

LEMMA ResetBumps ==
  ASSUME MutationInv, NEW s \in Scopes, Hooks!Mutation!Reset(s)
  PROVE  BumpedAt(s)
<1>1. made \in [Calls -> CallType] /\ \A c \in Calls : made[c] \in CallType
  BY MutationTypes
<1> DEFINE After(c) == IF made[c].scope # s THEN made[c]
                       ELSE IF made[c].phase \in {"running", "failing"}
                            THEN [made[c] EXCEPT !.cut = TRUE, !.dropped = TRUE]
                            ELSE [phase |-> "idle", scope |-> s, cut |-> FALSE,
                                  failed |-> FALSE, dropped |-> FALSE]
<1>2. made' = [c \in Calls |-> After(c)]
  BY DEF Hooks!Mutation!Reset, Hooks!Mutation!Bumped, Hooks!Mutation!Running, Hooks!Mutation!Idle
<1>3. ASSUME NEW c \in Calls PROVE After(c) \in CallType
  BY <1>1
<1>4. \A c \in Calls : made'[c] = After(c)
  BY <1>2
<1>5. made' \in [Calls -> CallType]
  BY <1>2, <1>3
<1>6. ASSUME NEW c \in Calls, made[c].scope = s, made[c].phase \in {"running", "failing"}
      PROVE  /\ made'[c].scope = s /\ made'[c].phase = made[c].phase /\ made'[c].cut = TRUE
             /\ made'[c].failed = made[c].failed
  BY <1>1, <1>4, <1>6
<1>7. ASSUME NEW c \in Calls, made[c].scope = s, ~(made[c].phase \in {"running", "failing"})
      PROVE  /\ made'[c].scope = s /\ made'[c].phase = "idle" /\ made'[c].failed = FALSE
             /\ made'[c].dropped = FALSE
  <2>1. made'[c] = [phase |-> "idle", scope |-> s, cut |-> FALSE, failed |-> FALSE,
                    dropped |-> FALSE]
    BY <1>4, <1>7
  <2> QED BY <2>1
<1>8. \A c \in Calls : made[c].scope # s => made'[c] = made[c]
  BY <1>4
<1> HIDE DEF After
<1> QED BY <1>5, <1>6, <1>7, <1>8 DEF BumpedAt

LEMMA BumpKeeps ==
  ASSUME MutationInv, NEW s \in Scopes, BumpedAt(s),
         \A r \in Scopes : counters'[r].latest = counters[r].latest
  PROVE  CallsTold' /\ LatestOwn'
<1>1. CallsTold'
  <2> SUFFICES ASSUME NEW c \in Calls
               PROVE  /\ made'[c].dropped => made'[c].cut
                      /\ made'[c].phase = "running" => ~made'[c].failed
                      /\ made'[c].phase = "failing" => made'[c].failed
    BY DEF CallsTold
  <2>1. CASE made[c].scope # s
    BY <2>1 DEF BumpedAt, MutationInv, CallsTold
  <2>2. CASE made[c].scope = s
    BY <2>2 DEF BumpedAt, MutationInv, CallsTold
  <2> QED BY <2>1, <2>2
<1>2. LatestOwn'
  <2> SUFFICES ASSUME NEW r \in Scopes, counters'[r].latest # None
               PROVE  made'[counters'[r].latest].scope = r
    BY DEF LatestOwn
  <2> DEFINE c == counters[r].latest
  <2>1. counters'[r].latest = c /\ c \in Calls /\ made[c].scope = r
    BY MutationTypes DEF MutationInv, LatestOwn
  <2> QED BY <2>1 DEF BumpedAt
<1> QED BY <1>1, <1>2

LEMMA ResetKeeps ==
  ASSUME MutationInv, NEW s \in Scopes, Hooks!Mutation!Reset(s)
  PROVE  MutationInv'
<1>1. /\ scope \in Scopes /\ counters \in [Scopes -> CounterType]
      /\ made \in [Calls -> CallType] /\ mutation \in ShownType /\ mutation.scope = scope
      /\ UNCHANGED <<scope, scopeEffect, hidden, everHidden>>
      /\ counters' = [counters EXCEPT ![s].pending = 0]
      /\ mutation' = IF s = scope THEN Hooks!Mutation!EmptyState(s) ELSE mutation
  BY MutationTypes DEF Hooks!Mutation!Reset, Hooks!Mutation!Updated
<1>2. BumpedAt(s)
  BY ResetBumps
<1>3. /\ counters' \in [Scopes -> CounterType]
      /\ \A r \in Scopes : /\ counters'[r].latest = counters[r].latest
                           /\ counters'[r].active = counters[r].active
                           /\ r # s => counters'[r] = counters[r]
      /\ counters'[s].pending = 0
  BY <1>1, MutationAssumption
<1>4. /\ mutation' \in ShownType /\ mutation'.scope = scope
      /\ s # scope => mutation' = mutation
      /\ s = scope => mutation'.data = None /\ mutation'.error = None /\ mutation'.loading = FALSE
  BY <1>1 DEF Hooks!Mutation!EmptyState
<1>5. Hooks!Mutation!TypeOK'
  BY <1>1, <1>2, <1>3, <1>4 DEF BumpedAt, MutationInv, Hooks!Mutation!TypeOK
<1>6. Hooks!Mutation!NothingStale'
  <2>1. CASE s = scope
    BY <1>1, <1>4, <2>1 DEF Hooks!Mutation!NothingStale
  <2>2. CASE s # scope
    <3> SUFFICES ASSUME NEW d \in {mutation.data, mutation.error} \ {None}
                 PROVE  made'[d].scope = scope /\ ~made'[d].dropped
      BY <1>1, <1>4, <2>2 DEF Hooks!Mutation!NothingStale
    <3> QED BY <1>1, <1>2, <2>2 DEF BumpedAt, MutationInv, Hooks!Mutation!NothingStale
  <2> QED BY <2>1, <2>2
<1>7. CallsTold' /\ LatestOwn' /\ HiddenOnce'
  BY <1>1, <1>2, <1>3, BumpKeeps DEF MutationInv, HiddenOnce
<1>8. ASSUME ~everHidden' PROVE counters'[scope'].active /\ NewestShown' /\ Counted'
  <2>1. counters[scope].active /\ NewestShown /\ Counted /\ Newest' = Newest
        /\ Newest \in Calls \cup {None} /\ (Newest # None => made[Newest].scope = scope)
    BY <1>1, <1>3, <1>8 DEF MutationInv, Newest, LatestOwn
  <2>2. CASE s = scope
    <3>1. Awaited' = {}
      BY <1>1, <1>2, <2>2 DEF Awaited, Awaits, BumpedAt
    <3>2. Counted'
      BY <1>1, <1>3, <1>4, <2>2, <3>1, FS_EmptySet DEF Counted
    <3>3. NewestShown'
      BY <1>2, <2>1, <2>2 DEF NewestShown, BumpedAt
    <3> QED BY <1>1, <1>3, <2>1, <3>2, <3>3
  <2>3. CASE s # scope
    <3>1. Awaited' = Awaited
      BY <1>1, <1>2, <2>3 DEF Awaited, Awaits, BumpedAt
    <3>2. Newest # None => made'[Newest] = made[Newest]
      BY <1>2, <2>1, <2>3 DEF BumpedAt
    <3> QED BY <1>1, <1>3, <1>4, <2>1, <2>3, <3>1, <3>2 DEF NewestShown, Counted
  <2> QED BY <2>2, <2>3
<1> QED BY <1>5, <1>6, <1>7, <1>8 DEF MutationInv

LEMMA ReplaceKeeps ==
  ASSUME MutationInv, NEW s \in Scopes, Hooks!Mutation!Replace(s)
  PROVE  MutationInv'
<1>1. /\ scope \in Scopes /\ counters \in [Scopes -> CounterType]
      /\ made \in [Calls -> CallType] /\ \A c \in Calls : made[c] \in CallType
      /\ UNCHANGED <<scopeEffect, hidden, everHidden>> /\ scope' = s
      /\ \A c \in Calls : made[c].scope = s => ~(made[c].phase \in {"running", "failing"})
      /\ counters' = [counters EXCEPT ![s] = Hooks!Mutation!Fresh]
      /\ mutation' = Hooks!Mutation!EmptyState(s)
      /\ made' = [c \in Calls |-> IF made[c].scope = s THEN Hooks!Mutation!Idle(s) ELSE made[c]]
  BY MutationTypes DEF Hooks!Mutation!Replace, Hooks!Mutation!Running, Hooks!Mutation!Idle
<1>2. Hooks!Mutation!Idle(s) \in CallType /\ Hooks!Mutation!EmptyState(s) \in ShownType
      /\ Hooks!Mutation!Fresh \in CounterType
  BY MutationAssumption
  DEF Hooks!Mutation!Idle, Hooks!Mutation!EmptyState, Hooks!Mutation!Fresh
<1>3. /\ made' \in [Calls -> CallType]
      /\ \A c \in Calls : made[c].scope # s => made'[c] = made[c]
      /\ \A c \in Calls : made[c].scope = s =>
           made'[c].phase = "idle" /\ made'[c].scope = s /\ ~made'[c].dropped
  BY <1>1, <1>2 DEF Hooks!Mutation!Idle
<1>4. /\ counters' \in [Scopes -> CounterType]
      /\ \A r \in Scopes : r # s => counters'[r] = counters[r]
      /\ counters'[s].active = TRUE /\ counters'[s].latest = None /\ counters'[s].pending = 0
  BY <1>1, <1>2 DEF Hooks!Mutation!Fresh
<1>5. mutation'.scope = s /\ mutation'.data = None /\ mutation'.error = None
      /\ mutation'.loading = FALSE
  BY <1>1 DEF Hooks!Mutation!EmptyState
<1>6. Hooks!Mutation!TypeOK'
  BY <1>1, <1>2, <1>3, <1>4 DEF MutationInv, Hooks!Mutation!TypeOK
<1>7. Hooks!Mutation!NothingStale'
  BY <1>1, <1>5 DEF Hooks!Mutation!NothingStale
<1>8. CallsTold' /\ LatestOwn' /\ HiddenOnce'
  <2>1. CallsTold'
    BY <1>3 DEF MutationInv, CallsTold
  <2>2. LatestOwn'
    <3> SUFFICES ASSUME NEW r \in Scopes, counters'[r].latest # None
                 PROVE  made'[counters'[r].latest].scope = r
      BY DEF LatestOwn
    <3>1. r # s /\ counters'[r].latest = counters[r].latest
      BY <1>4
    <3>2. counters[r].latest \in Calls /\ made[counters[r].latest].scope = r
      BY <1>1, <3>1 DEF MutationInv, LatestOwn
    <3> QED BY <1>3, <3>1, <3>2
  <2> QED BY <1>1, <2>1, <2>2 DEF MutationInv, HiddenOnce
<1>9. counters'[scope'].active /\ NewestShown' /\ Counted'
  <2>1. NewestShown'
    BY <1>1, <1>4 DEF NewestShown, Newest
  <2>2. Awaited' = {}
    BY <1>1, <1>3 DEF Awaited, Awaits
  <2>3. Counted'
    BY <1>1, <1>4, <1>5, <2>2, FS_EmptySet DEF Counted
  <2> QED BY <1>1, <1>4, <2>1, <2>3
<1> QED BY <1>6, <1>7, <1>8, <1>9 DEF MutationInv

LEMMA MutationEffectsKeep ==
  ASSUME MutationInv, Hooks!Mutation!RunEffects
  PROVE  MutationInv'
<1>1. /\ scope \in Scopes /\ counters \in [Scopes -> CounterType]
      /\ made \in [Calls -> CallType] /\ mutation \in ShownType /\ mutation.scope = scope
      /\ UNCHANGED <<scope, hidden, mutation, everHidden>>
      /\ scopeEffect # scope /\ scopeEffect' = scope /\ scopeEffect \in Scopes \cup {None}
  BY MutationTypes DEF Hooks!Mutation!RunEffects, MutationInv, Hooks!Mutation!TypeOK
<1>2. /\ made' \in [Calls -> CallType] /\ CallsTold' /\ LatestOwn'
      /\ \A c \in Calls : made[c].scope = scope => made'[c] = made[c]
      /\ \A c \in Calls : made'[c].scope = made[c].scope
      /\ counters' \in [Scopes -> CounterType]
      /\ counters'[scope].active = TRUE
      /\ counters'[scope].latest = Newest
      /\ counters'[scope].pending = counters[scope].pending
  <2>1. counters' = [s \in Scopes |->
           IF s = scope THEN [counters[s] EXCEPT !.active = TRUE]
           ELSE IF s = scopeEffect THEN [counters[s] EXCEPT !.active = FALSE, !.pending = 0]
           ELSE counters[s]]
    BY DEF Hooks!Mutation!RunEffects, Hooks!Mutation!TakenDown
  <2>2. /\ counters' \in [Scopes -> CounterType]
        /\ \A s \in Scopes : counters'[s].latest = counters[s].latest
        /\ counters'[scope].active = TRUE
        /\ counters'[scope].pending = counters[scope].pending
    <3> DEFINE New(s) == IF s = scope THEN [counters[s] EXCEPT !.active = TRUE]
           ELSE IF s = scopeEffect THEN [counters[s] EXCEPT !.active = FALSE, !.pending = 0]
           ELSE counters[s]
    <3>1. ASSUME NEW s \in Scopes
          PROVE  New(s) \in CounterType /\ New(s).latest = counters[s].latest
      <4>1. counters[s] \in CounterType /\ 0 \in 0..MaxPending
        BY <1>1, MutationAssumption
      <4>2. [counters[s] EXCEPT !.active = TRUE] \in CounterType
        BY <4>1
      <4>3. [counters[s] EXCEPT !.active = FALSE, !.pending = 0] \in CounterType
        BY <4>1
      <4> QED BY <4>1, <4>2, <4>3
    <3>2. New(scope).active = TRUE /\ New(scope).pending = counters[scope].pending
      BY <1>1
    <3>3. counters' = [s \in Scopes |-> New(s)]
      BY <2>1
    <3> HIDE DEF New
    <3> QED BY <1>1, <3>1, <3>2, <3>3
  <2>3. CASE scopeEffect = None
    <3>1. made' = made
      BY <2>3 DEF Hooks!Mutation!RunEffects
    <3> QED BY <1>1, <2>2, <3>1 DEF MutationInv, CallsTold, LatestOwn, Newest
  <2>4. CASE scopeEffect # None
    <3>1. scopeEffect \in Scopes /\ made' = Hooks!Mutation!Cut(scopeEffect)
      BY <1>1, <2>4 DEF Hooks!Mutation!RunEffects
    <3>2. PICK e \in Scopes : e = scopeEffect
      BY <3>1
    <3>3. BumpedAt(e)
      BY <3>1, <3>2, CutBumps
    <3>4. CallsTold' /\ LatestOwn'
      BY <2>2, <3>3, BumpKeeps
    <3>5. /\ made' \in [Calls -> CallType]
          /\ \A c \in Calls : made[c].scope = scope => made'[c] = made[c]
          /\ \A c \in Calls : made'[c].scope = made[c].scope
      BY <1>1, <3>2, <3>3 DEF BumpedAt
    <3> QED BY <1>1, <2>2, <3>4, <3>5 DEF Newest
  <2> QED BY <2>3, <2>4
<1>3. Hooks!Mutation!TypeOK'
  BY <1>1, <1>2 DEF MutationInv, Hooks!Mutation!TypeOK
<1>4. Hooks!Mutation!NothingStale'
  <2> SUFFICES ASSUME NEW d \in {mutation.data, mutation.error} \ {None}
               PROVE  made'[d].scope = scope /\ ~made'[d].dropped
    BY <1>1 DEF Hooks!Mutation!NothingStale
  <2> QED BY <1>1, <1>2 DEF MutationInv, Hooks!Mutation!NothingStale
<1>5. ASSUME ~everHidden' PROVE counters'[scope'].active /\ NewestShown' /\ Counted'
  <2>1. counters[scope].active /\ NewestShown /\ Counted /\ Newest' = Newest
        /\ Newest \in Calls \cup {None} /\ (Newest # None => made[Newest].scope = scope)
    BY <1>1, <1>2, <1>5 DEF MutationInv, Newest, LatestOwn
  <2>2. Awaited' = Awaited
    BY <1>1, <1>2 DEF Awaited, Awaits
  <2>3. Newest # None => made'[Newest] = made[Newest]
    BY <1>2, <2>1
  <2> QED BY <1>1, <1>2, <2>1, <2>2, <2>3 DEF NewestShown, Counted
<1> QED BY <1>1, <1>2, <1>3, <1>4, <1>5 DEF MutationInv, HiddenOnce

LEMMA MutationHideKeeps ==
  ASSUME MutationInv, Hooks!Mutation!Hide
  PROVE  MutationInv'
<1>1. /\ scope \in Scopes /\ counters \in [Scopes -> CounterType]
      /\ made \in [Calls -> CallType] /\ mutation \in ShownType /\ mutation.scope = scope
      /\ UNCHANGED <<scope, mutation>> /\ hidden' = TRUE /\ everHidden' = TRUE
      /\ scopeEffect' = None /\ made' = Hooks!Mutation!Cut(scope)
      /\ counters' = [counters EXCEPT ![scope] =
                        [counters[scope] EXCEPT !.active = FALSE, !.pending = 0]]
  BY MutationTypes DEF Hooks!Mutation!Hide, Hooks!Mutation!TakenDown
<1>2. PICK e \in Scopes : e = scope
  BY <1>1
<1>3. BumpedAt(e) /\ \A c \in Calls : made'[c].dropped => made[c].dropped
  BY <1>1, <1>2, CutBumps
<1>4. /\ counters' \in [Scopes -> CounterType]
      /\ \A r \in Scopes : counters'[r].latest = counters[r].latest
  <2> DEFINE new == [counters[scope] EXCEPT !.active = FALSE, !.pending = 0]
  <2>1. new \in CounterType /\ new.latest = counters[scope].latest
    <3>1. counters[scope] \in CounterType /\ 0 \in 0..MaxPending
      BY <1>1, MutationAssumption
    <3> QED BY <3>1
  <2>2. counters' = [counters EXCEPT ![scope] = new]
    BY <1>1
  <2> HIDE DEF new
  <2> QED BY <1>1, <2>1, <2>2
<1>5. Hooks!Mutation!TypeOK'
  BY <1>1, <1>3, <1>4 DEF BumpedAt, MutationInv, Hooks!Mutation!TypeOK
<1>6. Hooks!Mutation!NothingStale'
  <2> SUFFICES ASSUME NEW d \in {mutation.data, mutation.error} \ {None}
               PROVE  made'[d].scope = scope /\ ~made'[d].dropped
    BY <1>1 DEF Hooks!Mutation!NothingStale
  <2> QED BY <1>1, <1>2, <1>3 DEF BumpedAt, MutationInv, Hooks!Mutation!NothingStale
<1>7. CallsTold' /\ LatestOwn'
  BY <1>3, <1>4, BumpKeeps
<1> QED BY <1>1, <1>5, <1>6, <1>7 DEF MutationInv, HiddenOnce

LEMMA MutationShowKeeps ==
  ASSUME MutationInv, Hooks!Mutation!Show
  PROVE  MutationInv'
<1>1. /\ scope \in Scopes /\ counters \in [Scopes -> CounterType]
      /\ UNCHANGED <<scope, made, mutation, everHidden>> /\ hidden' = FALSE
      /\ scopeEffect' = scope /\ everHidden
      /\ counters' = [counters EXCEPT ![scope].active = TRUE]
  BY MutationTypes DEF Hooks!Mutation!Show, MutationInv, HiddenOnce
<1>2. /\ counters' \in [Scopes -> CounterType]
      /\ \A r \in Scopes : counters'[r].latest = counters[r].latest
  BY <1>1
<1>3. Hooks!Mutation!TypeOK'
  BY <1>1, <1>2 DEF MutationInv, Hooks!Mutation!TypeOK
<1>4. Hooks!Mutation!NothingStale' /\ CallsTold' /\ LatestOwn'
  BY <1>1, <1>2 DEF MutationInv, Hooks!Mutation!NothingStale, CallsTold, LatestOwn
<1> QED BY <1>1, <1>3, <1>4 DEF MutationInv, HiddenOnce

LEMMA MutationStep == MutationInv /\ Hooks!Mutation!Next => MutationInv'
  BY CallKeeps, ResetKeeps, ReplaceKeeps, SucceedKeeps, FailKeeps, FailedKeeps,
     MutationEffectsKeep, MutationHideKeeps, MutationShowKeeps DEF Hooks!Mutation!Next

(***************************************************************************)
(* useCommand: a run that was not aborted is the one that the generation and *)
(* the controller belong to, and it will show the input on view.           *)
(***************************************************************************)
Live(r) == Hooks!Query!Running(r) /\ ~run[r].aborted

QueryTypes ==
  /\ Hooks!Query!TypeOK
  /\ queryHidden => queryEffect = Hooks!Query!Down
LiveIsAborted == \A r \in Queries : Live(r) => r = drew /\ r = aborter
LiveWillShow ==
  \A r \in Queries : Live(r) =>
    /\ query.error = None
    /\ queryEffect = props /\ props.enabled => Hooks!Query!Shows(r)
QueryInv ==
  /\ QueryTypes /\ LiveIsAborted /\ LiveWillShow
  /\ Hooks!Query!ShowsPresent /\ Hooks!Query!LoadingExact

LEMMA DownIsNoProps == Hooks!Query!Down \notin Hooks!Query!Props
<1> SUFFICES ASSUME Hooks!Query!Down \in Hooks!Query!Props PROVE FALSE
  OBVIOUS
<1>1. Hooks!Query!Down.input \in Inputs
  BY DEF Hooks!Query!Props
<1> QED BY <1>1, HooksAssumption DEF Hooks!Query!Down

LEMMA OneLive == LiveIsAborted => Hooks!Query!OneLiveRun
  BY DEF LiveIsAborted, Live, Hooks!Query!OneLiveRun, Hooks!Query!Running

LEMMA QueryFirst == Hooks!Query!Init => QueryInv
<1> SUFFICES ASSUME Hooks!Query!Init PROVE QueryInv
  OBVIOUS
<1>1. QueryTypes
  BY DEF QueryTypes, Hooks!Query!Init, Hooks!Query!TypeOK, Hooks!Query!Started, Hooks!Query!Props
<1>2. \A r \in Queries : ~Hooks!Query!Running(r)
  BY DEF Hooks!Query!Init, Hooks!Query!Started, Hooks!Query!Running
<1>3. queryEffect # props
  BY DownIsNoProps DEF Hooks!Query!Init
<1> QED
  BY <1>1, <1>2, <1>3 DEF QueryInv, LiveIsAborted, LiveWillShow, Live,
     Hooks!Query!ShowsPresent, Hooks!Query!Settled, Hooks!Query!LoadingExact

(* The run that execute starts. *)
LEMMA ExecuteStep ==
  ASSUME QueryInv, NEW i \in Inputs, Hooks!Query!Execute(i)
  PROVE  \E q \in Queries :
           /\ q \notin {drew, aborter, query.data, query.error}
           /\ drew' = q /\ aborter' = q
           /\ query' = [query EXCEPT !.loading = TRUE, !.error = None]
           /\ run' \in [Queries -> [input : Inputs, phase : {"idle", "running"},
                                    aborted : BOOLEAN, stray : BOOLEAN]]
           /\ run'[q] = [input |-> i, phase |-> "running", aborted |-> FALSE,
                         stray |-> i # props.input]
           /\ \A r \in Queries \ {q} :
                /\ run'[r].phase = "running" => run'[r].aborted
                /\ run'[r].stray = run[r].stray /\ run'[r].input = run[r].input
<1>1. \E d \in Queries : ~Hooks!Query!InUse(d)
  BY DEF Hooks!Query!Execute
<1> DEFINE q == CHOOSE d \in Queries : ~Hooks!Query!InUse(d)
<1>2. q \in Queries /\ ~Hooks!Query!InUse(q)
  BY <1>1
<1>3. run' = [Hooks!Query!Aborted EXCEPT ![q] = Hooks!Query!Started(i, "running")]
      /\ drew' = q /\ aborter' = q /\ query' = [query EXCEPT !.loading = TRUE, !.error = None]
  BY DEF Hooks!Query!Execute
<1> HIDE DEF q
<1>4. run \in [Queries -> [input : Inputs, phase : {"idle", "running"},
                           aborted : BOOLEAN, stray : BOOLEAN]]
      /\ aborter \in Queries \cup {None}
  BY DEF QueryInv, QueryTypes, Hooks!Query!TypeOK
<1>5. Hooks!Query!Aborted \in [Queries -> [input : Inputs, phase : {"idle", "running"},
                           aborted : BOOLEAN, stray : BOOLEAN]]
      /\ \A r \in Queries :
           /\ Hooks!Query!Aborted[r].phase = run[r].phase
           /\ Hooks!Query!Aborted[r].stray = run[r].stray
           /\ Hooks!Query!Aborted[r].input = run[r].input
           /\ Hooks!Query!Aborted[r].aborted = (run[r].aborted \/ r = aborter)
  BY <1>4, HooksAssumption DEF Hooks!Query!Aborted
<1>6. \A r \in Queries : run[r].phase = "running" => run[r].aborted \/ r = aborter
  BY DEF QueryInv, LiveIsAborted, Live, Hooks!Query!Running
<1> QED
  BY <1>2, <1>3, <1>4, <1>5, <1>6 DEF Hooks!Query!InUse, Hooks!Query!Started

LEMMA ExecuteTypes ==
  ASSUME QueryInv, NEW i \in Inputs, Hooks!Query!Execute(i),
         props' \in Hooks!Query!Props, queryEffect' \in Hooks!Query!Props \cup {Hooks!Query!Down},
         queryHidden' \in BOOLEAN, queryHidden' => queryEffect' = Hooks!Query!Down
  PROVE  QueryTypes'
<1>1. query' = [query EXCEPT !.loading = TRUE, !.error = None]
      /\ {drew', aborter'} \subseteq Queries \cup {None}
      /\ run' \in [Queries -> [input : Inputs, phase : {"idle", "running"},
                               aborted : BOOLEAN, stray : BOOLEAN]]
  <2>1. PICK q \in Queries :
           /\ drew' = q /\ aborter' = q
           /\ query' = [query EXCEPT !.loading = TRUE, !.error = None]
           /\ run' \in [Queries -> [input : Inputs, phase : {"idle", "running"},
                                    aborted : BOOLEAN, stray : BOOLEAN]]
    BY ExecuteStep
  <2> QED BY <2>1
<1>2. query' \in [data : Queries \cup {None}, loading : BOOLEAN, error : Queries \cup {None}]
  BY <1>1 DEF QueryInv, QueryTypes, Hooks!Query!TypeOK
<1> QED
  BY <1>1, <1>2 DEF QueryTypes, Hooks!Query!TypeOK, Hooks!Query!Down, Hooks!Query!Props

LEMMA ExecuteKeeps ==
  ASSUME QueryInv, NEW i \in Inputs, Hooks!Query!Execute(i), props' = props
  PROVE  /\ LiveIsAborted' /\ LiveWillShow'
         /\ Hooks!Query!ShowsPresent' /\ Hooks!Query!LoadingExact'
<1>1. PICK q \in Queries :
           /\ q \notin {drew, aborter, query.data, query.error}
           /\ drew' = q /\ aborter' = q
           /\ query' = [query EXCEPT !.loading = TRUE, !.error = None]
           /\ run'[q] = [input |-> i, phase |-> "running", aborted |-> FALSE,
                         stray |-> i # props.input]
           /\ \A r \in Queries \ {q} : run'[r].phase = "running" => run'[r].aborted
  BY ExecuteStep
<1>2. query'.loading = TRUE /\ query'.error = None
  BY <1>1 DEF QueryInv, QueryTypes, Hooks!Query!TypeOK
<1>3. LiveIsAborted'
  BY <1>1 DEF LiveIsAborted, Live, Hooks!Query!Running
<1>4. LiveWillShow'
  <2>1. (run'[q].stray \/ run'[q].input = props'.input) /\ q # None
    <3>1. run'[q].stray = (i # props.input) /\ run'[q].input = i
      BY <1>1
    <3> QED BY <3>1, HooksAssumption
  <2>2. \A r \in Queries : Live(r)' => r = q
    BY <1>1 DEF Live, Hooks!Query!Running
  <2> QED BY <1>2, <2>1, <2>2 DEF LiveWillShow, Hooks!Query!Shows
<1>5. Hooks!Query!ShowsPresent'
  BY <1>2 DEF Hooks!Query!ShowsPresent, Hooks!Query!Settled
<1>6. Hooks!Query!LoadingExact'
  BY <1>1, <1>2 DEF Hooks!Query!LoadingExact, Hooks!Query!Running, Hooks!Query!MayWrite
<1> QED BY <1>3, <1>4, <1>5, <1>6

LEMMA CleanupStep ==
  ASSUME QueryInv, Hooks!Query!Cleanup
  PROVE  /\ run' \in [Queries -> [input : Inputs, phase : {"idle", "running"},
                                  aborted : BOOLEAN, stray : BOOLEAN]]
         /\ \A r \in Queries : ~Live(r)'
         /\ drew' = None
<1>1. /\ run \in [Queries -> [input : Inputs, phase : {"idle", "running"},
                           aborted : BOOLEAN, stray : BOOLEAN]]
      /\ aborter \in Queries \cup {None}
  BY DEF QueryInv, QueryTypes, Hooks!Query!TypeOK
<1>2. \A r \in Queries : run[r].phase = "running" => run[r].aborted \/ r = aborter
  BY DEF QueryInv, LiveIsAborted, Live, Hooks!Query!Running
<1>3. /\ run' \in [Queries -> [input : Inputs, phase : {"idle", "running"},
                                  aborted : BOOLEAN, stray : BOOLEAN]]
      /\ \A r \in Queries : run'[r].phase = "running" => run'[r].aborted
  BY <1>1, <1>2, HooksAssumption DEF Hooks!Query!Cleanup, Hooks!Query!Aborted
<1> QED BY <1>3 DEF Hooks!Query!Cleanup, Live, Hooks!Query!Running

LEMMA RenderKeeps ==
  ASSUME QueryInv, NEW p \in Hooks!Query!Props, Hooks!Query!Render(p)
  PROVE  QueryInv'
<1>1. queryEffect # props'
  BY DownIsNoProps DEF QueryInv, QueryTypes, Hooks!Query!Render
<1>2. QueryTypes'
  BY DEF QueryInv, QueryTypes, Hooks!Query!TypeOK, Hooks!Query!Render, Hooks!Query!Down
<1> QED
  BY <1>1, <1>2 DEF QueryInv, LiveIsAborted, LiveWillShow, Live, Hooks!Query!Running,
     Hooks!Query!ShowsPresent, Hooks!Query!Settled, Hooks!Query!LoadingExact, Hooks!Query!Render

LEMMA EffectsKeep ==
  ASSUME QueryInv, Hooks!Query!RunEffects
  PROVE  QueryInv'
<1>1. props' = props /\ queryEffect' = props /\ queryHidden' = FALSE /\ props \in Hooks!Query!Props
  BY DEF QueryInv, QueryTypes, Hooks!Query!TypeOK, Hooks!Query!RunEffects
<1>2. CASE props.enabled
  <2>1. props.input \in Inputs /\ Hooks!Query!Execute(props.input)
    BY <1>1, <1>2 DEF Hooks!Query!RunEffects, Hooks!Query!Props
  <2>2. QueryTypes'
    BY <1>1, <2>1, ExecuteTypes
  <2> QED BY <1>1, <2>1, <2>2, ExecuteKeeps DEF QueryInv
<1>3. CASE ~props.enabled
  <2>1. /\ query' = [query EXCEPT !.loading = FALSE] /\ aborter' = aborter
        /\ Hooks!Query!Cleanup \/ UNCHANGED <<run, drew>>
    BY <1>3 DEF Hooks!Query!RunEffects
  <2>2. query'.error = query.error /\ query' \in
           [data : Queries \cup {None}, loading : BOOLEAN, error : Queries \cup {None}]
    BY <2>1 DEF QueryInv, QueryTypes, Hooks!Query!TypeOK
  <2>3. QueryTypes' /\ LiveIsAborted' /\ LiveWillShow'
    <3>1. CASE Hooks!Query!Cleanup
      BY <1>1, <2>1, <2>2, <3>1, CleanupStep
      DEF QueryInv, QueryTypes, Hooks!Query!TypeOK, LiveIsAborted, LiveWillShow, Hooks!Query!Down
    <3>2. CASE UNCHANGED <<run, drew>>
      BY <1>1, <1>3, <2>1, <2>2, <3>2
      DEF QueryInv, QueryTypes, Hooks!Query!TypeOK, LiveIsAborted, LiveWillShow, Live,
          Hooks!Query!Running, Hooks!Query!Down
    <3> QED BY <2>1, <3>1, <3>2
  <2>4. Hooks!Query!ShowsPresent' /\ Hooks!Query!LoadingExact'
    BY <1>1, <1>3 DEF Hooks!Query!ShowsPresent, Hooks!Query!LoadingExact
  <2> QED BY <2>3, <2>4 DEF QueryInv
<1> QED BY <1>2, <1>3

LEMMA HideKeeps ==
  ASSUME QueryInv, Hooks!Query!Hide
  PROVE  QueryInv'
<1>1. /\ props' = props /\ queryEffect' = Hooks!Query!Down /\ queryHidden' = TRUE
      /\ aborter' = aborter /\ query' = query
      /\ Hooks!Query!Cleanup \/ UNCHANGED <<run, drew>>
      /\ Hooks!Query!Down' = Hooks!Query!Down
  BY DEF Hooks!Query!Hide, Hooks!Query!Down
<1>2. queryEffect' # props'
  BY <1>1, DownIsNoProps DEF QueryInv, QueryTypes, Hooks!Query!TypeOK
<1>3. QueryTypes' /\ LiveIsAborted' /\ LiveWillShow'
  <2>1. CASE Hooks!Query!Cleanup
    BY <1>1, <2>1, CleanupStep
    DEF QueryInv, QueryTypes, Hooks!Query!TypeOK, LiveIsAborted, LiveWillShow
  <2>2. CASE UNCHANGED <<run, drew>>
    BY <1>1, <1>2, <2>2
    DEF QueryInv, QueryTypes, Hooks!Query!TypeOK, LiveIsAborted, LiveWillShow, Live,
        Hooks!Query!Running
  <2> QED BY <1>1, <2>1, <2>2
<1>4. Hooks!Query!ShowsPresent' /\ Hooks!Query!LoadingExact'
  BY <1>2 DEF Hooks!Query!ShowsPresent, Hooks!Query!Settled, Hooks!Query!LoadingExact
<1> QED BY <1>3, <1>4 DEF QueryInv

LEMMA RefetchKeeps ==
  ASSUME QueryInv, NEW i \in Inputs, Hooks!Query!Refetch(i)
  PROVE  QueryInv'
<1>1. Hooks!Query!Execute(i) /\ UNCHANGED <<props, queryEffect, queryHidden>>
  BY DEF Hooks!Query!Refetch
<1>2. QueryTypes'
  BY <1>1, ExecuteTypes DEF QueryInv, QueryTypes, Hooks!Query!TypeOK
<1> QED BY <1>1, <1>2, ExecuteKeeps DEF QueryInv

LEMMA QuerySettleKeeps ==
  ASSUME QueryInv, NEW r \in Queries, NEW field \in {"data", "error"},
         Hooks!Query!Settle(r, field)
  PROVE  QueryInv'
<1>1. /\ UNCHANGED <<props, queryEffect, queryHidden, drew, aborter>>
      /\ Hooks!Query!Running(r)
      /\ run' = [run EXCEPT ![r].phase = "idle"]
      /\ query' = IF Hooks!Query!MayWrite(r)
                  THEN [query EXCEPT ![field] = r, !.loading = FALSE] ELSE query
  BY DEF Hooks!Query!Settle
<1>2. /\ run \in [Queries -> [input : Inputs, phase : {"idle", "running"},
                           aborted : BOOLEAN, stray : BOOLEAN]]
      /\ query \in [data : Queries \cup {None}, loading : BOOLEAN, error : Queries \cup {None}]
  BY DEF QueryInv, QueryTypes, Hooks!Query!TypeOK
<1>3. /\ run' \in [Queries -> [input : Inputs, phase : {"idle", "running"},
                           aborted : BOOLEAN, stray : BOOLEAN]]
      /\ query' \in [data : Queries \cup {None}, loading : BOOLEAN, error : Queries \cup {None}]
      /\ \A q \in Queries : /\ run'[q].input = run[q].input /\ run'[q].stray = run[q].stray
                            /\ run'[q].aborted = run[q].aborted
                            /\ run'[q].phase = IF q = r THEN "idle" ELSE run[q].phase
  BY <1>1, <1>2
<1>4. QueryTypes'
  BY <1>1, <1>3 DEF QueryInv, QueryTypes, Hooks!Query!TypeOK, Hooks!Query!Down
<1>5. LiveIsAborted'
  BY <1>1, <1>3 DEF QueryInv, LiveIsAborted, Live, Hooks!Query!Running
<1>6. CASE Hooks!Query!MayWrite(r)
  <2>1. Live(r)
    BY <1>1, <1>6 DEF Live, Hooks!Query!MayWrite
  <2>2. \A q \in Queries : ~Live(q)'
    BY <1>3, <2>1 DEF QueryInv, LiveIsAborted, Live, Hooks!Query!Running
  <2>3. query'.loading = FALSE /\ query'[field] = r /\ (field = "data" => query'.error = None)
    BY <1>1, <1>2, <1>6, <2>1 DEF QueryInv, LiveWillShow
  <2>4. queryEffect = props /\ props.enabled => Hooks!Query!Shows(r)'
    BY <1>1, <1>3, <2>1 DEF QueryInv, LiveWillShow, Hooks!Query!Shows
  <2>5. Hooks!Query!ShowsPresent'
    BY <1>1, <2>3, <2>4, HooksAssumption DEF Hooks!Query!ShowsPresent, Hooks!Query!Settled
  <2>6. Hooks!Query!LoadingExact'
    BY <2>2, <2>3 DEF Hooks!Query!LoadingExact, Hooks!Query!MayWrite, Live
  <2> QED BY <1>4, <1>5, <2>2, <2>5, <2>6 DEF QueryInv, LiveWillShow
<1>7. CASE ~Hooks!Query!MayWrite(r)
  <2>1. query' = query /\ \A q \in Queries : Live(q)' <=> Live(q)
    BY <1>1, <1>3, <1>7
    DEF QueryInv, LiveIsAborted, Live, Hooks!Query!Running, Hooks!Query!MayWrite
  <2>2. \A q \in Queries : Hooks!Query!Shows(q)' <=> Hooks!Query!Shows(q)
    BY <1>1, <1>3 DEF Hooks!Query!Shows
  <2>3. LiveWillShow'
    BY <1>1, <2>1, <2>2 DEF QueryInv, LiveWillShow
  <2>4. Hooks!Query!ShowsPresent'
    <3>1. Hooks!Query!Shows(query.error)' <=> Hooks!Query!Shows(query.error)
      BY <1>1, <1>2, <2>1, <2>2 DEF Hooks!Query!Shows
    <3>2. Hooks!Query!Shows(query.data)' <=> Hooks!Query!Shows(query.data)
      BY <1>1, <1>2, <2>1, <2>2 DEF Hooks!Query!Shows
    <3>3. Hooks!Query!ShowsPresent
      BY DEF QueryInv
    <3>4. Hooks!Query!Settled' <=> Hooks!Query!Settled
      BY <1>1, <2>1 DEF Hooks!Query!Settled
    <3> QED
      BY <1>1, <2>1, <3>1, <3>2, <3>3, <3>4 DEF Hooks!Query!ShowsPresent
  <2>5. Hooks!Query!LoadingExact'
    <3>1. \A q \in Queries : (Hooks!Query!Running(q) /\ Hooks!Query!MayWrite(q))'
                             <=> Hooks!Query!Running(q) /\ Hooks!Query!MayWrite(q)
      BY <1>1, <1>3, <1>7 DEF Hooks!Query!Running, Hooks!Query!MayWrite
    <3>2. Hooks!Query!LoadingExact
      BY DEF QueryInv
    <3> QED BY <1>1, <2>1, <3>1, <3>2 DEF Hooks!Query!LoadingExact
  <2> QED BY <1>4, <1>5, <2>3, <2>4, <2>5 DEF QueryInv
<1> QED BY <1>6, <1>7

LEMMA QueryStep == QueryInv /\ Hooks!Query!Next => QueryInv'
  BY RenderKeeps, EffectsKeep, HideKeeps, RefetchKeeps, QuerySettleKeeps DEF Hooks!Query!Next

(***************************************************************************)
(* useEvent: what a run has asked for or holds is registered.              *)
(***************************************************************************)
EventInv ==
  /\ Hooks!Event!TypeOK /\ Hooks!Event!DeliveredOnce
  /\ \A r \in Subscriptions : result[r] = "asked" => r \in emitter

LEMMA EventFirst == Hooks!Event!Init => EventInv
  BY HooksAssumption
  DEF EventInv, Hooks!Event!Init, Hooks!Event!TypeOK, Hooks!Event!DeliveredOnce

LEMMA EventStep == EventInv /\ Hooks!Event!Next => EventInv'
<1> USE HooksAssumption
    DEF EventInv, Hooks!Event!TypeOK, Hooks!Event!DeliveredOnce, Hooks!Event!Unsubscribed
<1>1. ASSUME EventInv, NEW r \in Subscriptions, Hooks!Event!Subscribe(r)
      PROVE  EventInv'
  BY <1>1 DEF Hooks!Event!Subscribe
<1>2. ASSUME EventInv, NEW r \in Subscriptions, Hooks!Event!Fulfilled(r)
      PROVE  EventInv'
  BY <1>2 DEF Hooks!Event!Fulfilled
<1>3. ASSUME EventInv, NEW r \in Subscriptions, Hooks!Event!Rejected(r)
      PROVE  EventInv'
  BY <1>3 DEF Hooks!Event!Rejected
<1>4. ASSUME EventInv, Hooks!Event!Cleanup
      PROVE  EventInv'
  BY <1>4 DEF Hooks!Event!Cleanup
<1> QED BY <1>1, <1>2, <1>3, <1>4 DEF Hooks!Event!Next

(***************************************************************************)
(* The bindings together.                                                  *)
(***************************************************************************)
HookInv ==
  /\ part = "cache" => CacheInv
  /\ part = "mutation" => MutationInv
  /\ part = "query" => QueryInv
  /\ part = "event" => EventInv

LEMMA HooksFirst == ClientInit => HookInv
<1> SUFFICES ASSUME ClientInit PROVE HookInv
  OBVIOUS
<1>1. Hooks!Init
  BY DEF ClientInit
<1>2. part = "cache" => CacheInv
  BY <1>1, CacheFirst DEF Hooks!Init
<1>3. part = "mutation" => MutationInv
  BY <1>1, MutationFirst DEF Hooks!Init
<1>4. part = "query" => QueryInv
  BY <1>1, QueryFirst DEF Hooks!Init
<1>5. part = "event" => EventInv
  BY <1>1, EventFirst DEF Hooks!Init
<1> QED BY <1>2, <1>3, <1>4, <1>5 DEF HookInv

LEMMA CacheKept == CacheInv /\ UNCHANGED hookVars => CacheInv'
  BY DEF hookVars, CacheInv, CacheTypes, MapOrdered, MapSmall, OneOfKey, DeadlineRuns, InMap,
     Hooks!Cache!TimersOwn, Hooks!Cache!RealOutcomeLands, Hooks!Cache!Cached, Hooks!Cache!Pending

LEMMA MutationKept == MutationInv /\ UNCHANGED hookVars => MutationInv'
  BY DEF hookVars, MutationInv, Hooks!Mutation!TypeOK, Hooks!Mutation!NothingStale, CallsTold,
     LatestOwn, HiddenOnce, NewestShown, Newest, Counted, Awaited, Awaits

LEMMA QueryKept == QueryInv /\ UNCHANGED hookVars => QueryInv'
  BY DEF hookVars, QueryInv, QueryTypes, Hooks!Query!TypeOK, LiveIsAborted, LiveWillShow, Live,
     Hooks!Query!Running, Hooks!Query!Shows, Hooks!Query!ShowsPresent, Hooks!Query!Settled,
     Hooks!Query!LoadingExact, Hooks!Query!MayWrite, Hooks!Query!Props, Hooks!Query!Down

LEMMA EventKept == EventInv /\ UNCHANGED hookVars => EventInv'
  BY DEF hookVars, EventInv, Hooks!Event!TypeOK, Hooks!Event!DeliveredOnce

LEMMA HooksKept == HookInv /\ UNCHANGED <<part, hookVars>> => HookInv'
  BY CacheKept, MutationKept, QueryKept, EventKept DEF HookInv

LEMMA HooksNext ==
  HookInv /\ Hooks!Next => HookInv' /\ (part = "cache" => EntriesMove)
<1> SUFFICES ASSUME HookInv, Hooks!Next PROVE HookInv' /\ (part = "cache" => EntriesMove)
  OBVIOUS
<1>1. CASE Hooks!CacheNext
  <2>1. part = "cache" /\ part' = part /\ Hooks!Cache!Next
    BY <1>1 DEF Hooks!CacheNext, Hooks!AtCache
  <2> QED BY <2>1, CacheStep DEF HookInv
<1>2. CASE Hooks!MutationNext
  <2>1. part = "mutation" /\ part' = part /\ Hooks!Mutation!Next
    BY <1>2 DEF Hooks!MutationNext
  <2> QED BY <2>1, MutationStep DEF HookInv
<1>3. CASE Hooks!QueryNext
  <2>1. part = "query" /\ part' = part /\ Hooks!Query!Next
    BY <1>3 DEF Hooks!QueryNext
  <2> QED BY <2>1, QueryStep DEF HookInv
<1>4. CASE Hooks!EventNext
  <2>1. part = "event" /\ part' = part /\ Hooks!Event!Next
    BY <1>4 DEF Hooks!EventNext, Hooks!AtEvent
  <2> QED BY <2>1, EventStep DEF HookInv
<1> QED BY <1>1, <1>2, <1>3, <1>4 DEF Hooks!Next

ClientNext == (AtOptions /\ Next) \/ (AtFrames /\ Frames!Next) \/ (AtHooks /\ Hooks!Next)

LEMMA HooksStep == HookInv /\ [ClientNext]_all => HookInv'
<1> SUFFICES ASSUME HookInv, [ClientNext]_all PROVE HookInv'
  OBVIOUS
<1>1. UNCHANGED <<part, hookVars>> \/ Hooks!Next
  BY DEF ClientNext, AtOptions, AtFrames, AtHooks, all
<1> QED BY <1>1, HooksKept, HooksNext

LEMMA HooksInvariance == ClientSpec => []HookInv
<1>1. ClientSpec => ClientInit /\ [][ClientNext]_all
  BY DEF ClientSpec, ClientNext
<1> QED BY <1>1, HooksFirst, HooksStep, PTL

\* Of the bindings of packages/react: the Suspense cache stays within its bound, keeps
\* one record of a key with the timer that will end it, and shows the real outcome of a
\* call however late it came; useMutation shows the outcome of the call made last and
\* loads while one may change it; useCommand has one live run and shows the input on
\* view; an event reaches the subscriber on view and no other. For every number of keys,
\* calls, runs and subscriptions, every order of renders, effects, answers and timers
\* (suspense-cache.ts, useMutation.ts, useCommand.ts, useEvent.ts).
THEOREM HooksAreSound == ClientSpec => []HooksSound
<1>1. ASSUME HookInv PROVE HooksSound
  <2>1. part = "cache" => Hooks!Cache!TypeOK /\ Hooks!Cache!Bounded
                          /\ Hooks!Cache!TimersOwn /\ Hooks!Cache!RealOutcomeLands
    BY <1>1, CacheTypesAre, MapIsBounded DEF HookInv, CacheInv
  <2>2. part = "mutation" => Hooks!Mutation!TypeOK /\ Hooks!Mutation!NothingStale
                             /\ Hooks!Mutation!LatestWins /\ Hooks!Mutation!LoadingExact
    BY <1>1, MutationImplies DEF HookInv, MutationInv
  <2>3. part = "query" => Hooks!Query!TypeOK /\ Hooks!Query!OneLiveRun
                          /\ Hooks!Query!ShowsPresent /\ Hooks!Query!LoadingExact
    BY <1>1, OneLive DEF HookInv, QueryInv, QueryTypes
  <2>4. part = "event" => Hooks!Event!TypeOK /\ Hooks!Event!DeliveredOnce
    BY <1>1 DEF HookInv, EventInv
  <2> QED BY <2>1, <2>2, <2>3, <2>4
      DEF HooksSound, Hooks!HooksSound, Hooks!CacheSound, Hooks!MutationShowsLast,
          Hooks!QueryShowsPresent, Hooks!EventsOnce
<1> QED BY <1>1, HooksInvariance, PTL

\* What left the Suspense cache with its call under way does not come back with the
\* answer, and a pending record leaves only together with its whole command: neither a
\* full cache nor the expiry of another record of its key pushes it out
\* (suspense-cache.ts).
THEOREM EntriesLeaveForGood == ClientSpec => EntriesLeaveOnce
<1> DEFINE Moves == part = "cache" => Hooks!Cache!NeverRepopulates /\ Hooks!Cache!PendingKept
<1>1. ASSUME HookInv, [ClientNext]_all
      PROVE  [Moves]_(Hooks!vars)
  <2>1. CASE UNCHANGED <<part, hookVars>>
    BY <2>1 DEF hookVars, Hooks!vars, Hooks!cacheVars, Hooks!mutationVars, Hooks!queryVars,
       Hooks!eventVars
  <2>2. CASE Hooks!Next
    BY <1>1, <2>2, HooksNext DEF EntriesMove
  <2> QED BY <1>1, <2>1, <2>2 DEF ClientNext, AtOptions, AtFrames, AtHooks, all
<1> HIDE DEF Moves
<1>2. ClientSpec => [][ClientNext]_all
  BY DEF ClientSpec, ClientNext
<1>3. ClientSpec => [][Moves]_(Hooks!vars)
  BY <1>1, <1>2, HooksInvariance, PTL
<1> QED BY <1>3 DEF Moves, EntriesLeaveOnce, Hooks!EntriesLeaveOnce
==============================================================================
