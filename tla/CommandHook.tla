------------------------------- MODULE CommandHook -------------------------------
(***************************************************************************)
(* One mounted useCommand (packages/react/src/useCommand.ts).  An execute  *)
(* function belongs to an engine, a command and an input, here its input;  *)
(* it aborts the run before it and starts a run of a new generation.  The  *)
(* effect runs it for every new execute function while the hook is         *)
(* enabled, and its cleanup ends the generation and aborts.  A component   *)
(* calls refetch, that of a render gone by too if it kept it.              *)
(*                                                                         *)
(* generationRef is compared for equality only: `current` is the run that  *)
(* drew its value, or None once a cleanup has moved it on.                 *)
(***************************************************************************)
EXTENDS Integers, FiniteSets

CONSTANTS
  Inputs,   \* what execute depends on: engine, command and stable input
  Runs,     \* bound: runs under way, aborted or shown
  None

VARIABLES
  props,     \* input and enabled of the committed render
  effect,    \* the props its effects last ran for; Down when they are not up
  hidden,    \* React keeps the effects down until it shows the tree
  current,   \* the run of generationRef
  aborter,   \* the run whose controller is in abortControllerRef
  run,       \* `stray`: not for the input on view when it was started
  shown      \* data, loading, error

Props == [input : Inputs, enabled : BOOLEAN]
Down == [input |-> None, enabled |-> FALSE]
Started(i, phase) ==
  [input |-> i, phase |-> phase, aborted |-> FALSE, stray |-> i # props.input]

Init ==
  /\ props \in Props
  /\ effect = Down /\ hidden \in BOOLEAN
  /\ current = None /\ aborter = None
  /\ run = [r \in Runs |-> Started(props.input, "idle")]
  /\ shown = [data |-> None, loading |-> props.enabled, error |-> None]

-----------------------------------------------------------------------------
Running(r) == run[r].phase = "running"
InUse(r) == Running(r) \/ r \in {current, aborter, shown.data, shown.error}

Aborted == IF aborter = None THEN run ELSE [run EXCEPT ![aborter].aborted = TRUE]

MutExecute(i) ==   \* the run before goes on
  LET r == CHOOSE q \in Runs : ~InUse(q)
  IN  /\ \E q \in Runs : ~InUse(q)
      /\ run' = [run EXCEPT ![r] = Started(i, "running")]
      /\ current' = r /\ aborter' = r
      /\ shown' = [shown EXCEPT !.loading = TRUE, !.error = None]
Execute(i) ==
  LET r == CHOOSE q \in Runs : ~InUse(q)
  IN  /\ \E q \in Runs : ~InUse(q)
      /\ run' = [Aborted EXCEPT ![r] = Started(i, "running")]
      /\ current' = r /\ aborter' = r
      /\ shown' = [shown EXCEPT !.loading = TRUE, !.error = None]

(* A render with other props commits; effects of the render before have run. *)
Render(p) ==
  /\ effect = props \/ hidden
  /\ props' = p /\ p # props
  /\ UNCHANGED <<effect, hidden, current, aborter, run, shown>>

(* The cleanup of an enabled effect; a disabled one returned none. *)
Cleanup == run' = Aborted /\ current' = None

(* The passive effects of the committed render, or of the tree that is shown *)
(* again.  A cleanup and the execute after it abort the same run.            *)
RunEffects ==
  /\ effect # props
  /\ effect' = props /\ hidden' = FALSE
  /\ IF props.enabled
     THEN Execute(props.input)
     ELSE /\ IF effect.enabled THEN Cleanup ELSE UNCHANGED <<run, current>>
          /\ shown' = [shown EXCEPT !.loading = FALSE]
          /\ UNCHANGED aborter
  /\ UNCHANGED props

Hide ==
  /\ effect = props
  /\ effect' = Down /\ hidden' = TRUE
  /\ IF effect.enabled THEN Cleanup ELSE UNCHANGED <<run, current>>
  /\ UNCHANGED <<props, aborter, shown>>

Refetch(i) ==
  /\ Execute(i)
  /\ UNCHANGED <<props, effect, hidden>>

(* A run settles; an aborted one may still settle either way. *)
MayWrite(r) == ~run[r].aborted /\ current = r

Settle(r, field) ==
  /\ Running(r)
  /\ run' = [run EXCEPT ![r].phase = "idle"]
  /\ shown' = IF MayWrite(r) THEN [shown EXCEPT ![field] = r, !.loading = FALSE] ELSE shown
  /\ UNCHANGED <<props, effect, hidden, current, aborter>>

-----------------------------------------------------------------------------
Next ==
  \/ \E p \in Props : Render(p)
  \/ RunEffects \/ Hide
  \/ \E i \in Inputs : Refetch(i)
  \/ \E r \in Runs, field \in {"data", "error"} : Settle(r, field)

-----------------------------------------------------------------------------
TypeOK ==
  /\ props \in Props /\ effect \in Props \cup {Down} /\ hidden \in BOOLEAN
  /\ {current, aborter} \subseteq Runs \cup {None}
  /\ run \in [Runs -> [input : Inputs, phase : {"idle", "running"},
                       aborted : BOOLEAN, stray : BOOLEAN]]
  /\ shown \in [data : Runs \cup {None}, loading : BOOLEAN, error : Runs \cup {None}]

(* The engine serves one run of a hook: whatever else is under way, of an    *)
(* earlier input, an earlier refetch or from before a hide, was aborted.     *)
OneLiveRun == \A r \in Runs : Running(r) /\ ~run[r].aborted => r = current

Settled == effect = props /\ ~shown.loading

(* An enabled hook on view that is not loading shows the outcome of the      *)
(* input on view, or of a stray refetch that was asked for on top of it: no  *)
(* order of renders, hides, aborts and late answers leaves another input's   *)
(* outcome, or none.                                                         *)
Shows(r) == r # None /\ (run[r].stray \/ run[r].input = props.input)
ShowsPresent ==
  props.enabled /\ Settled => IF shown.error # None THEN Shows(shown.error) ELSE Shows(shown.data)

(* An enabled hook is loading exactly while a run may still change what it   *)
(* shows.                                                                    *)
LoadingExact ==
  props.enabled /\ effect = props
    => (shown.loading <=> \E r \in Runs : Running(r) /\ MayWrite(r))
================================================================================
