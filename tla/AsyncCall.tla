------------------------------ MODULE AsyncCall ------------------------------
(***************************************************************************)
(* What the asynchronous FFI entries promise their host about one call,    *)
(* whatever pool, queue or thread carries it out:                          *)
(*   - a call is settled exactly once, with exactly one result;            *)
(*   - a result of the handler is reported only when the handler ran, and  *)
(*     "cancelled" only when a cancellation was acknowledged before the    *)
(*     handler was dispatched;                                             *)
(*   - a cancellation acknowledged before the dispatch means that the      *)
(*     handler never runs.                                                 *)
(* AsyncDispatch.tla is the detailed specification that implements it.     *)
(***************************************************************************)
CONSTANT Calls

VARIABLES
  phase,   \* "idle", "open" once the entry has issued an id, then "settled"
  ran,     \* has the handler been dispatched
  ack,     \* what the host's successful cancel, if any, came before or after
  result   \* the result handed to the host, "none" until then

vars == <<phase, ran, ack, result>>

Acks     == {"none", "early", "late"}
HandlerResults == {"ok", "error"}
RefusalResults == {"backpressure", "too_large"}
Results  == HandlerResults \cup RefusalResults \cup {"cancelled"}

Init ==
  /\ phase  = [c \in Calls |-> "idle"]
  /\ ran    = [c \in Calls |-> FALSE]
  /\ ack    = [c \in Calls |-> "none"]
  /\ result = [c \in Calls |-> "none"]

Open(c) ==
  /\ phase[c] = "idle"
  /\ phase' = [phase EXCEPT ![c] = "open"]
  /\ UNCHANGED <<ran, ack, result>>

Cancel(c) ==
  /\ phase[c] = "open" /\ ack[c] = "none"
  /\ ack' = [ack EXCEPT ![c] = IF ran[c] THEN "late" ELSE "early"]
  /\ UNCHANGED <<phase, ran, result>>

Run(c) ==
  /\ phase[c] = "open" /\ ~ran[c] /\ ack[c] = "none"
  /\ ran' = [ran EXCEPT ![c] = TRUE]
  /\ UNCHANGED <<phase, ack, result>>

Allowed(c) ==
  IF ran[c] THEN HandlerResults
  ELSE RefusalResults \cup (IF ack[c] = "early" THEN {"cancelled"} ELSE {})

Settle(c) ==
  /\ phase[c] = "open"
  /\ phase' = [phase EXCEPT ![c] = "settled"]
  /\ \E r \in Allowed(c) : result' = [result EXCEPT ![c] = r]
  /\ UNCHANGED <<ran, ack>>

Next == \E c \in Calls : Open(c) \/ Cancel(c) \/ Run(c) \/ Settle(c)

Spec == Init /\ [][Next]_vars
==============================================================================
