---------------------------- MODULE RequestReply ----------------------------
(***************************************************************************)
(* What a process transport promises about one request, however many       *)
(* processes come and go underneath: it is settled once, by the answer     *)
(* that a runtime gave to this very request, or by an error.  Losing a     *)
(* process settles many requests in one step, so a step lets every request *)
(* take a move of its own.  NodeLoop.tla is the specification that         *)
(* implements it.                                                          *)
(***************************************************************************)
CONSTANTS Requests, NoReply

VARIABLES
  state,   \* "idle", "waiting", then "settled"
  reply    \* whose answer settled the request; NoReply: an error, or none yet

vars == <<state, reply>>

Init ==
  /\ state = [r \in Requests |-> "idle"]
  /\ reply = [r \in Requests |-> NoReply]

Keep(r)   == state'[r] = state[r] /\ reply'[r] = reply[r]
Issue(r)  == state[r] = "idle" /\ state'[r] = "waiting" /\ reply'[r] = NoReply
Answer(r) == state[r] = "waiting" /\ state'[r] = "settled" /\ reply'[r] = r
Fail(r)   == state[r] # "settled" /\ state'[r] = "settled" /\ reply'[r] = NoReply

Next ==
  /\ state' = [r \in Requests |-> state'[r]]
  /\ reply' = [r \in Requests |-> reply'[r]]
  /\ \A r \in Requests : Keep(r) \/ Issue(r) \/ Answer(r) \/ Fail(r)

Spec == Init /\ [][Next]_vars
==============================================================================
