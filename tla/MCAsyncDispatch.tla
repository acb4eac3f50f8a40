--------------------------- MODULE MCAsyncDispatch ---------------------------
(***************************************************************************)
(* A small instance of AsyncDispatch: one call may hang in its handler for *)
(* ever, the other goes through the caller-buffer entry without a callback *)
(* and asks for more than the smaller of the two limits.  Over two workers *)
(* and a channel of one place a call is refused while another waits, and   *)
(* one waits while another runs.                                           *)
(***************************************************************************)
EXTENDS AsyncDispatch

CONSTANTS c1, c2, Hanging

MCPayloadSize == [c \in Calls |-> IF c = c2 THEN 2 ELSE 1]

FairSpec == Spec /\ Fairness(Hanging)

(* Whatever call hangs, every other one is settled, and a pool that is       *)
(* dropped does every accepted job and loses its workers but for the one the *)
(* hanging handler keeps.                                                    *)
CallsAndPoolEnd == EveryCallSettled(Hanging) /\ PoolEnds(Hanging)
==============================================================================
