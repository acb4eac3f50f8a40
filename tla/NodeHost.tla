-------------------------------- MODULE NodeHost --------------------------------
(***************************************************************************)
(* The two layers of the Node adapter: the bootstrap, which owns transports *)
(* (NodeBootstrap), and the transport over a process (NodeLoop).  The      *)
(* bootstrap opens and closes a transport and awaits an answer that comes  *)
(* or fails, the transport knows nothing of who opened it; so a behaviour  *)
(* is that of one of them, chosen at the start (`part').                   *)
(***************************************************************************)
EXTENDS NodeBootstrap

CONSTANTS Requests, ChannelRequests, Hello, NoRequest, MaxProcs   \* of NodeLoop

ASSUME RequestsAssumption ==
  /\ IsFiniteSet(Requests) /\ ChannelRequests \subseteq Requests
  /\ Hello \notin Requests /\ NoRequest \notin Requests /\ Hello # NoRequest
ASSUME MaxProcsAssumption == MaxProcs \in Nat \ {0}

VARIABLES
  part,
  codecs, child, disposed, mode, handshake, waiting, pending, binQueue, fate, answer,
  status, killed, speaks, queued, stdin, stdout                   \* of NodeLoop

loopVars == <<codecs, child, disposed, mode, handshake, waiting, pending, binQueue, fate, answer,
              status, killed, speaks, queued, stdin, stdout>>

Loop == INSTANCE NodeLoop

all == <<part, vars, loopVars>>

AtBootstrap == part = "bootstrap" /\ UNCHANGED <<part, loopVars>>
AtLoop == part = "loop" /\ UNCHANGED <<part, vars>>

(* Of the part that does not run, one first state stands for all. *)
NodeInit ==
  /\ part \in {"bootstrap", "loop"} /\ Init /\ Loop!Init
  /\ part = "loop" => ~custom /\ ~persistent
  /\ part = "bootstrap" => ~codecs

NodeSpec == NodeInit /\ [][(AtBootstrap /\ Next) \/ (AtLoop /\ Loop!Next)]_all

(* The probes of a bootstrap are bounded by readinessTimeoutMs, its drain by  *)
(* its timeout; that createTransport() settles is up to who passes it.  The   *)
(* event loop delivers, the runtime reads and answers, a killed process ends. *)
(* Nothing makes a caller invoke, dispose or reload, or a process crash.      *)
NodeFairness ==
  /\ \A n \in Runs : WF_all(AtBootstrap /\ Run(n))
  /\ WF_all(AtBootstrap /\ (ReloadFails \/ ReloadRestarts))
  /\ \A p \in Loop!Procs :
       /\ WF_all(AtLoop /\ Loop!Data(p)) /\ WF_all(AtLoop /\ Loop!Events(p))
       /\ WF_all(AtLoop /\ Loop!Runtime(p)) /\ WF_all(AtLoop /\ Loop!Flush(p))
       /\ WF_all(AtLoop /\ killed[p] /\ Loop!Die(p))

NodeFairSpec == NodeSpec /\ NodeFairness

-----------------------------------------------------------------------------
(* Both ends of the pipes agree on what lies between them, and everybody who  *)
(* waits is remembered, whatever dies (node-loop.ts, node-binary-session.ts). *)
TransportSound == Loop!TransportSound

(* Every invoke is settled once, and with its own answer (RequestReply).      *)
ImplementsRequestReply == Loop!ImplementsRequestReply

(* Whoever waits for the adapter comes back: ready() and reload(), through     *)
(* disposals and replacements, and every invoke, through crashes and respawns. *)
NodeSettles == CallersSettle /\ Loop!RequestsSettle
================================================================================
