------------------------------ MODULE MCNodeHost ------------------------------
(* Small instances of NodeHost: two transports and two runs of a bootstrap;   *)
(* two requests of a transport, the second of which creates a channel.        *)
EXTENDS NodeHost
===============================================================================
