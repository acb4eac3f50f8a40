------------------------------ MODULE MCHostEvents ------------------------------
(* Small instances of HostEvents: two registrations of different owners, the  *)
(* first through the scriptc entry, which is the one that can be released;    *)
(* two adapters, two subscriptions and three chains of ticks.                 *)
EXTENDS HostEvents, TLC

CONSTANTS s1, s2

MCIdentity == s1 :> "first owner" @@ s2 :> "second owner"
================================================================================
