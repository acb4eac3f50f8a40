------------------------------ MODULE MCClientSide ------------------------------
(* Small instances of ClientSide: two retries; a call within a call, one      *)
(* generated command and one that only the registry knows; two commands of    *)
(* the cache, one of them with two keys.                                      *)
EXTENDS ClientSide, TLC

CONSTANTS k1, k2, k3, d1, d2

MCKeys == {k1, k2, k3}
MCCommandOf == (k1 :> d1) @@ (k2 :> d1) @@ (k3 :> d2)
================================================================================
