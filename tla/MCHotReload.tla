------------------------------ MODULE MCHotReload ------------------------------
(* Small instances of HotReload: two cores and a file that does not open; two *)
(* contents with different contracts, and one that cargo metadata refuses.    *)
EXTENDS HotReload, TLC

CONSTANTS a, c, broken, s1, s2

MCContract == a :> s1 @@ c :> s2 @@ broken :> s1
================================================================================
