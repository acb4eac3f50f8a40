------------------------------- MODULE MCDevLoop -------------------------------
(* Small instances of DevLoop: two contents with different contracts, and one *)
(* that cargo metadata refuses.                                               *)
EXTENDS DevLoop, TLC

CONSTANTS a, c, broken, s1, s2

MCContract == a :> s1 @@ c :> s2 @@ broken :> s1
================================================================================
