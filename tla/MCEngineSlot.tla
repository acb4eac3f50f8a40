---------------------------- MODULE MCEngineSlot ----------------------------
(***************************************************************************)
(* A small instance of EngineSlot: two bootstraps and an explicit engine   *)
(* compete for the slot while two generated functions are called.          *)
(***************************************************************************)
EXTENDS EngineSlot
==============================================================================
