------------------------------ MODULE PackageIds ------------------------------
(* The names and the command ids of a package. *)
EXTENDS Integers

CONSTANTS
  Names,       \* command names
  NoName,      \* an id that routes nowhere
  MaxId        \* u16::MAX, the id kept as the "exhausted" sentinel

Ids == 0..MaxId

ASSUME NamesAssumption == NoName \notin Names
ASSUME MaxIdAssumption == MaxId \in Nat \ {0}
===============================================================================
