--------------------------- MODULE MCPackageLife ---------------------------
(* Small instances of PackageLife. *)
EXTENDS PackageLife, TLC

CONSTANTS a, b,            \* the names
          w1,              \* the wire contract of the handlers built in
          k,               \* the capability one of them requires
          MaxGeneration,   \* bound on the number of structural mutations
          MaxAliases       \* bound on the number of declared aliases

Built(i, cap) == [id |-> i, wire |-> w1, cap |-> cap, stamp |-> 0]

(* One command, which requires a capability and which clients of a release in *)
(* which it came second still call 2.                                         *)
Aliased ==
  [commands |-> (a :> Built(1, k) @@ b :> NoCommand),
   route    |-> [i \in Ids |-> IF i \in {1, 2} THEN a ELSE NoName],
   next     |-> 3,
   aliases  |-> <<[name |-> a, id |-> 2]>>]

MCBuilds == {Aliased}

FewChanges == generation <= MaxGeneration /\ Len(aliases) <= MaxAliases

MutatorSymmetry == Permutations(Mutators)
===============================================================================
