------------------------------ MODULE PackageLife ------------------------------
(***************************************************************************)
(* A package from its builder to its registry: PackageBuilder::build hands *)
(* the commands, the id table with the aliases of older clients and        *)
(* next_command_id over to the RegistryState of the package, and from then *)
(* on threads use it.  A debug build hands over a mutable registry, a      *)
(* release build one that is frozen from birth.                            *)
(*                                                                         *)
(* `build' is the build the registry of this behaviour starts from: the    *)
(* registry does nothing until the builder has produced just that.         *)
(***************************************************************************)
EXTENDS CommandRegistry, Sequences

CONSTANT BuilderNames    \* the commands and alias targets the builder hears of

ASSUME BuilderAssumption == Names \subseteq BuilderNames /\ NoName \notin BuilderNames

VARIABLES
  build,                                           \* of the registry
  debug, phase, idOf, next, aliases, done, route, wrapped  \* of the builder

builderVars == <<debug, phase, idOf, next, aliases, done, route, wrapped>>

Builder == INSTANCE PackageBuilder WITH Names <- BuilderNames

LifeInit ==
  /\ Builder!Init
  /\ Init /\ frozen = ~debug
  /\ build \in Builds
  /\ build.commands = commands /\ build.route = idToName /\ build.next = nextId

(* What build() returns is what the registry starts from.  Several orders of *)
(* declarations lead to one build; the registry is given one of them.        *)
Delivers(b) ==
  /\ phase = "built" /\ ~wrapped /\ aliases = b.aliases
  /\ Builder!Registered = {n \in Names : b.commands[n] # NoCommand}
  /\ \A n \in Builder!Registered : b.commands[n].id = idOf[n]
  /\ b.route = route /\ b.next = next

Building == Builder!Next /\ UNCHANGED <<vars, build>>

Serving == Delivers(build) /\ Next /\ UNCHANGED <<builderVars, build>>

LifeSpec == LifeInit /\ [][Building \/ Serving]_<<vars, build, builderVars>>

-----------------------------------------------------------------------------
(* What a build owes the clients of all versions of a package: every alias   *)
(* and every published id reach their command, and no later registration is  *)
(* given an id in use (builder_build.rs:41-78).                              *)
Served == Builder!Served
================================================================================
