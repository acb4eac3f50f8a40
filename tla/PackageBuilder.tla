---------------------------- MODULE PackageBuilder ----------------------------
(***************************************************************************)
(* How a package's command ids come about (crates/rustra/src):             *)
(*   builder_commands.rs      command: the next id, in registration order  *)
(*   builder_capabilities.rs  alias_command_id: an id an older client has  *)
(*   builder_build.rs         build: merge the aliases, displace the       *)
(*                            commands that sit on one, build the id table *)
(*                                                                         *)
(* The builder is owned by one caller; `build' is cut into the validation  *)
(* with the merge, one step per alias of the displacement loop, and the    *)
(* table, so that the loop invariant is an invariant of the specification. *)
(* Ids are u16 in the code and 0..MaxId here.                              *)
(***************************************************************************)
EXTENDS PackageIds, Sequences, FiniteSets

NoId == -1     \* of a name that is not registered

VARIABLES
  debug,     \* the build profile: overflow and debug_assert panic in a debug build
  phase,     \* "open", then "merged" while the loop runs, "built" or "panicked"
  idOf,      \* the command_id of each registered command
  next,      \* next_command_id
  aliases,   \* id_aliases, in declaration order
  done,      \* how many aliases the displacement loop has been through
  route,     \* id_to_name as `build' leaves it
  wrapped    \* history: some increment of next_command_id wrapped around

vars == <<debug, phase, idOf, next, aliases, done, route, wrapped>>

Registered    == {n \in Names : idOf[n] # NoId}
AliasIds      == {aliases[k].id : k \in DOMAIN aliases}
AliasTargets  == {aliases[k].name : k \in DOMAIN aliases}
AliasFor(i)   == {n \in Names : \E k \in DOMAIN aliases : aliases[k] = [name |-> n, id |-> i]}
OwnersOf(i)   == {n \in Registered : idOf[n] = i}

Init ==
  /\ debug \in BOOLEAN
  /\ phase = "open"
  /\ idOf = [n \in Names |-> NoId]
  /\ next = 1
  /\ aliases = << >>
  /\ done = 0
  /\ route = [i \in Ids |-> NoName]
  /\ wrapped = FALSE

(* A debug build stops where a release build wraps. *)
Panic == phase' = "panicked" /\ UNCHANGED <<debug, idOf, next, aliases, done, route, wrapped>>

TakeNext ==
  /\ next' = IF next = MaxId THEN 0 ELSE next + 1
  /\ wrapped' = (wrapped \/ next = MaxId)

-----------------------------------------------------------------------------
Command(n) ==
  /\ phase = "open"
  /\ IF n \in Registered \/ (debug /\ next = MaxId)
       THEN Panic
       ELSE /\ idOf' = [idOf EXCEPT ![n] = next]
            /\ TakeNext
            /\ UNCHANGED <<debug, phase, aliases, done, route>>

(* Mutant: an id an alias already has can be declared again. *)
MutAliasClash(n, i) == n \in Registered /\ OwnersOf(i) \ {n} # {}

(* What alias_command_id refuses on the spot. *)
AliasClash(n, i) ==
  \/ i \in AliasIds
  \/ n \in Registered /\ OwnersOf(i) \ {n} # {}

AliasCommandId(n, i) ==
  /\ phase = "open"
  /\ IF AliasClash(n, i)
       THEN Panic
       ELSE /\ aliases' = Append(aliases, [name |-> n, id |-> i])
            /\ UNCHANGED <<debug, phase, idOf, next, done, route, wrapped>>

(* Mutant: fresh ids start where the registrations stopped. *)
MutMovePastAliases == UNCHANGED next

(* next_command_id.max(max_alias.saturating_add(1)) *)
MovePastAliases ==
  \/ AliasIds = {} /\ UNCHANGED next
  \/ \E top \in AliasIds :
       /\ \A i \in AliasIds : i <= top
       /\ next' = IF top < next THEN next ELSE IF top = MaxId THEN MaxId ELSE top + 1

BuildMerge ==
  /\ phase = "open"
  /\ IF AliasTargets \subseteq Registered
       THEN /\ phase' = "merged"
            /\ MovePastAliases
            /\ UNCHANGED <<debug, idOf, aliases, done, route, wrapped>>
       ELSE Panic

(* Mutant: the occupant moves to next_command_id, which stays where it is. *)
MutDisplace ==
  /\ phase = "merged" /\ done < Len(aliases)
  /\ LET alias     == aliases[done + 1]
         occupants == OwnersOf(alias.id) \ {alias.name}
     IN  IF occupants = {} THEN UNCHANGED idOf
         ELSE \E n \in occupants : idOf' = [idOf EXCEPT ![n] = next]
  /\ done' = done + 1
  /\ UNCHANGED <<debug, phase, next, aliases, route, wrapped>>

(* One round of the displacement loop. *)
Displace ==
  /\ phase = "merged" /\ done < Len(aliases)
  /\ LET alias     == aliases[done + 1]
         occupants == OwnersOf(alias.id) \ {alias.name}
     IN  \/ /\ occupants = {}
            /\ done' = done + 1
            /\ UNCHANGED <<debug, phase, idOf, next, aliases, route, wrapped>>
         \/ /\ occupants # {}
            /\ debug /\ next = MaxId
            /\ Panic
         \/ /\ ~(debug /\ next = MaxId)
            /\ \E n \in occupants : idOf' = [idOf EXCEPT ![n] = next]
            /\ TakeNext
            /\ done' = done + 1
            /\ UNCHANGED <<debug, phase, aliases, route>>

(* The tripwire: debug_assert!(every alias resolves to its command). *)
AliasesServed(r) == \A k \in DOMAIN aliases : r[aliases[k].id] = aliases[k].name

(* The id table: the aliases, and over them the real ids.  When two commands  *)
(* hold one id (only after a wrap) the code lets the later name win; here     *)
(* either may.                                                                *)
BuildTable ==
  /\ phase = "merged" /\ done = Len(aliases)
  /\ \E r \in [Ids -> Names \cup {NoName}] :
       /\ \A i \in Ids : r[i] \in IF OwnersOf(i) # {} THEN OwnersOf(i)
                                  ELSE IF AliasFor(i) # {} THEN AliasFor(i)
                                  ELSE {NoName}
       /\ IF debug /\ ~AliasesServed(r)
            THEN Panic
            ELSE /\ phase' = "built"
                 /\ route' = r
                 /\ UNCHANGED <<debug, idOf, next, aliases, done, wrapped>>

Next ==
  \/ \E n \in Names : Command(n)
  \/ \E n \in Names, i \in Ids : AliasCommandId(n, i)
  \/ BuildMerge
  \/ Displace
  \/ BuildTable

Spec == Init /\ [][Next]_vars

-----------------------------------------------------------------------------
(* The states of every variable. *)
TypeOK ==
  /\ debug \in BOOLEAN
  /\ phase \in {"open", "merged", "built", "panicked"}
  /\ idOf \in [Names -> Ids \cup {NoId}]
  /\ next \in Ids
  /\ aliases \in Seq([name : Names, id : Ids])
  /\ done \in Nat
  /\ route \in [Ids -> Names \cup {NoName}]
  /\ wrapped \in BOOLEAN

(* Every id an older client may send reaches the command it was issued for,  *)
(* whatever commands were added or dropped since: the displacement of        *)
(* builder_build.rs:43-60 and the order in which next_command_id is moved.   *)
AliasesResolve == phase = "built" /\ ~wrapped => AliasesServed(route)

(* Every registered command is reachable under the id its schema publishes;  *)
(* a displaced command included.                                             *)
RealIdsResolve ==
  phase = "built" /\ ~wrapped => \A n \in Registered : route[idOf[n]] = n

(* No later registration can be given an id that is in use: next_command_id  *)
(* is past every routed id, or at the sentinel `register' refuses.           *)
NextIdFresh ==
  phase = "built" /\ ~wrapped =>
    next = MaxId \/ \A i \in Ids : route[i] # NoName => i < next

(* No id leads to a name nobody registered.                                  *)
RoutesLive ==
  phase = "built" /\ ~wrapped => \A i \in Ids : route[i] \in Registered \cup {NoName}

(* What a build owes the clients of all versions of a package.               *)
Served == AliasesResolve /\ RealIdsResolve /\ NextIdFresh /\ RoutesLive
===============================================================================
