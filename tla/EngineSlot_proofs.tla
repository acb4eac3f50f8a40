-------------------------- MODULE EngineSlot_proofs --------------------------
(***************************************************************************)
(* Proofs about EngineSlot for every set of initializers, engines,         *)
(* initializations and functions, whatever the bound on generations.       *)
(***************************************************************************)
EXTENDS EngineSlot, TLAPS

USE DEF slotVars, promiseVars, callVars

(***************************************************************************)
(* Type correctness.                                                       *)
(***************************************************************************)
LEMMA ResetType ==
  ASSUME generation \in Nat, ResetConfiguredRoutes
  PROVE  /\ generation' \in Nat /\ generation' \in 1..generation' /\ generation' # generation
         /\ generation < generation'
         /\ sharedRoute' \in Routes
  BY DEF ResetConfiguredRoutes, Routes

\* A promise that follows another has one to follow.
FollowsInv == \A p \in Promises : status[p] = "following" => follows[p] \in Promises

LEMMA TypeInit == Init => TypeOK /\ FollowsInv
  <1> SUFFICES ASSUME Init PROVE TypeOK /\ FollowsInv
    OBVIOUS
  <1>1. /\ startedAt \in [Promises -> Nat \cup {-1}]
        /\ routeGeneration \in [Functions -> Nat \cup {-1}]
        /\ generation \in Nat
    BY DEF Init
  <1>2. status \in [Promises -> Statuses] /\ sharedRoute \in Routes /\ FollowsInv
    BY DEF Init, Statuses, Routes, FollowsInv
  <1>3. /\ startedWith \in [Promises -> Initializers \cup {Nothing}]
        /\ follows \in [Promises -> Promises \cup {Nothing}]
        /\ value \in [Promises -> Engines \cup {Nothing}]
        /\ route \in [Functions -> Engines \cup {NoRoute}]
        /\ waits \in [Functions -> Promises \cup {Nothing}]
        /\ sent \in [Functions -> Engines \cup {Nothing}]
    BY DEF Init
  <1> QED BY <1>1, <1>2, <1>3 DEF Init, TypeOK

LEMMA TypeConfigure ==
  ASSUME TypeOK, NEW e \in Given, Configure(e) PROVE TypeOK'
  <1>1. generation \in Nat /\ registration' \in 1..generation' /\ e \in Engines
    BY ResetType DEF TypeOK, Configure, Engines
  <1>2. engine' \in Engines /\ installed' \subseteq Engines
    BY <1>1 DEF TypeOK, Configure
  <1> QED BY <1>1, <1>2, ResetType DEF TypeOK, Configure

LEMMA TypeConfigureLazy ==
  ASSUME TypeOK, NEW i \in Initializers, ConfigureLazy(i) PROVE TypeOK'
  <1>1. generation \in Nat /\ registration' \in 1..generation'
    BY ResetType DEF TypeOK, ConfigureLazy
  <1> QED BY <1>1, ResetType DEF TypeOK, ConfigureLazy

LEMMA TypeRelease ==
  ASSUME TypeOK, NEW token, Release(token) PROVE TypeOK'
  <1>1. generation \in Nat
    BY DEF TypeOK
  <1> QED BY <1>1, ResetType DEF TypeOK, Release

LEMMA TypeSuperseded ==
  ASSUME TypeOK, NEW p \in Promises, Superseded(p), UNCHANGED callVars PROVE TypeOK'
  <1>1. CASE engine # Nothing /\ status' = [status EXCEPT ![p] = "fulfilled"]
             /\ value' = [value EXCEPT ![p] = engine]
             /\ UNCHANGED <<slotVars, startedAt, startedWith, follows>>
    BY <1>1 DEF TypeOK, Statuses
  <1>2. CASE Pending /\ initialization # Nothing
             /\ status' = [status EXCEPT ![p] = "following"]
             /\ follows' = [follows EXCEPT ![p] = initialization]
             /\ UNCHANGED <<slotVars, startedAt, startedWith, value>>
    BY <1>2 DEF TypeOK, Statuses
  <1>3. ASSUME NEW q \in Promises, Pending, Start(q),
               status' = [status EXCEPT ![p] = "following", ![q] = "queued"],
               follows' = [follows EXCEPT ![p] = q],
               UNCHANGED <<engine, initializer, generation, registration, sharedRoute,
                           installed, value>>
        PROVE  TypeOK'
    BY <1>3 DEF TypeOK, Start, Pending, Statuses
  <1>4. CASE status' = [status EXCEPT ![p] = "failed"]
             /\ UNCHANGED <<slotVars, startedAt, startedWith, follows, value>>
    BY <1>4 DEF TypeOK, Statuses
  <1> QED BY <1>1, <1>2, <1>3, <1>4 DEF Superseded

LEMMA TypeInstall ==
  ASSUME TypeOK, NEW p \in Promises, Install(p), UNCHANGED callVars PROVE TypeOK'
  BY DEF TypeOK, Install, ResetConfiguredRoutes, Engines, Statuses, Routes

LEMMA TypeReaction ==
  ASSUME TypeOK, FollowsInv, NEW p \in Promises, Reactions(p) \/ InitializerSettles(p)
  PROVE  TypeOK'
  <1>1. CASE RunInitializer(p)
    BY <1>1 DEF TypeOK, RunInitializer, Statuses
  <1>2. CASE InitializerSettles(p)
    BY <1>2 DEF TypeOK, InitializerSettles, Statuses
  <1>3. CASE Continue(p)
    BY <1>3, TypeInstall, TypeSuperseded DEF Continue
  <1>4. CASE Adopt(p)
    BY <1>4 DEF TypeOK, Adopt, Statuses, FollowsInv
  <1>5. CASE Catch(p)
    BY <1>5 DEF TypeOK, Catch, Statuses
  <1> QED BY <1>1, <1>2, <1>3, <1>4, <1>5 DEF Reactions

\* What InvokeFields leaves of the type invariant, but for the call variables.
LEMMA TypeInvokeFields ==
  ASSUME TypeOK, NEW f \in Functions, InvokeFields(f)
  PROVE  /\ sharedRoute' \in Routes
         /\ sent' \in [Functions -> Engines \cup {Nothing}]
  BY DEF TypeOK, InvokeFields, Goes, Routes

LEMMA TypeAwait ==
  ASSUME TypeOK, NEW f \in Functions, Await(f) PROVE TypeOK'
  <1>1. CASE initialization # Nothing /\ waits' = [waits EXCEPT ![f] = initialization]
             /\ UNCHANGED <<slotVars, promiseVars, route, routeGeneration, sent>>
    BY <1>1 DEF TypeOK
  <1>2. ASSUME NEW p \in Promises, Pending, Start(p),
               status' = [status EXCEPT ![p] = "queued"],
               waits' = [waits EXCEPT ![f] = p],
               UNCHANGED <<engine, initializer, generation, registration, sharedRoute,
                           installed, follows, value, route, routeGeneration, sent>>
        PROVE  TypeOK'
    BY <1>2 DEF TypeOK, Start, Pending, Statuses
  <1> QED BY <1>1, <1>2 DEF Await

LEMMA TypeCall ==
  ASSUME TypeOK, NEW f \in Functions, Call(f) PROVE TypeOK'
  <1>1. PICK r \in (IF routeGeneration[f] = generation THEN {route[f]} ELSE {engine, NoRoute}) :
          /\ route' = [route EXCEPT ![f] = r]
          /\ routeGeneration' = [routeGeneration EXCEPT ![f] = generation]
          /\ \/ r # NoRoute /\ Goes(f, r) /\ UNCHANGED <<slotVars, promiseVars>>
             \/ r = NoRoute /\ InvokeFields(f)
    BY DEF Call
  <1>2. r \in Engines \cup {NoRoute}
    BY DEF TypeOK, Call
  <1>3. /\ route' \in [Functions -> Engines \cup {NoRoute}]
        /\ routeGeneration' \in [Functions -> Nat \cup {-1}]
        /\ waits' \in [Functions -> Promises \cup {Nothing}]
    BY <1>1, <1>2 DEF TypeOK, Call
  <1>4. CASE r # NoRoute /\ Goes(f, r) /\ UNCHANGED <<slotVars, promiseVars>>
    BY <1>2, <1>3, <1>4 DEF TypeOK, Goes
  <1>5. CASE InvokeFields(f)
    BY <1>3, <1>5, TypeInvokeFields DEF TypeOK, InvokeFields
  <1> QED BY <1>1, <1>4, <1>5

LEMMA TypeResume ==
  ASSUME TypeOK, NEW f \in Functions, Retry(f) \/ CallFails(f) PROVE TypeOK'
  <1>1. CASE InvokeFields(f) /\ waits' = [waits EXCEPT ![f] = Nothing]
             /\ UNCHANGED <<route, routeGeneration>>
    BY <1>1, TypeInvokeFields DEF TypeOK, InvokeFields
  <1>2. CASE waits' = [waits EXCEPT ![f] = Nothing]
             /\ UNCHANGED <<slotVars, promiseVars, route, routeGeneration, sent>>
    BY <1>2 DEF TypeOK
  <1> QED BY <1>1, <1>2, TypeAwait DEF Retry, CallFails

LEMMA FollowsStep ==
  ASSUME TypeOK, FollowsInv, [Next]_vars PROVE FollowsInv'
  <1>1. CASE UNCHANGED promiseVars
    BY <1>1 DEF FollowsInv
  <1>2. ASSUME NEW p \in Promises, Superseded(p) PROVE FollowsInv'
    BY <1>2 DEF Superseded, FollowsInv, TypeOK, Start
  <1>3. ASSUME NEW p \in Promises, Reactions(p) \/ InitializerSettles(p) PROVE FollowsInv'
    BY <1>2, <1>3 DEF Reactions, RunInitializer, InitializerSettles, Continue, Install, Adopt,
                     Catch, FollowsInv, TypeOK
  <1>4. ASSUME NEW f \in Functions, Await(f) PROVE FollowsInv'
    BY <1>4 DEF Await, Start, FollowsInv, TypeOK
  <1>5. ASSUME NEW f \in Functions, Call(f) \/ CallLazily(f) \/ Refuse(f) \/ Resumes(f)
        PROVE  FollowsInv'
    BY <1>1, <1>4, <1>5 DEF Call, CallLazily, Refuse, Resumes, Retry, CallFails, InvokeFields, vars
  <1> QED BY <1>1, <1>3, <1>5 DEF Next, Configure, ConfigureLazy, Release, vars

LEMMA TypeStep == TypeOK /\ FollowsInv /\ [Next]_vars => TypeOK' /\ FollowsInv'
  <1> SUFFICES ASSUME TypeOK, FollowsInv, [Next]_vars PROVE TypeOK'
    BY FollowsStep
  <1>1. CASE UNCHANGED vars
    BY <1>1 DEF TypeOK, vars
  <1>2. ASSUME NEW f \in Functions, CallLazily(f) \/ Refuse(f) PROVE TypeOK'
    BY <1>1, <1>2, TypeAwait DEF CallLazily, Refuse
  <1> QED BY <1>1, <1>2, TypeConfigure, TypeConfigureLazy, TypeRelease, TypeReaction, TypeCall,
             TypeResume DEF Next, Resumes

\* Every variable keeps its type.
THEOREM TypeCorrect == Spec => []TypeOK
  BY TypeInit, TypeStep, PTL DEF Spec

------------------------------------------------------------------------------
(***************************************************************************)
(* The inductive invariant.  While a registration is pending, its token is *)
(* the generation, so what an initialization captured is the current       *)
(* generation only for the one that is in the slot.                        *)
(***************************************************************************)
SlotInv ==
  /\ SlotBelongsToRegistration
  /\ initializer # Nothing => engine = Nothing
  /\ Pending => registration = generation
  /\ initialization # Nothing =>
       /\ initializer # Nothing
       /\ startedAt[initialization] = generation
       /\ startedWith[initialization] = initializer
       /\ Live(initialization) \/ status[initialization] = "failed"

RunInv ==
  /\ \A p \in Promises : status[p] # "unused" =>
       startedAt[p] \in Nat /\ startedAt[p] <= generation /\ startedWith[p] \in Initializers
  /\ \A p \in Promises : Live(p) /\ startedAt[p] = generation => initialization = p
  /\ SingleFlight

ChainInv ==
  \A p \in Promises : status[p] = "following" =>
     /\ follows[p] \in Promises /\ status[follows[p]] # "unused"
     /\ startedAt[follows[p]] > startedAt[p]

ResultInv ==
  /\ LosersAreDiscarded
  /\ engine # Nothing => engine \in installed

RouteInv ==
  /\ sharedRoute \in {Unresolved, NoRoute, engine}
  /\ \A f \in Functions :
       /\ routeGeneration[f] <= generation
       /\ routeGeneration[f] = generation => route[f] \in {engine, NoRoute}

IInv == TypeOK /\ FollowsInv /\ SlotInv /\ RunInv /\ ChainInv /\ ResultInv /\ RouteInv

LEMMA IInvInit == Init => IInv
  <1> SUFFICES ASSUME Init PROVE IInv
    OBVIOUS
  <1>1. Nothing \notin Promises
    BY NothingAssumption DEF Engines
  <1>2. SlotInv /\ RunInv
    BY <1>1 DEF Init, SlotInv, SlotBelongsToRegistration, Pending, RunInv, SingleFlight, Live
  <1>3. ChainInv /\ ResultInv /\ RouteInv
    BY DEF Init, ChainInv, ResultInv, LosersAreDiscarded, RouteInv
  <1> QED BY <1>2, <1>3, TypeInit DEF IInv

\* A new registration, or a release: nothing that runs is of its generation.
LEMMA ResetStep ==
  ASSUME IInv, UNCHANGED <<promiseVars, callVars>>, ResetConfiguredRoutes,
         initialization' = Nothing,
         \/ engine' \in Given /\ installed' = installed \cup {engine'} /\ initializer' = Nothing
            /\ registration' = generation'
         \/ engine' = Nothing /\ installed' = installed /\ initializer' \in Initializers
            /\ registration' = generation'
         \/ engine' = Nothing /\ installed' = installed /\ initializer' = Nothing
            /\ registration' = Nothing
  PROVE  SlotInv' /\ RunInv' /\ ChainInv' /\ ResultInv' /\ RouteInv'
  <1>1. generation \in Nat /\ generation' = generation + 1 /\ Nothing \notin Promises
    BY NothingAssumption DEF IInv, TypeOK, ResetConfiguredRoutes, Engines
  <1>2. SlotInv'
    BY <1>1, NothingAssumption, EnginesAssumption DEF SlotInv, SlotBelongsToRegistration, Pending, Engines
  <1>3. RunInv'
    BY <1>1 DEF IInv, RunInv, SingleFlight, Live
  <1>4. ChainInv' /\ ResultInv'
    BY DEF IInv, ChainInv, ResultInv, LosersAreDiscarded
  <1>5. RouteInv'
    BY <1>1 DEF IInv, TypeOK, RouteInv, ResetConfiguredRoutes
  <1> QED BY <1>2, <1>3, <1>4, <1>5

\* A new initialization q of the pending registration.  `old' is the
\* promise that follows it, q itself when a call started it.
LEMMA StartStep ==
  ASSUME IInv, NEW q \in Promises, NEW old \in Promises, Pending, initialization = Nothing, Start(q),
         UNCHANGED <<engine, initializer, generation, registration, sharedRoute, installed, value,
                     route, routeGeneration>>,
         \/ status' = [status EXCEPT ![q] = "queued"] /\ UNCHANGED follows
         \/ /\ old # q /\ status[old] = "produced" /\ Stale(old)
            /\ status' = [status EXCEPT ![old] = "following", ![q] = "queued"]
            /\ follows' = [follows EXCEPT ![old] = q]
  PROVE  SlotInv' /\ RunInv' /\ ChainInv' /\ ResultInv' /\ RouteInv'
  <1>1. /\ status \in [Promises -> Statuses] /\ startedAt \in [Promises -> Nat \cup {-1}]
        /\ startedWith \in [Promises -> Initializers \cup {Nothing}]
        /\ follows \in [Promises -> Promises \cup {Nothing}]
        /\ generation \in Nat /\ initializer \in Initializers /\ q # Nothing
        /\ status[q] = "unused" /\ registration = generation
    BY NothingAssumption DEF IInv, TypeOK, Start, Pending, SlotInv, Engines
  <1>2. /\ startedAt'[q] = generation /\ startedWith'[q] = initializer /\ status'[q] = "queued"
        /\ \A p \in Promises \ {q} : startedAt'[p] = startedAt[p] /\ startedWith'[p] = startedWith[p]
        /\ \A p \in Promises \ {q} : status'[p] = status[p]
             \/ (p = old /\ status[p] = "produced" /\ status'[p] = "following")
    BY <1>1 DEF Start
  <1>3. SlotInv'
    BY <1>1, <1>2, NothingAssumption, EnginesAssumption
    DEF IInv, SlotInv, SlotBelongsToRegistration, Pending, Start, Live, Engines
  <1>4. \A p \in Promises \ {q} : Live(p)' => Live(p)
    BY <1>1, <1>2 DEF Live
  <1>5. \A p \in Promises : Live(p) => startedAt[p] # generation
    BY <1>1, NothingAssumption DEF IInv, RunInv, Engines
  <1>6. RunInv'
    <2>1. \A p \in Promises : status'[p] # "unused" =>
            startedAt'[p] \in Nat /\ startedAt'[p] <= generation /\ startedWith'[p] \in Initializers
      <3> SUFFICES ASSUME NEW p \in Promises, status'[p] # "unused"
                   PROVE  /\ startedAt'[p] \in Nat /\ startedAt'[p] <= generation
                          /\ startedWith'[p] \in Initializers
        OBVIOUS
      <3>1. CASE p = q
        BY <1>1, <1>2, <3>1
      <3>2. CASE p # q
        <4>1. status[p] # "unused"
          BY <1>2, <3>2
        <4> QED BY <1>2, <3>2, <4>1 DEF IInv, RunInv
      <3> QED BY <3>1, <3>2
    <2>2. SingleFlight'
      BY <1>2, <1>4, <1>5 DEF IInv, RunInv, SingleFlight
    <2>3. \A p \in Promises : Live(p)' /\ startedAt'[p] = generation => p = q
      BY <1>2, <1>4, <1>5
    <2> QED BY <2>1, <2>2, <2>3 DEF RunInv, Start
  <1>7. ChainInv'
    <2> SUFFICES ASSUME NEW p \in Promises, status'[p] = "following"
                 PROVE  /\ follows'[p] \in Promises /\ status'[follows'[p]] # "unused"
                        /\ startedAt'[follows'[p]] > startedAt'[p]
      BY DEF ChainInv
    <2>1. p # q
      BY <1>2
    <2>2. CASE status[p] = "following"
      <3>1. follows'[p] = follows[p]
        BY <1>1, <2>2
      <3>2. /\ follows[p] \in Promises /\ status[follows[p]] # "unused"
            /\ startedAt[follows[p]] > startedAt[p]
        BY <2>2 DEF IInv, ChainInv
      <3>3. follows[p] # q
        BY <1>1, <3>2
      <3>4. status'[follows[p]] # "unused"
        BY <1>2, <3>2, <3>3
      <3> QED BY <1>2, <2>1, <3>1, <3>2, <3>3, <3>4
    <2>3. CASE status[p] # "following"
      <3>1. p = old /\ status[old] = "produced" /\ follows' = [follows EXCEPT ![old] = q]
        BY <1>1, <1>2, <2>1, <2>3
      <3>2. follows'[p] = q /\ status'[q] # "unused"
        BY <1>1, <1>2, <3>1
      <3>3. startedAt[p] \in Nat /\ startedAt[p] <= generation /\ startedAt[p] # generation
        BY <1>5, <3>1 DEF IInv, RunInv, Live
      <3> QED BY <1>1, <1>2, <2>1, <3>2, <3>3
    <2> QED BY <2>2, <2>3
  <1>8. ResultInv'
    BY <1>1, <1>2 DEF IInv, ResultInv, LosersAreDiscarded
  <1>9. RouteInv'
    BY DEF IInv, RouteInv
  <1> QED BY <1>3, <1>6, <1>7, <1>8, <1>9

\* A promise moves on without a new start and without touching the slot; it
\* stays live or leaves a slot that is not its own.
LEMMA MoveStep ==
  ASSUME IInv, NEW p \in Promises, NEW s \in Statuses \ {"unused"},
         status' = [status EXCEPT ![p] = s],
         status[p] # "unused",
         UNCHANGED <<slotVars, startedAt, startedWith, route, routeGeneration>>,
         s \in {"queued", "running", "produced"} => Live(p),
         \/ s \in {"queued", "running", "produced", "failed"}
         \/ initialization # p,
         s = "fulfilled" => value'[p] \in installed,
         \A x \in Promises \ {p} : value'[x] = value[x],
         s = "following" => /\ follows'[p] \in Promises /\ status[follows'[p]] # "unused"
                            /\ startedAt[follows'[p]] > startedAt[p],
         \A x \in Promises \ {p} : follows'[x] = follows[x],
         s = "following" \/ status[p] # "following" \/ UNCHANGED follows
  PROVE  SlotInv' /\ RunInv' /\ ChainInv' /\ ResultInv' /\ RouteInv'
  <1>1. /\ status \in [Promises -> Statuses] /\ status'[p] = s
        /\ \A x \in Promises \ {p} : status'[x] = status[x]
        /\ initialization \in Promises \cup {Nothing}
    BY DEF IInv, TypeOK
  <1>2. \A x \in Promises : Live(x)' => Live(x)
    BY <1>1 DEF Live
  <1>3. SlotInv'
    BY <1>1 DEF IInv, SlotInv, SlotBelongsToRegistration, Pending, Live
  <1>4. RunInv'
    <2>1. \A x \in Promises : status'[x] # "unused" => status[x] # "unused"
      BY <1>1
    <2> QED BY <1>2, <2>1 DEF IInv, RunInv, SingleFlight
  <1>5. ChainInv'
    <2> SUFFICES ASSUME NEW x \in Promises, status'[x] = "following"
                 PROVE  /\ follows'[x] \in Promises /\ status'[follows'[x]] # "unused"
                        /\ startedAt[follows'[x]] > startedAt[x]
      BY DEF ChainInv
    <2>1. CASE x = p
      BY <1>1, <2>1
    <2>2. CASE x # p
      BY <1>1, <2>2 DEF IInv, ChainInv
    <2> QED BY <2>1, <2>2
  <1>6. ResultInv'
    BY <1>1 DEF IInv, ResultInv, LosersAreDiscarded
  <1>7. RouteInv'
    BY DEF IInv, RouteInv
  <1> QED BY <1>3, <1>4, <1>5, <1>6, <1>7

LEMMA InstallStep ==
  ASSUME IInv, NEW p \in Promises, status[p] = "produced", Install(p), UNCHANGED callVars
  PROVE  SlotInv' /\ RunInv' /\ ChainInv' /\ ResultInv' /\ RouteInv'
  <1>1. /\ status \in [Promises -> Statuses] /\ value \in [Promises -> Engines \cup {Nothing}]
        /\ generation \in Nat /\ generation' = generation + 1 /\ p # Nothing
        /\ startedAt[p] = generation /\ initializer = startedWith[p] /\ initializer \in Initializers
    BY NothingAssumption DEF IInv, TypeOK, Install, Stale, RunInv, ResetConfiguredRoutes, Engines
  <1>2. registration = generation
    BY <1>1, NothingAssumption DEF IInv, SlotInv, Pending
  <1>3. SlotInv'
    BY <1>1, <1>2, NothingAssumption DEF Install, SlotInv, SlotBelongsToRegistration, Pending
  <1>4. RunInv'
    <2>1. \A x \in Promises : (Live(x)' => Live(x)) /\ (status'[x] # "unused" => status[x] # "unused")
      BY <1>1 DEF Install, Live
    <2>2. \A x \in Promises : status[x] # "unused" =>
            startedAt[x] \in Nat /\ startedAt[x] <= generation' /\ startedAt[x] # generation'
                 /\ startedWith[x] \in Initializers
      BY <1>1 DEF IInv, RunInv
    <2>3. \A x \in Promises : Live(x) => status[x] # "unused"
      BY DEF Live
    <2> QED BY <2>1, <2>2, <2>3 DEF IInv, RunInv, SingleFlight, Install
  <1>5. ChainInv'
    BY <1>1 DEF IInv, ChainInv, Install
  <1>6. ResultInv'
    BY <1>1 DEF IInv, ResultInv, LosersAreDiscarded, Install
  <1>7. RouteInv'
    BY <1>1 DEF IInv, TypeOK, RouteInv, ResetConfiguredRoutes, Install
  <1> QED BY <1>3, <1>4, <1>5, <1>6, <1>7

LEMMA SupersededStep ==
  ASSUME IInv, NEW p \in Promises, status[p] = "produced", Stale(p), Superseded(p),
         UNCHANGED callVars
  PROVE  SlotInv' /\ RunInv' /\ ChainInv' /\ ResultInv' /\ RouteInv'
  <1>1. /\ Live(p) /\ p # Nothing
        /\ startedAt[p] \in Nat /\ startedAt[p] <= generation /\ generation \in Nat
        /\ value \in [Promises -> Engines \cup {Nothing}]
        /\ follows \in [Promises -> Promises \cup {Nothing}]
    BY NothingAssumption DEF IInv, TypeOK, RunInv, Live, Engines
  <1>2. initialization # p
    BY <1>1 DEF IInv, SlotInv, Stale
  <1>3. startedAt[p] # generation
    BY <1>1, <1>2 DEF IInv, RunInv
  <1>4. CASE engine # Nothing /\ status' = [status EXCEPT ![p] = "fulfilled"]
             /\ value' = [value EXCEPT ![p] = engine]
             /\ UNCHANGED <<slotVars, startedAt, startedWith, follows>>
    <2>1. engine \in installed /\ "fulfilled" \in Statuses \ {"unused"}
      BY <1>4 DEF IInv, ResultInv, Statuses
    <2> QED BY <1>1, <1>2, <1>4, <2>1, MoveStep
  <1>5. CASE Pending /\ initialization # Nothing
             /\ status' = [status EXCEPT ![p] = "following"]
             /\ follows' = [follows EXCEPT ![p] = initialization]
             /\ UNCHANGED <<slotVars, startedAt, startedWith, value>>
    <2>1. /\ initialization \in Promises /\ status[initialization] # "unused"
          /\ startedAt[initialization] = generation /\ "following" \in Statuses \ {"unused"}
      BY <1>5 DEF IInv, SlotInv, TypeOK, Live, Statuses
    <2>3. status'[initialization] # "unused"
      BY <1>2, <1>5, <2>1 DEF IInv, TypeOK
    <2>2. follows'[p] = initialization /\ \A x \in Promises \ {p} : follows'[x] = follows[x]
      BY <1>1, <1>5
    <2>4. startedAt[follows'[p]] > startedAt[p]
      BY <1>1, <1>3, <2>1, <2>2
    <2>5. follows'[p] \in Promises /\ status[follows'[p]] # "unused"
      BY <2>1, <2>2
    <2>6. status[p] # "unused" /\ \A x \in Promises \ {p} : value'[x] = value[x]
      BY <1>5
    <2>7. UNCHANGED <<slotVars, startedAt, startedWith, route, routeGeneration>>
      BY <1>5
    <2>8. status' = [status EXCEPT ![p] = "following"]
      BY <1>5
    <2> QED BY <1>2, <2>1, <2>2, <2>4, <2>5, <2>6, <2>7, <2>8, MoveStep
  <1>6. ASSUME NEW q \in Promises \ {p}, Pending, initialization = Nothing, Start(q),
               status' = [status EXCEPT ![p] = "following", ![q] = "queued"],
               follows' = [follows EXCEPT ![p] = q],
               UNCHANGED <<engine, initializer, generation, registration, sharedRoute,
                           installed, value>>
        PROVE  SlotInv' /\ RunInv' /\ ChainInv' /\ ResultInv' /\ RouteInv'
    BY <1>6, StartStep
  <1>7. CASE status' = [status EXCEPT ![p] = "failed"]
             /\ UNCHANGED <<slotVars, startedAt, startedWith, follows, value>>
    <2>1. "failed" \in Statuses \ {"unused"}
      BY DEF Statuses
    <2> QED BY <1>1, <1>2, <1>7, <2>1, MoveStep
  <1> QED BY <1>4, <1>5, <1>6, <1>7 DEF Superseded

LEMMA ReactionStep ==
  ASSUME IInv, NEW p \in Promises, Reactions(p) \/ InitializerSettles(p)
  PROVE  SlotInv' /\ RunInv' /\ ChainInv' /\ ResultInv' /\ RouteInv'
  <1>1. /\ status \in [Promises -> Statuses] /\ value \in [Promises -> Engines \cup {Nothing}]
        /\ {"running", "produced", "failed", "fulfilled", "rejected"} \subseteq Statuses \ {"unused"}
    BY DEF IInv, TypeOK, Statuses
  <1>2. CASE RunInitializer(p)
    BY <1>1, <1>2, MoveStep DEF RunInitializer, Live
  <1>3. CASE InitializerSettles(p)
    BY <1>1, <1>3, MoveStep DEF InitializerSettles, Live
  <1>4. CASE Continue(p)
    BY <1>4, InstallStep, SupersededStep DEF Continue
  <1>5. CASE Adopt(p)
    <2>1. p # Nothing /\ initialization # p
      BY <1>5, NothingAssumption DEF Adopt, IInv, SlotInv, Live, Engines
    <2>2. CASE status[follows[p]] = "fulfilled" /\ status' = [status EXCEPT ![p] = "fulfilled"]
               /\ value' = [value EXCEPT ![p] = value[follows[p]]]
      <3>1. value'[p] \in installed
        BY <1>1, <1>5, <2>2 DEF Adopt, IInv, ChainInv, ResultInv, LosersAreDiscarded
      <3>2. \A x \in Promises \ {p} : value'[x] = value[x]
        BY <1>1, <2>2
      <3> QED BY <1>1, <1>5, <2>1, <2>2, <3>1, <3>2, MoveStep DEF Adopt
    <2>3. CASE status' = [status EXCEPT ![p] = "failed"] /\ UNCHANGED value
      BY <1>1, <1>5, <2>1, <2>3, MoveStep DEF Adopt
    <2> QED BY <1>5, <2>2, <2>3 DEF Adopt
  <1>6. CASE Catch(p)
    <2>1. \A x \in Promises : (Live(x)' <=> Live(x)) /\ (status'[x] # "unused" <=> status[x] # "unused")
      BY <1>1, <1>6 DEF Catch, Live
    <2>2. initialization' # Nothing => initialization' = initialization /\ initialization # p
      BY <1>6 DEF Catch
    <2>3. \A x \in Promises : Live(x) => x # p
      BY <1>6 DEF Catch, Live
    <2>4. SlotInv'
      BY <1>1, <1>6, <2>1, <2>2 DEF Catch, IInv, TypeOK, SlotInv, SlotBelongsToRegistration, Pending
    <2>5. RunInv'
      BY <1>6, <2>1, <2>3 DEF Catch, IInv, RunInv, SingleFlight
    <2>6. ChainInv'
      BY <1>1, <1>6, <2>1 DEF Catch, IInv, ChainInv
    <2>7. ResultInv' /\ RouteInv'
      BY <1>1, <1>6 DEF Catch, IInv, ResultInv, LosersAreDiscarded, RouteInv
    <2> QED BY <2>4, <2>5, <2>6, <2>7
  <1> QED BY <1>2, <1>3, <1>4, <1>5, <1>6 DEF Reactions

LEMMA AwaitStep ==
  ASSUME IInv, NEW f \in Functions, Await(f)
  PROVE  SlotInv' /\ RunInv' /\ ChainInv' /\ ResultInv' /\ RouteInv'
  <1>1. CASE UNCHANGED <<slotVars, promiseVars>>
    BY <1>1 DEF Await, IInv, SlotInv, SlotBelongsToRegistration, Pending, RunInv, SingleFlight,
                Live, ChainInv, ResultInv, LosersAreDiscarded, RouteInv
  <1>2. ASSUME NEW p \in Promises, initialization = Nothing, Start(p),
               status' = [status EXCEPT ![p] = "queued"],
               UNCHANGED <<engine, initializer, generation, registration, sharedRoute,
                           installed, follows, value>>
        PROVE  SlotInv' /\ RunInv' /\ ChainInv' /\ ResultInv' /\ RouteInv'
    BY <1>2, StartStep DEF Await
  <1> QED BY <1>1, <1>2 DEF Await

\* A call changes nothing but the shared route and its own.
LEMMA InvokeFieldsRoutes ==
  ASSUME IInv, NEW f \in Functions, InvokeFields(f)
  PROVE  /\ sharedRoute' \in {NoRoute, engine}
         /\ sent'[f] # sent[f] => sent'[f] = engine
  BY DEF IInv, TypeOK, RouteInv, InvokeFields, Goes

LEMMA CallRoutes ==
  ASSUME IInv, NEW f \in Functions, Call(f)
  PROVE  /\ UNCHANGED <<engine, initializer, initialization, consumed, generation,
                        registration, installed, promiseVars>>
         /\ sharedRoute' \in {Unresolved, NoRoute, engine}
         /\ \E r \in {engine, NoRoute} : route' = [route EXCEPT ![f] = r]
         /\ routeGeneration' = [routeGeneration EXCEPT ![f] = generation]
         /\ \A g \in Functions : sent'[g] # sent[g] => sent'[g] = engine
  <1>1. PICK r \in (IF routeGeneration[f] = generation THEN {route[f]} ELSE {engine, NoRoute}) :
          /\ route' = [route EXCEPT ![f] = r]
          /\ routeGeneration' = [routeGeneration EXCEPT ![f] = generation]
          /\ \/ r # NoRoute /\ Goes(f, r) /\ UNCHANGED <<slotVars, promiseVars>>
             \/ r = NoRoute /\ InvokeFields(f)
    BY DEF Call
  <1>2. r \in {engine, NoRoute}
    BY <1>1 DEF IInv, RouteInv
  <1>3. \A g \in Functions : sent'[g] # sent[g] => sent'[g] = engine
    BY <1>1, <1>2, InvokeFieldsRoutes DEF Goes, InvokeFields, IInv, TypeOK
  <1>4. sharedRoute' \in {Unresolved, NoRoute, engine}
    BY <1>1, InvokeFieldsRoutes DEF IInv, RouteInv
  <1> QED BY <1>1, <1>2, <1>3, <1>4 DEF InvokeFields

LEMMA CallStep ==
  ASSUME IInv, NEW f \in Functions, Call(f) \/ (InvokeFields(f) /\ UNCHANGED <<route, routeGeneration>>)
  PROVE  SlotInv' /\ RunInv' /\ ChainInv' /\ ResultInv' /\ RouteInv'
  <1>1. UNCHANGED <<engine, initializer, initialization, generation, registration, installed,
                    promiseVars>>
    BY CallRoutes DEF InvokeFields
  <1>2. SlotInv' /\ RunInv' /\ ChainInv' /\ ResultInv'
    BY <1>1 DEF IInv, SlotInv, SlotBelongsToRegistration, Pending, RunInv, SingleFlight, Live,
                ChainInv, ResultInv, LosersAreDiscarded
  <1>3. CASE Call(f)
    <2>1. /\ routeGeneration \in [Functions -> Nat \cup {-1}] /\ generation \in Nat
          /\ route \in [Functions -> Engines \cup {NoRoute}]
          /\ \A g \in Functions :
               /\ routeGeneration[g] <= generation
               /\ routeGeneration[g] = generation => route[g] \in {engine, NoRoute}
      BY DEF IInv, TypeOK, RouteInv
    <2>2. PICK r \in {engine, NoRoute} : route' = [route EXCEPT ![f] = r]
      BY <1>3, CallRoutes
    <2>3. /\ routeGeneration' = [routeGeneration EXCEPT ![f] = generation]
          /\ sharedRoute' \in {Unresolved, NoRoute, engine}
      BY <1>3, CallRoutes
    <2>4. /\ route'[f] \in {engine, NoRoute} /\ routeGeneration'[f] = generation
          /\ \A g \in Functions \ {f} :
               route'[g] = route[g] /\ routeGeneration'[g] = routeGeneration[g]
      BY <2>1, <2>2, <2>3
    <2>5. engine' = engine /\ generation' = generation
      BY <1>1
    <2>6. \A g \in Functions :
           /\ routeGeneration'[g] <= generation'
           /\ routeGeneration'[g] = generation' => route'[g] \in {engine', NoRoute}
      BY <2>1, <2>4, <2>5
    <2>7. sharedRoute' \in {Unresolved, NoRoute, engine'}
      BY <2>3, <2>5
    <2>8. RouteInv'
      BY <2>6, <2>7 DEF RouteInv, NoRoute, Unresolved
    <2> QED BY <1>2, <2>8
  <1>4. CASE InvokeFields(f) /\ UNCHANGED <<route, routeGeneration>>
    <2>1. sharedRoute' \in {NoRoute, engine}
      BY <1>4, InvokeFieldsRoutes
    <2>2. /\ engine' = engine /\ generation' = generation
          /\ route' = route /\ routeGeneration' = routeGeneration
      BY <1>1, <1>4
    <2>3. \A g \in Functions :
           /\ routeGeneration[g] <= generation
           /\ routeGeneration[g] = generation => route[g] \in {engine, NoRoute}
      BY DEF IInv, RouteInv
    <2>4. \A g \in Functions :
           /\ routeGeneration'[g] <= generation'
           /\ routeGeneration'[g] = generation' => route'[g] \in {engine', NoRoute}
      BY <2>2, <2>3
    <2>5. sharedRoute' \in {Unresolved, NoRoute, engine'}
      BY <2>1, <2>2
    <2>6. RouteInv'
      BY <2>4, <2>5 DEF RouteInv, NoRoute, Unresolved
    <2> QED BY <1>2, <2>6
  <1> QED BY <1>3, <1>4

LEMMA IInvStep == IInv /\ [Next]_vars => IInv'
  <1> SUFFICES ASSUME IInv, [Next]_vars PROVE SlotInv' /\ RunInv' /\ ChainInv' /\ ResultInv' /\ RouteInv'
    BY TypeStep DEF IInv
  <1>1. CASE UNCHANGED <<slotVars, promiseVars, route, routeGeneration>>
    BY <1>1 DEF IInv, SlotInv, SlotBelongsToRegistration, Pending, RunInv, SingleFlight, Live,
                ChainInv, ResultInv, LosersAreDiscarded, RouteInv
  <1>2. ASSUME NEW e \in Given, Configure(e)
        PROVE  SlotInv' /\ RunInv' /\ ChainInv' /\ ResultInv' /\ RouteInv'
    BY <1>2, ResetStep DEF Configure
  <1>3. ASSUME NEW i \in Initializers, ConfigureLazy(i)
        PROVE  SlotInv' /\ RunInv' /\ ChainInv' /\ ResultInv' /\ RouteInv'
    BY <1>3, ResetStep DEF ConfigureLazy
  <1>4. ASSUME NEW token, Release(token)
        PROVE  SlotInv' /\ RunInv' /\ ChainInv' /\ ResultInv' /\ RouteInv'
    BY <1>4, ResetStep DEF Release
  <1>5. ASSUME NEW f \in Functions, Call(f) \/ CallLazily(f) \/ Refuse(f) \/ Resumes(f)
        PROVE  SlotInv' /\ RunInv' /\ ChainInv' /\ ResultInv' /\ RouteInv'
    BY <1>1, <1>5, CallStep, AwaitStep DEF CallLazily, Refuse, Resumes, Retry, CallFails, vars
  <1> QED BY <1>1, <1>2, <1>3, <1>4, <1>5, ReactionStep DEF Next, vars

LEMMA Inductive == Spec => []IInv
  BY IInvInit, IInvStep, PTL DEF Spec

\* However late an initializer answers, the slot is its registration's.
THEOREM SlotBelongs == Spec => []SlotBelongsToRegistration
  <1>1. IInv => SlotBelongsToRegistration
    BY DEF IInv, SlotInv
  <1> QED BY <1>1, Inductive, PTL

\* One registration never runs its initializer twice at a time.
THEOREM OneInitialization == Spec => []SingleFlight
  <1>1. IInv => SingleFlight
    BY DEF IInv, RunInv
  <1> QED BY <1>1, Inductive, PTL

\* ensureConfigured gives nobody an engine that never was in the slot.
THEOREM LosersNeverSeen == Spec => []LosersAreDiscarded
  <1>1. IInv => LosersAreDiscarded
    BY DEF IInv, ResultInv
  <1> QED BY <1>1, Inductive, PTL

\* Superseded initializations wait for later ones only: never for each other.
THEOREM NoCircularWait == Spec => []FollowsNewer
  <1>1. IInv => FollowsNewer
    BY DEF IInv, ChainInv, FollowsNewer
  <1> QED BY <1>1, Inductive, PTL

ToTheEngine == \A f \in Functions : sent'[f] # sent[f] => sent'[f] = engine

LEMMA ToTheEngineStep == IInv /\ [Next]_vars => [ToTheEngine]_vars
  <1> SUFFICES ASSUME IInv, [Next]_vars PROVE ToTheEngine \/ UNCHANGED vars
    OBVIOUS
  <1>1. ASSUME UNCHANGED sent PROVE ToTheEngine
    BY <1>1 DEF ToTheEngine
  <1>2. ASSUME NEW f \in Functions, Call(f) PROVE ToTheEngine
    BY <1>2, CallRoutes DEF ToTheEngine
  <1>3. ASSUME NEW f \in Functions, InvokeFields(f) PROVE ToTheEngine
    BY <1>3, InvokeFieldsRoutes DEF ToTheEngine, InvokeFields, Goes, IInv, TypeOK
  <1>4. ASSUME NEW f \in Functions, CallLazily(f) \/ Refuse(f) \/ Resumes(f) PROVE ToTheEngine
    <2>1. CASE CallLazily(f) \/ Refuse(f) \/ CallFails(f)
      BY <1>1, <2>1 DEF CallLazily, Await, Refuse, CallFails, vars
    <2>2. CASE Retry(f)
      <3>1. CASE InvokeFields(f)
        BY <1>3, <3>1
      <3>2. CASE Await(f) \/ UNCHANGED sent
        BY <1>1, <3>2 DEF Await
      <3> QED BY <2>2, <3>1, <3>2 DEF Retry
    <2> QED BY <1>4, <2>1, <2>2 DEF Resumes
  <1>5. ASSUME NEW p \in Promises, Reactions(p) \/ InitializerSettles(p) PROVE UNCHANGED sent
    BY <1>5 DEF Reactions, RunInitializer, Continue, Adopt, Catch, InitializerSettles
  <1> QED BY <1>1, <1>2, <1>4, <1>5 DEF Next, Configure, ConfigureLazy, Release, vars

\* Whatever routes are cached, a call goes to the engine in the slot.
THEOREM RoutesNeverStale == Spec => CallsReachTheEngine
  <1>1. CallsReachTheEngine <=> [][ToTheEngine]_vars
    BY DEF CallsReachTheEngine, ToTheEngine
  <1> QED BY <1>1, Inductive, ToTheEngineStep, PTL DEF Spec

(* A late initialization is seen by nobody. *)
THEOREM LateInitializationsLose == Spec => []LateResultsLose
  <1>1. SlotBelongsToRegistration /\ LosersAreDiscarded => LateResultsLose
    BY DEF LateResultsLose
  <1> QED BY <1>1, SlotBelongs, LosersNeverSeen, PTL

(* Initializations exclude each other or wait in order. *)
THEOREM InitializationsInOrder == Spec => []InitializationsOrdered
  <1>1. SingleFlight /\ FollowsNewer => InitializationsOrdered
    BY DEF InitializationsOrdered
  <1> QED BY <1>1, OneInitialization, NoCircularWait, PTL
==============================================================================
