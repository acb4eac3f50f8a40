-------------------------- MODULE HostChannels_proofs --------------------------
(***************************************************************************)
(* Proofs about the channels of a host: about ChannelHost for any number   *)
(* of channels, resources, sends, completions and dropping threads, and     *)
(* every size of the handle space; about TauriLeases for any number of     *)
(* channels, webviews and threads; and about HostChannels, which has both. *)
(***************************************************************************)
EXTENDS HostChannels, FiniteSetTheorems, TLAPS

USE DEF tableVars, gateVars, createVars, sendVars, dropVars

(* The conjuncts of the inductive invariant. *)

Makers == Creates \cup Resources

\* Handles are drawn once each and belong to one create.
HandleInv ==
  /\ \A c \in Makers :
       /\ handle[c] < nextHandle
       /\ createPc[c] = "idle" => handle[c] = 0
       /\ createPc[c] \in {"reserved", "inserted"} => handle[c] # 0
       /\ createPc[c] = "inserted" => c \in Creates
       /\ createPc[c] = "reserved" => gate[handle[c]] = "new"
       /\ createPc[c] = "inserted" => gate[handle[c]] # "new"
  /\ \A c, x \in Makers : handle[c] = handle[x] /\ handle[c] # 0 => c = x
  /\ \A h \in Handles :
       /\ drawn[h] <= 1
       /\ h >= nextHandle => drawn[h] = 0 /\ gate[h] = "new"

Took(d, h) == dropping[d] = h /\ dropPc[d] \in {"unsunk", "closing", "asleep", "woken"}
Waits(d, h) == dropping[d] = h /\ dropPc[d] \in {"asleep", "woken"}

\* A sink is in the map with its gate open, or a dropper has it in hand, or its
\* gate is closed; then nothing is inside or a dropper waits for what is.
GateInv ==
  /\ \A h \in hostTable : gate[h] # "new"
  /\ \A h \in sinks : gate[h] = "open"
  /\ \A h \in Handles :
       /\ gate[h] = "open" /\ h \notin sinks => \E d \in Droppers : Took(d, h) /\ ~Waits(d, h)
       /\ gate[h] = "closed" => active[h] = 0 \/ \E d \in Droppers : Waits(d, h)
  /\ \A d \in Droppers, h \in Handles :
       /\ Took(d, h) => h \notin sinks /\ gate[h] # "new"
       /\ Waits(d, h) => gate[h] = "closed"

\* A route leads to a sink in the map, save while a release is between the two
\* tables or has taken the sink from a create that has not returned.
RouteInv ==
  /\ \A h \in hostTable \ caught :
       h \in sinks \/ \E d \in Droppers : dropPc[d] = "unsunk" /\ dropping[d] = h
  /\ \A c \in Creates : createPc[c] = "inserted" /\ handle[c] \notin caught => handle[c] \in sinks

Unrouted(h) == h \notin caught => h \in Issued /\ h \notin hostTable

\* What a drop or a release has done by the time it is at each of its places.
DropInv ==
  /\ \A d \in Droppers :
       /\ dropPc[d] # "idle" => dropping[d] \in Handles
       /\ dropPc[d] = "unrouted" =>
            /\ dropping[d] \in Issued \ hostTable
            /\ hostRemoved[d] => gate[dropping[d]] # "new"
       /\ dropPc[d] = "unsunk" => dropping[d] \in Issued \cup caught
       /\ dropPc[d] \in {"closing", "asleep", "woken"} => Unrouted(dropping[d])
  /\ \A h \in released : Unrouted(h) /\ h \notin sinks /\ gate[h] # "new"

IInv == TypeOK /\ HandleInv /\ GateInv /\ RouteInv /\ DropInv

\* Who is inside a gate.
Inside(h) == {e \in Sends : sendTo[e] = h /\ sendPc[e] \in {"callback", "leaving"}}

SendInv == \A e \in Sends : sendPc[e] \in {"cloned", "callback", "leaving"} => sendTo[e] \in Handles

CountInv == SendInv /\ \A h \in Handles : active[h] = Cardinality(Inside(h))

-----------------------------------------------------------------------------
LEMMA HandleType == Handles \subseteq Nat \ {0}
  BY MaxHandleAssumption DEF Handles

LEMMA InvInit == Init => IInv
  <1> SUFFICES ASSUME Init PROVE IInv
    OBVIOUS
  <1>1. TypeOK
    BY DEF Init, TypeOK
  <1>2. HandleInv
    BY HandleType DEF Init, HandleInv, Makers
  <1>3. GateInv /\ RouteInv /\ DropInv
    BY DEF Init, GateInv, RouteInv, DropInv, Took, Waits
  <1> QED BY <1>1, <1>2, <1>3 DEF IInv

LEMMA InvReserve ==
  ASSUME IInv, NEW c \in Makers, Reserve(c) PROVE IInv'
  <1> USE DEF IInv
  <1>1. nextHandle \in Nat /\ handle'[c] \in Handles \cup {0} /\ createPc'[c] \in {"created", "reserved"}
    BY DEF TypeOK, Reserve, DrawHandle, Makers
  <1>2. /\ handle' = [handle EXCEPT ![c] = handle'[c]]
        /\ createPc' = [createPc EXCEPT ![c] = createPc'[c]]
        /\ handle'[c] # 0 => handle'[c] = nextHandle
        /\ createPc'[c] = "reserved" <=> handle'[c] # 0
        /\ nextHandle' = nextHandle + 1
        /\ UNCHANGED <<tableVars, gateVars, bytes, sendVars, dropVars>>
    BY HandleType DEF TypeOK, Reserve, DrawHandle, Makers
  <1>3. drawn' \in [Handles -> Nat] /\ \A h \in Handles :
          drawn'[h] = IF h = nextHandle THEN drawn[h] + 1 ELSE drawn[h]
    BY DEF TypeOK, Reserve, DrawHandle
  <1>4. TypeOK'
    BY <1>1, <1>2, <1>3 DEF TypeOK, Makers
  <1>5. HandleInv'
    <2>1. \A x \in Makers : handle[x] \in Nat
      <3>1. \A x \in Makers : handle[x] \in Handles \cup {0}
        BY DEF TypeOK, Makers
      <3>2. \A g \in Handles \cup {0} : g \in Nat
        BY HandleType
      <3> QED BY <3>1, <3>2
    <2>2. createPc[c] = "idle" /\ handle[c] = 0
      BY DEF Reserve, HandleInv
    <2>3. \A x \in Makers \ {c} : handle'[x] = handle[x] /\ createPc'[x] = createPc[x]
      BY <1>2 DEF TypeOK, Makers
    <2>4. \A x \in Makers :
            /\ handle'[x] < nextHandle'
            /\ createPc'[x] = "idle" => handle'[x] = 0
            /\ createPc'[x] \in {"reserved", "inserted"} => handle'[x] # 0
            /\ createPc'[x] = "inserted" => x \in Creates
            /\ createPc'[x] = "reserved" => gate'[handle'[x]] = "new"
            /\ createPc'[x] = "inserted" => gate'[handle'[x]] # "new"
      BY <1>1, <1>2, <2>1, <2>3 DEF HandleInv
    <2>5. \A x, y \in Makers : handle'[x] = handle'[y] /\ handle'[x] # 0 => x = y
      BY <1>1, <1>2, <2>1, <2>3 DEF HandleInv
    <2>6. \A h \in Handles : drawn'[h] <= 1 /\ (h >= nextHandle' => drawn'[h] = 0 /\ gate'[h] = "new")
      BY <1>1, <1>2, <1>3, HandleType DEF HandleInv, TypeOK
    <2> QED BY <2>4, <2>5, <2>6 DEF HandleInv
  <1>6. Issued' = Issued
    BY <1>1, <1>2 DEF Issued, TypeOK, HandleInv, Reserve, Makers
  <1>7. GateInv'
    BY <1>2 DEF GateInv, Took, Waits
  <1>8. RouteInv'
    BY <1>1, <1>2 DEF RouteInv, TypeOK, Makers
  <1>9. DropInv'
    BY <1>2, <1>6 DEF DropInv, Unrouted
  <1> QED BY <1>4, <1>5, <1>7, <1>8, <1>9

LEMMA InvInsertSink ==
  ASSUME IInv, NEW c \in Makers, InsertSink(c) PROVE IInv'
  <1> USE DEF IInv
  <1> DEFINE h == handle[c]
  <1>1. /\ c \in Creates /\ createPc[c] = "reserved" /\ h \in Handles /\ gate[h] = "new"
        /\ sinks' = sinks \cup {h} /\ gate' = [gate EXCEPT ![h] = "open"]
        /\ createPc' = [createPc EXCEPT ![c] = "inserted"]
        /\ UNCHANGED <<hostTable, resources, active, nextHandle, handle, drawn, sendVars, dropVars>>
    BY DEF InsertSink, TypeOK, HandleInv, Makers
  <1>2. TypeOK'
    BY <1>1 DEF TypeOK, InsertSink, Makers
  <1>3. HandleInv'
    BY <1>1, HandleType DEF HandleInv, TypeOK, Makers
  <1>4. GateInv'
    BY <1>1 DEF GateInv, TypeOK, Took, Waits
  <1>5. RouteInv'
    BY <1>1 DEF RouteInv, TypeOK, Makers
  <1>6. Issued \subseteq Issued'
    BY <1>1 DEF Issued, TypeOK, Makers
  <1>7. DropInv'
    BY <1>1, <1>6 DEF DropInv, TypeOK, Unrouted
  <1> QED BY <1>2, <1>3, <1>4, <1>5, <1>7

LEMMA InvRegisterChannel ==
  ASSUME IInv, NEW c \in Makers, RegisterChannel(c) PROVE IInv'
  <1> USE DEF IInv
  <1> DEFINE h == handle[c]
  <1>1. /\ c \in Creates /\ createPc[c] = "inserted" /\ h \in Handles /\ gate[h] # "new"
        /\ hostTable' = hostTable \cup {h} /\ createPc' = [createPc EXCEPT ![c] = "created"]
        /\ UNCHANGED <<sinks, resources, gateVars, nextHandle, handle, bytes, drawn, sendVars, dropVars>>
    BY DEF RegisterChannel, TypeOK, HandleInv, Makers
  <1>2. TypeOK'
    BY <1>1 DEF TypeOK, Makers
  <1>3. HandleInv'
    BY <1>1 DEF HandleInv, TypeOK, Makers
  <1>4. GateInv'
    BY <1>1 DEF GateInv, Took, Waits
  <1>5. RouteInv'
    BY <1>1 DEF RouteInv, TypeOK, Makers
  <1>6. Issued \subseteq Issued' /\ h \notin Issued
    BY <1>1 DEF Issued, TypeOK, HandleInv, Makers
  <1>7. DropInv'
    BY <1>1, <1>6 DEF DropInv, TypeOK, Unrouted
  <1> QED BY <1>2, <1>3, <1>4, <1>5, <1>7

LEMMA InvRegisterResource ==
  ASSUME IInv, NEW c \in Makers, RegisterResource(c) PROVE IInv'
  <1> USE DEF IInv
  <1>1. /\ createPc[c] = "reserved" /\ handle[c] \in Handles /\ c \notin Creates
        /\ resources' = resources \cup {handle[c]}
        /\ createPc' = [createPc EXCEPT ![c] = "created"]
        /\ UNCHANGED <<hostTable, sinks, gateVars, nextHandle, handle, bytes, drawn, sendVars, dropVars>>
    BY ActorsAssumption DEF RegisterResource, TypeOK, HandleInv, Makers
  <1>2. TypeOK'
    BY <1>1 DEF TypeOK, Makers
  <1>3. HandleInv'
    BY <1>1 DEF HandleInv, TypeOK, Makers
  <1>4. GateInv'
    BY <1>1 DEF GateInv, Took, Waits
  <1>5. RouteInv'
    BY <1>1 DEF RouteInv, TypeOK, Makers
  <1>6. Issued \subseteq Issued'
    BY <1>1 DEF Issued, TypeOK, Makers
  <1>7. DropInv'
    BY <1>1, <1>6 DEF DropInv, Unrouted
  <1> QED BY <1>2, <1>3, <1>4, <1>5, <1>7

LEMMA InvDropResource ==
  ASSUME IInv, NEW h \in Handles, DropResource(h) PROVE IInv'
  <1> USE DEF IInv
  <1>1. TypeOK'
    BY DEF DropResource, TypeOK
  <1>2. HandleInv' /\ GateInv' /\ RouteInv' /\ DropInv'
    BY DEF DropResource, HandleInv, GateInv, RouteInv, DropInv, Took, Waits, Unrouted, Issued
  <1> QED BY <1>1, <1>2

(* What a send does leaves tables, gates and droppers alone; it moves active,  *)
(* never up behind a closed gate, and wakes droppers that sleep.               *)
LEMMA InvSending ==
  ASSUME IInv, TypeOK', UNCHANGED <<tableVars, gate, createVars, dropping, hostRemoved, released, caught>>,
         \A h \in Handles : gate[h] = "closed" /\ active[h] = 0 => active'[h] = 0,
         \A d \in Droppers : \/ dropPc'[d] = dropPc[d]
                             \/ dropPc[d] = "asleep" /\ dropPc'[d] = "woken"
  PROVE  IInv'
  <1> USE DEF IInv
  <1>1. HandleInv'
    BY DEF HandleInv
  <1>2. Issued' = Issued
    BY DEF Issued
  <1>3. \A d \in Droppers, h \in Handles : (Took(d, h)' <=> Took(d, h)) /\ (Waits(d, h)' <=> Waits(d, h))
    BY DEF Took, Waits
  <1>4. GateInv'
    BY <1>3 DEF GateInv, TypeOK
  <1>5. RouteInv'
    BY DEF RouteInv
  <1>6. DropInv'
    BY <1>2 DEF DropInv, Unrouted
  <1> QED BY <1>1, <1>4, <1>5, <1>6

LEMMA InvSend ==
  ASSUME IInv, NEW e \in Sends,
         NEW h \in Handles, Send(e, h) \/ Submit(e, h)
  PROVE  IInv'
  <1>1. TypeOK'
    BY DEF Send, Submit, TypeOK, IInv
  <1> QED BY <1>1, InvSending DEF Send, Submit

LEMMA InvEnter ==
  ASSUME IInv, SendInv, NEW e \in Sends, Enter(e) PROVE IInv'
  <1> USE DEF IInv
  <1>1. sendTo[e] \in Handles
    BY DEF Enter, SendInv
  <1>2. \/ active' = [active EXCEPT ![sendTo[e]] = active[sendTo[e]] + 1] /\ gate[sendTo[e]] = "open"
        \/ active' = active
    BY DEF Enter
  <1>3. active' \in [Handles -> Nat]
    BY <1>1, <1>2 DEF TypeOK
  <1>4. TypeOK'
    BY <1>3 DEF Enter, TypeOK
  <1>5. \A h \in Handles : gate[h] = "closed" /\ active[h] = 0 => active'[h] = 0
    BY <1>1, <1>2 DEF TypeOK
  <1> QED BY <1>4, <1>5, InvSending DEF Enter

LEMMA InvCallbackReturns ==
  ASSUME IInv, NEW e \in Sends, CallbackReturns(e) PROVE IInv'
  <1>1. TypeOK'
    BY DEF CallbackReturns, TypeOK, IInv
  <1> QED BY <1>1, InvSending DEF CallbackReturns

LEMMA InvLeave ==
  ASSUME IInv, SendInv, NEW e \in Sends, Leave(e) PROVE IInv'
  <1> USE DEF IInv
  <1> DEFINE h == sendTo[e]
  <1>1. h \in Handles
    BY DEF Leave, SendInv
  <1>2. active' = [active EXCEPT ![h] = IF active[h] = 0 THEN 0 ELSE active[h] - 1]
    BY DEF Leave
  <1>3. active' \in [Handles -> Nat] /\ \A g \in Handles : active[g] = 0 => active'[g] = 0
    BY <1>1, <1>2 DEF TypeOK
  <1>4. /\ dropPc' \in [Droppers -> {"idle", "unrouted", "unsunk", "closing", "asleep", "woken"}]
        /\ \A d \in Droppers : \/ dropPc'[d] = dropPc[d]
                               \/ dropPc[d] = "asleep" /\ dropPc'[d] = "woken"
    <2>1. dropPc' = Notified(h)
      BY DEF Leave
    <2>2. \A d \in Droppers : \/ dropPc'[d] = dropPc[d]
                              \/ dropPc[d] = "asleep" /\ dropPc'[d] = "woken"
      BY <2>1 DEF Notified
    <2>3. \A d \in Droppers : dropPc[d] \in {"idle", "unrouted", "unsunk", "closing", "asleep", "woken"}
      BY DEF TypeOK
    <2>4. dropPc' = [d \in Droppers |-> dropPc'[d]]
      BY <2>1 DEF Notified
    <2> QED BY <2>2, <2>3, <2>4
  <1>5. TypeOK'
    BY <1>3, <1>4 DEF Leave, TypeOK
  <1> QED BY <1>3, <1>4, <1>5, InvSending DEF Leave

-----------------------------------------------------------------------------
LEMMA InvDropChannel ==
  ASSUME IInv, NEW d \in Droppers, NEW h \in Handles, DropChannel(d, h) PROVE IInv'
  <1> USE DEF IInv
  <1>1. /\ dropPc[d] = "idle" /\ h \in Issued /\ hostTable' = hostTable \ {h}
        /\ dropping' = [dropping EXCEPT ![d] = h]
        /\ hostRemoved' = [hostRemoved EXCEPT ![d] = h \in hostTable]
        /\ dropPc' = [dropPc EXCEPT ![d] = "unrouted"]
        /\ UNCHANGED <<sinks, resources, gateVars, createVars, sendVars, released, caught>>
    BY DEF DropChannel
  <1>2. TypeOK'
    BY <1>1 DEF TypeOK
  <1>3. HandleInv'
    BY <1>1 DEF HandleInv
  <1>4. \A x \in Droppers, g \in Handles : (Took(x, g)' <=> Took(x, g)) /\ (Waits(x, g)' <=> Waits(x, g))
    BY <1>1 DEF Took, Waits, TypeOK
  <1>5. GateInv'
    BY <1>1, <1>4 DEF GateInv
  <1>6. Issued' = Issued
    BY <1>1 DEF Issued
  <1>7. RouteInv'
    BY <1>1 DEF RouteInv, TypeOK
  <1>8. DropInv'
    <2>1. h \in hostTable => gate[h] # "new"
      BY DEF GateInv
    <2>2. \A g : Unrouted(g) => Unrouted(g)'
      BY <1>1, <1>6 DEF Unrouted
    <2>3. dropPc'[d] = "unrouted" /\ dropping'[d] = h /\ (hostRemoved'[d] <=> h \in hostTable)
      BY <1>1 DEF TypeOK
    <2>4. \A x \in Droppers \ {d} : /\ dropPc'[x] = dropPc[x] /\ dropping'[x] = dropping[x]
                                   /\ hostRemoved'[x] = hostRemoved[x]
      BY <1>1 DEF TypeOK
    <2>5. \A x \in Droppers : dropPc'[x] = "unrouted" =>
            dropping'[x] \in Issued' \ hostTable' /\ (hostRemoved'[x] => gate'[dropping'[x]] # "new")
      BY <1>1, <1>6, <2>1, <2>3, <2>4 DEF DropInv
    <2> QED BY <1>1, <1>6, <2>2, <2>3, <2>4, <2>5 DEF DropInv
  <1> QED BY <1>2, <1>3, <1>5, <1>7, <1>8

LEMMA InvReleaseSink ==
  ASSUME IInv, NEW d \in Droppers, NEW id, ReleaseSink(d, id) PROVE IInv'
  <1> USE DEF IInv
  <1>1. PICK h \in Handles :
          /\ h \in sinks /\ sinks' = sinks \ {h}
          /\ dropping' = [dropping EXCEPT ![d] = h]
          /\ caught' = IF h \in Issued THEN caught ELSE caught \cup {h}
    BY DEF ReleaseSink, Newest, Owned
  <1>2. /\ dropPc[d] = "idle" /\ dropPc' = [dropPc EXCEPT ![d] = "unsunk"]
        /\ UNCHANGED <<hostTable, resources, gateVars, createVars, sendVars, hostRemoved, released>>
    BY DEF ReleaseSink
  <1>3. TypeOK'
    BY <1>1, <1>2 DEF TypeOK
  <1>4. HandleInv'
    BY <1>2 DEF HandleInv
  <1>5. /\ Took(d, h)' /\ ~Waits(d, h)'
        /\ \A g \in Handles : g # h => ~Took(d, g)'
        /\ \A g \in Handles : ~Took(d, g) /\ ~Waits(d, g)
        /\ \A g \in Handles : ~Waits(d, g)'
        /\ \A x \in Droppers \ {d}, g \in Handles :
             (Took(x, g)' <=> Took(x, g)) /\ (Waits(x, g)' <=> Waits(x, g))
    BY <1>1, <1>2 DEF Took, Waits, TypeOK
  <1>6. GateInv'
    BY <1>1, <1>2, <1>5 DEF GateInv
  <1>7. Issued' = Issued
    BY <1>2 DEF Issued
  <1>8. RouteInv'
    <2>1. \A g \in hostTable' \ caught' :
            g \in sinks' \/ \E x \in Droppers : dropPc'[x] = "unsunk" /\ dropping'[x] = g
      BY <1>1, <1>2 DEF RouteInv, TypeOK
    <2>2. \A c \in Creates : createPc[c] = "inserted" /\ handle[c] = h => h \notin Issued
      BY DEF Issued, HandleInv, Makers
    <2>3. \A c \in Creates : createPc'[c] = "inserted" /\ handle'[c] \notin caught' => handle'[c] \in sinks'
      BY <1>1, <1>2, <2>2 DEF RouteInv
    <2> QED BY <2>1, <2>3 DEF RouteInv
  <1>9. DropInv'
    BY <1>1, <1>2, <1>7 DEF DropInv, Unrouted, TypeOK
  <1> QED BY <1>3, <1>4, <1>6, <1>8, <1>9

LEMMA InvUnroute ==
  ASSUME IInv, NEW d \in Droppers, Unroute(d) PROVE IInv'
  <1> USE DEF IInv
  <1> DEFINE h == dropping[d]
  <1>1. /\ dropPc[d] = "unsunk" /\ h \in Handles /\ hostTable' = hostTable \ {h}
        /\ dropPc' = [dropPc EXCEPT ![d] = "closing"]
        /\ UNCHANGED <<sinks, resources, gateVars, createVars, sendVars, dropping, hostRemoved,
                       released, caught>>
    BY DEF Unroute, DropInv
  <1>2. TypeOK'
    BY <1>1 DEF TypeOK
  <1>3. HandleInv'
    BY <1>1 DEF HandleInv
  <1>4. \A x \in Droppers, g \in Handles : (Took(x, g)' <=> Took(x, g)) /\ (Waits(x, g)' <=> Waits(x, g))
    BY <1>1 DEF Took, Waits, TypeOK
  <1>5. GateInv'
    BY <1>1, <1>4 DEF GateInv
  <1>6. Issued' = Issued
    BY <1>1 DEF Issued
  <1>7. RouteInv'
    BY <1>1 DEF RouteInv, TypeOK
  <1>8. DropInv'
    BY <1>1, <1>6 DEF DropInv, Unrouted, TypeOK
  <1> QED BY <1>2, <1>3, <1>5, <1>7, <1>8

LEMMA InvRemoveSink ==
  ASSUME IInv, NEW d \in Droppers, RemoveSink(d) PROVE IInv'
  <1> USE DEF IInv
  <1> DEFINE h == dropping[d]
  <1>1. /\ dropPc[d] = "unrouted" /\ h \in Issued \ hostTable /\ h \in Handles
        /\ sinks' = sinks \ {h}
        /\ UNCHANGED <<hostTable, resources, gateVars, createVars, sendVars, dropping, hostRemoved, caught>>
    BY DEF RemoveSink, DropInv
  <1>2. \/ /\ h \in sinks /\ dropPc' = [dropPc EXCEPT ![d] = "closing"] /\ released' = released
        \/ /\ h \notin sinks /\ dropPc' = [dropPc EXCEPT ![d] = "idle"]
           /\ released' = IF hostRemoved[d] THEN released \cup {h} ELSE released
    BY DEF RemoveSink, Dropped
  <1>3. TypeOK'
    BY <1>1, <1>2 DEF TypeOK
  <1>4. HandleInv'
    BY <1>1 DEF HandleInv
  <1>5. /\ \A g \in Handles : ~Took(d, g) /\ ~Waits(d, g) /\ ~Waits(d, g)'
        /\ \A g \in Handles : g # h => ~Took(d, g)'
        /\ h \in sinks => Took(d, h)'
        /\ h \notin sinks => ~Took(d, h)'
        /\ \A x \in Droppers \ {d}, g \in Handles :
             (Took(x, g)' <=> Took(x, g)) /\ (Waits(x, g)' <=> Waits(x, g))
    BY <1>1, <1>2 DEF Took, Waits, TypeOK
  <1>6. GateInv'
    BY <1>1, <1>5 DEF GateInv
  <1>7. Issued' = Issued
    BY <1>1 DEF Issued
  <1>8. RouteInv'
    <2>1. \A c \in Creates : createPc[c] = "inserted" => handle[c] # h
      BY <1>1 DEF Issued, HandleInv, Makers
    <2>2. \A x \in Droppers : dropPc[x] = "unsunk" => dropPc'[x] = "unsunk"
      BY <1>1, <1>2 DEF TypeOK
    <2> QED BY <1>1, <2>1, <2>2 DEF RouteInv
  <1>9. DropInv'
    BY <1>1, <1>2, <1>7 DEF DropInv, Unrouted, TypeOK
  <1> QED BY <1>3, <1>4, <1>6, <1>8, <1>9

LEMMA InvClose ==
  ASSUME IInv, NEW d \in Droppers, Close(d) \/ Wake(d) PROVE IInv'
  <1> USE DEF IInv
  <1> DEFINE h == dropping[d]
  <1>1. /\ dropPc[d] \in {"closing", "woken"} /\ h \in Handles /\ Took(d, h)
        /\ gate' = [gate EXCEPT ![h] = "closed"]
        /\ UNCHANGED <<tableVars, active, createVars, sendVars, dropping, hostRemoved, caught>>
    BY DEF Close, Wake, DropInv, GateInv, Took, Waits, TypeOK
  <1>2. \/ /\ active[h] = 0 /\ dropPc' = [dropPc EXCEPT ![d] = "idle"]
           /\ released' = released \cup {h}
        \/ dropPc' = [dropPc EXCEPT ![d] = "asleep"] /\ released' = released
    BY DEF Close, Wake, WaitQuiescent, Dropped
  <1>3. TypeOK'
    BY <1>1, <1>2 DEF TypeOK
  <1>4. gate[h] # "new" /\ h \notin sinks
    BY <1>1 DEF GateInv
  <1>5. HandleInv'
    BY <1>1, <1>4 DEF HandleInv, TypeOK, Makers
  <1>6. /\ \A g \in Handles : g # h => ~Took(d, g) /\ ~Took(d, g)' /\ ~Waits(d, g) /\ ~Waits(d, g)'
        /\ active[h] = 0 \/ Waits(d, h)'
        /\ \A x \in Droppers \ {d}, g \in Handles :
             (Took(x, g)' <=> Took(x, g)) /\ (Waits(x, g)' <=> Waits(x, g))
        /\ \A x \in Droppers, g \in Handles : Took(x, g)' => Took(x, g)
    BY <1>1, <1>2 DEF Took, Waits, TypeOK
  <1>7. GateInv'
    BY <1>1, <1>4, <1>6 DEF GateInv, TypeOK
  <1>8. Issued' = Issued
    BY <1>1 DEF Issued
  <1>9. RouteInv'
    BY <1>1, <1>2 DEF RouteInv, TypeOK
  <1>10. DropInv'
    BY <1>1, <1>2, <1>4, <1>8 DEF DropInv, Unrouted, TypeOK
  <1> QED BY <1>3, <1>5, <1>7, <1>9, <1>10

LEMMA InvStep ==
  ASSUME IInv, SendInv, [Next]_vars PROVE IInv'
  <1>1. ASSUME NEW c \in Creates \cup Resources, CreateNext(c) PROVE IInv'
    BY <1>1, InvReserve, InvInsertSink, InvRegisterChannel, InvRegisterResource DEF CreateNext, Makers
  <1>2. ASSUME NEW h \in Handles, DropResource(h) PROVE IInv'
    BY <1>2, InvDropResource
  <1>3. ASSUME NEW e \in Sends, SendNext(e) PROVE IInv'
    BY <1>3, InvSend, InvEnter, InvCallbackReturns, InvLeave DEF SendNext
  <1>4. ASSUME NEW d \in Droppers, DropNext(d) PROVE IInv'
    BY <1>4, InvDropChannel, InvReleaseSink, InvUnroute, InvRemoveSink, InvClose DEF DropNext
  <1>5. CASE UNCHANGED vars
    <2>1. TypeOK'
      BY <1>5 DEF vars, TypeOK, IInv
    <2> QED BY <1>5, <2>1, InvSending DEF vars, IInv
  <1> QED BY <1>1, <1>2, <1>3, <1>4, <1>5 DEF Next

-----------------------------------------------------------------------------
(***************************************************************************)
(* The count of a gate is the number of callers inside it.                 *)
(***************************************************************************)
LEMMA InsideFinite ==
  ASSUME NEW h
  PROVE  IsFiniteSet(Inside(h)) /\ Cardinality(Inside(h)) \in Nat
  <1>1. Inside(h) \subseteq Sends
    BY DEF Inside
  <1> QED BY <1>1, ActorsAssumption, FS_Subset, FS_CardinalityType

LEMMA CountInit == Init => CountInv
  <1> SUFFICES ASSUME Init PROVE CountInv
    OBVIOUS
  <1>1. \A h : Inside(h) = {}
    BY DEF Init, Inside
  <1> QED BY <1>1, FS_EmptySet DEF Init, CountInv, SendInv

LEMMA CountKept ==
  ASSUME CountInv, UNCHANGED <<sendTo, active>>,
         \A e \in Sends : sendPc'[e] \in {"callback", "leaving"} <=> sendPc[e] \in {"callback", "leaving"},
         \A e \in Sends : sendPc'[e] = "cloned" => sendPc[e] = "cloned"
  PROVE  CountInv'
  <1>1. \A h : Inside(h)' = Inside(h)
    BY DEF Inside
  <1> QED BY <1>1 DEF CountInv, SendInv

LEMMA CountSend ==
  ASSUME TypeOK, CountInv, NEW e \in Sends, NEW h \in Handles, Send(e, h) \/ Submit(e, h)
  PROVE  CountInv'
  <1>1. /\ sendPc[e] = "idle" /\ sendPc'[e] \in {"cloned", "refused"} /\ sendTo'[e] = h
        /\ \A x \in Sends \ {e} : sendPc'[x] = sendPc[x] /\ sendTo'[x] = sendTo[x]
        /\ UNCHANGED active
    BY DEF Send, Submit, TypeOK
  <1>2. \A g : Inside(g)' = Inside(g)
    BY <1>1 DEF Inside
  <1> QED BY <1>1, <1>2 DEF CountInv, SendInv

LEMMA CountEnter ==
  ASSUME TypeOK, CountInv, NEW e \in Sends, Enter(e) PROVE CountInv'
  <1> DEFINE h == sendTo[e]
  <1>1. sendPc[e] = "cloned" /\ h \in Handles /\ sendTo' = sendTo
    BY DEF Enter, CountInv, SendInv
  <1>2. \A x \in Sends \ {e} : sendPc'[x] = sendPc[x]
    BY DEF Enter, TypeOK
  <1>3. CASE gate[h] = "open"
    <2>1. /\ sendPc'[e] \in {"callback", "leaving"}
          /\ active'[h] = active[h] + 1 /\ \A g \in Handles \ {h} : active'[g] = active[g]
      BY <1>1, <1>3 DEF Enter, TypeOK
    <2>2. Inside(h)' = Inside(h) \cup {e} /\ e \notin Inside(h)
      BY <1>1, <1>2, <2>1 DEF Inside
    <2>3. \A g \in Handles \ {h} : Inside(g)' = Inside(g)
      BY <1>1, <1>2, <2>1 DEF Inside
    <2>4. Cardinality(Inside(h)') = Cardinality(Inside(h)) + 1
      BY <2>2, InsideFinite, FS_AddElement
    <2>5. \A g \in Handles : active'[g] = Cardinality(Inside(g)')
      BY <1>1, <2>1, <2>3, <2>4 DEF CountInv
    <2>6. SendInv'
      BY <1>1, <1>2, <2>1 DEF SendInv, CountInv
    <2> QED BY <2>5, <2>6 DEF CountInv
  <1>4. CASE gate[h] # "open"
    <2>1. sendPc'[e] = "sent" /\ UNCHANGED active
      BY <1>4 DEF Enter, TypeOK
    <2> QED BY <1>1, <1>2, <2>1, CountKept
  <1> QED BY <1>3, <1>4

LEMMA CountLeave ==
  ASSUME TypeOK, CountInv, NEW e \in Sends, Leave(e) PROVE CountInv'
  <1> DEFINE h == sendTo[e]
  <1>1. /\ sendPc[e] = "leaving" /\ h \in Handles /\ sendTo' = sendTo /\ sendPc'[e] = "sent"
        /\ \A x \in Sends \ {e} : sendPc'[x] = sendPc[x]
    BY DEF Leave, CountInv, SendInv, TypeOK
  <1>2. /\ active'[h] = IF active[h] = 0 THEN 0 ELSE active[h] - 1
        /\ \A g \in Handles \ {h} : active'[g] = active[g]
    BY <1>1 DEF Leave, TypeOK
  <1>3. e \in Inside(h) /\ Inside(h)' = Inside(h) \ {e}
    BY <1>1 DEF Inside
  <1>4. \A g \in Handles \ {h} : Inside(g)' = Inside(g)
    BY <1>1 DEF Inside
  <1>5. /\ Cardinality(Inside(h)') = Cardinality(Inside(h)) - 1
        /\ Cardinality(Inside(h)) # 0
    BY <1>3, InsideFinite, FS_RemoveElement, FS_EmptySet
  <1>6. \A g \in Handles : active'[g] = Cardinality(Inside(g)')
    BY <1>1, <1>2, <1>4, <1>5 DEF CountInv
  <1>7. SendInv'
    BY <1>1 DEF SendInv, CountInv
  <1> QED BY <1>6, <1>7 DEF CountInv

LEMMA CountStep ==
  ASSUME TypeOK, CountInv, [Next]_vars PROVE CountInv'
  <1>1. ASSUME NEW e \in Sends, SendNext(e) PROVE CountInv'
    <2>1. CASE CallbackReturns(e)
      BY <2>1, CountKept DEF CallbackReturns, TypeOK
    <2> QED BY <1>1, <2>1, CountSend, CountEnter, CountLeave DEF SendNext
  <1>2. ASSUME UNCHANGED <<sendPc, sendTo, active>> PROVE CountInv'
    BY <1>2, CountKept
  <1>3. ASSUME NEW c \in Creates \cup Resources, CreateNext(c) PROVE CountInv'
    BY <1>2, <1>3 DEF CreateNext, Reserve, InsertSink, RegisterChannel, RegisterResource
  <1>4. ASSUME NEW h \in Handles, DropResource(h) PROVE CountInv'
    BY <1>2, <1>4 DEF DropResource
  <1>5. ASSUME NEW d \in Droppers, DropNext(d) PROVE CountInv'
    BY <1>2, <1>5 DEF DropNext, DropChannel, ReleaseSink, Unroute, RemoveSink, Close, Wake
  <1> QED BY <1>1, <1>2, <1>3, <1>4, <1>5 DEF Next, vars

LEMMA Invariance == Spec => [](IInv /\ CountInv)
  <1>1. Init => IInv /\ CountInv
    BY InvInit, CountInit
  <1>2. IInv /\ CountInv /\ [Next]_vars => (IInv /\ CountInv)'
    BY InvStep, CountStep DEF IInv, CountInv
  <1> QED BY <1>1, <1>2, PTL DEF Spec

-----------------------------------------------------------------------------
\* Every variable keeps its type.
THEOREM TypeCorrect == Spec => []TypeOK
  <1>1. IInv => TypeOK
    BY DEF IInv
  <1> QED BY <1>1, Invariance, PTL

\* No handle is handed out twice, though the counter is wider than the handles.
THEOREM HandlesUnique == Spec => []HandlesNeverReused
  <1>1. IInv => HandlesNeverReused
    BY DEF IInv, HandleInv, HandlesNeverReused
  <1> QED BY <1>1, Invariance, PTL

\* A channel that create has returned can be delivered to until it is dropped.
THEOREM CreatesComplete == Spec => []CreatedIsComplete
  <1>1. IInv => CreatedIsComplete
    BY DEF IInv, RouteInv, GateInv, DropInProgress, CreatedIsComplete
  <1> QED BY <1>1, Invariance, PTL

\* Drops and releases leave neither sinks nor, once the create is over, routes.
THEOREM NothingLeft == Spec => []DropLeavesNothing
  <1>1. IInv => DropLeavesNothing
    BY DEF IInv, DropInv, Unrouted, DropLeavesNothing
  <1> QED BY <1>1, Invariance, PTL

\* user_data may be freed when the drops of a handle have returned.
THEOREM DropsAreQuiet == Spec => []NoCallbackAfterQuietDrop
  <1>1. ASSUME IInv, CountInv, NEW h \in released, NEW e \in Sends,
               sendTo[e] = h, ~DropInProgress(h), sendPc[e] = "callback"
        PROVE  FALSE
    <2>1. h \in Handles /\ h \notin sinks /\ gate[h] # "new"
      BY <1>1 DEF IInv, DropInv, TypeOK
    <2>2. \A d \in Droppers : ~Took(d, h) /\ ~Waits(d, h)
      BY <1>1 DEF DropInProgress, Took, Waits
    <2>3. gate[h] = "closed"
      BY <1>1, <2>1, <2>2 DEF IInv, GateInv, TypeOK
    <2>4. active[h] = 0
      BY <1>1, <2>1, <2>2, <2>3 DEF IInv, GateInv
    <2>5. e \in Inside(h) /\ Cardinality(Inside(h)) = 0
      BY <1>1, <2>1, <2>4 DEF Inside, CountInv
    <2> QED BY <2>5, InsideFinite, FS_EmptySet
  <1>2. IInv /\ CountInv => NoCallbackAfterQuietDrop
    BY <1>1 DEF NoCallbackAfterQuietDrop
  <1> QED BY <1>2, Invariance, PTL

-----------------------------------------------------------------------------
(***************************************************************************)
(* TauriLeases.  The conjuncts of its inductive invariant.                 *)
(***************************************************************************)

\* Until the sender is there, the creation holds the table, then also the map.
CreationInv ==
  \A h \in LeaseHandles :
    /\ creation[h] = "idle" =>
         /\ h \notin leases \cup owners \cup leaseActive \cup routes \cup removed \cup gone
         /\ leaseDropping[h] = "no"
    /\ creation[h] # "idle" => owner[h] \in Leases!Holders
    /\ creation[h] = "leased" => h \notin owners
    /\ creation[h] \in {"leased", "owned"} =>
         /\ tableLock[owner[h]] = h /\ h \in leases
         /\ h \notin routes \cup removed \cup gone
    /\ creation[h] = "owned" => ownersLock = h /\ h \in owners

\* Whoever takes the lease drops it, and what he has dropped is in no table; a sender
\* that is left has its owner, or the clean-up has the channel, or the dropper.
DroppingInv ==
  \A h \in LeaseHandles :
    /\ creation[h] # "idle" => (h \in leases <=> leaseDropping[h] = "no")
    /\ leaseDropping[h] \in {"inactive", "unowned", "done"} => h \notin leaseActive
    /\ leaseDropping[h] \in {"unowned", "done"} => h \notin owners
    /\ leaseDropping[h] = "done" => h \notin routes
    /\ h \in routes => h \in owners \/ h \in removed \/ leaseDropping[h] = "unowned"

\* What the clean-up has taken out of the map has no owner and sends no more; the one
\* it is at has no sender either.
ClearingInv ==
  /\ removed \cap (owners \cup leaseActive) = {}
  /\ clearing = "idle" => removed = {}
  /\ clearing \in {"routed", "releasing"} => current \in removed \ routes
  /\ clearing = "releasing" => current \notin leases
  /\ \A c \in Closers : closing[c] # "idle" => wanted[c] \in LeaseHandles
  /\ Leases!GoneIsGone

LeaseInv == Leases!TypeOK /\ CreationInv /\ DroppingInv /\ ClearingInv

USE DEF Leases!holderVars, Leases!channelVars, Leases!lockVars, Leases!closeVars, Leases!clearVars

LEMMA LeaseInit == Leases!Init => LeaseInv
  BY DEF Leases!Init, LeaseInv, Leases!TypeOK, CreationInv, DroppingInv, ClearingInv,
         Leases!GoneIsGone, Leases!Holders

LEMMA InvAddLease ==
  ASSUME LeaseInv, NEW h \in LeaseHandles, NEW w \in Leases!Holders, Leases!AddLease(h, w) PROVE LeaseInv'
  <1> USE LeasesAssumption DEF LeaseInv, Leases!AddLease
  <1>1. Leases!TypeOK'
    BY DEF Leases!TypeOK, CreationInv, ClearingInv, Leases!Holders
  <1>2. CreationInv'
    BY DEF Leases!TypeOK, CreationInv, DroppingInv, ClearingInv, Leases!GoneIsGone
  <1>3. DroppingInv'
    BY DEF Leases!TypeOK, CreationInv, DroppingInv, ClearingInv
  <1>4. ClearingInv'
    BY DEF Leases!TypeOK, CreationInv, DroppingInv, ClearingInv, Leases!GoneIsGone
  <1> QED BY <1>1, <1>2, <1>3, <1>4

LEMMA InvInsertOwner ==
  ASSUME LeaseInv, NEW h \in LeaseHandles, Leases!InsertOwner(h) PROVE LeaseInv'
  <1> USE LeasesAssumption DEF LeaseInv, Leases!InsertOwner
  <1>1. Leases!TypeOK'
    BY DEF Leases!TypeOK, CreationInv, ClearingInv, Leases!Holders
  <1>2. CreationInv'
    BY DEF Leases!TypeOK, CreationInv, DroppingInv, ClearingInv, Leases!GoneIsGone
  <1>3. DroppingInv'
    BY DEF Leases!TypeOK, CreationInv, DroppingInv, ClearingInv
  <1>4. ClearingInv'
    BY DEF Leases!TypeOK, CreationInv, DroppingInv, ClearingInv, Leases!GoneIsGone
  <1> QED BY <1>1, <1>2, <1>3, <1>4

LEMMA InvRegisterSender ==
  ASSUME LeaseInv, NEW h \in LeaseHandles, Leases!RegisterSender(h) PROVE LeaseInv'
  <1> USE LeasesAssumption DEF LeaseInv, Leases!RegisterSender
  <1>1. Leases!TypeOK'
    BY DEF Leases!TypeOK, CreationInv, ClearingInv, Leases!Holders
  <1>2. CreationInv'
    BY DEF Leases!TypeOK, CreationInv, DroppingInv, ClearingInv, Leases!GoneIsGone
  <1>3. DroppingInv'
    BY DEF Leases!TypeOK, CreationInv, DroppingInv, ClearingInv
  <1>4. ClearingInv'
    BY DEF Leases!TypeOK, CreationInv, DroppingInv, ClearingInv, Leases!GoneIsGone
  <1> QED BY <1>1, <1>2, <1>3, <1>4

LEMMA InvDeactivate ==
  ASSUME LeaseInv, NEW h \in LeaseHandles, Leases!Deactivate(h) PROVE LeaseInv'
  <1> USE LeasesAssumption DEF LeaseInv, Leases!Deactivate
  <1>1. Leases!TypeOK'
    BY DEF Leases!TypeOK, CreationInv, ClearingInv, Leases!Holders
  <1>2. CreationInv'
    BY DEF Leases!TypeOK, CreationInv, DroppingInv, ClearingInv, Leases!GoneIsGone
  <1>3. DroppingInv'
    BY DEF Leases!TypeOK, CreationInv, DroppingInv, ClearingInv
  <1>4. ClearingInv'
    BY DEF Leases!TypeOK, CreationInv, DroppingInv, ClearingInv, Leases!GoneIsGone
  <1> QED BY <1>1, <1>2, <1>3, <1>4

LEMMA InvRemoveOwner ==
  ASSUME LeaseInv, NEW h \in LeaseHandles, Leases!RemoveOwner(h) PROVE LeaseInv'
  <1> USE LeasesAssumption DEF LeaseInv, Leases!RemoveOwner
  <1>1. Leases!TypeOK'
    BY DEF Leases!TypeOK, CreationInv, ClearingInv, Leases!Holders
  <1>2. CreationInv'
    BY DEF Leases!TypeOK, CreationInv, DroppingInv, ClearingInv, Leases!GoneIsGone
  <1>3. DroppingInv'
    BY DEF Leases!TypeOK, CreationInv, DroppingInv, ClearingInv
  <1>4. ClearingInv'
    BY DEF Leases!TypeOK, CreationInv, DroppingInv, ClearingInv, Leases!GoneIsGone
  <1> QED BY <1>1, <1>2, <1>3, <1>4

LEMMA InvDropSender ==
  ASSUME LeaseInv, NEW h \in LeaseHandles, Leases!DropChannel(h) PROVE LeaseInv'
  <1> USE LeasesAssumption DEF LeaseInv, Leases!DropChannel
  <1>1. Leases!TypeOK'
    BY DEF Leases!TypeOK, CreationInv, ClearingInv, Leases!Holders
  <1>2. CreationInv'
    BY DEF Leases!TypeOK, CreationInv, DroppingInv, ClearingInv, Leases!GoneIsGone
  <1>3. DroppingInv'
    BY DEF Leases!TypeOK, CreationInv, DroppingInv, ClearingInv
  <1>4. ClearingInv'
    BY DEF Leases!TypeOK, CreationInv, DroppingInv, ClearingInv, Leases!GoneIsGone
  <1> QED BY <1>1, <1>2, <1>3, <1>4

LEMMA InvCloseResource ==
  ASSUME LeaseInv, NEW h \in LeaseHandles, Leases!CloseResource(h) PROVE LeaseInv'
  <1> USE LeasesAssumption DEF LeaseInv, Leases!CloseResource, Leases!TakeLease
  <1>1. Leases!TypeOK'
    BY DEF Leases!TypeOK, CreationInv, ClearingInv, Leases!Holders
  <1>2. CreationInv'
    BY DEF Leases!TypeOK, CreationInv, DroppingInv, ClearingInv, Leases!GoneIsGone
  <1>3. DroppingInv'
    BY DEF Leases!TypeOK, CreationInv, DroppingInv, ClearingInv
  <1>4. ClearingInv'
    BY DEF Leases!TypeOK, CreationInv, DroppingInv, ClearingInv, Leases!GoneIsGone
  <1> QED BY <1>1, <1>2, <1>3, <1>4

LEMMA InvFindOwner ==
  ASSUME LeaseInv, NEW h \in LeaseHandles, NEW c \in Closers,
         NEW w \in Leases!Holders, Leases!FindOwner(c, h, w) PROVE LeaseInv'
  <1> USE LeasesAssumption DEF LeaseInv, Leases!FindOwner
  <1>1. Leases!TypeOK'
    BY DEF Leases!TypeOK, CreationInv, ClearingInv, Leases!Holders
  <1>2. CreationInv'
    BY DEF Leases!TypeOK, CreationInv, DroppingInv, ClearingInv, Leases!GoneIsGone
  <1>3. DroppingInv'
    BY DEF Leases!TypeOK, CreationInv, DroppingInv, ClearingInv
  <1>4. ClearingInv'
    BY DEF Leases!TypeOK, CreationInv, DroppingInv, ClearingInv, Leases!GoneIsGone
  <1> QED BY <1>1, <1>2, <1>3, <1>4

LEMMA InvCloseLease ==
  ASSUME LeaseInv, NEW c \in Closers, Leases!CloseLease(c) PROVE LeaseInv'
  <1> USE LeasesAssumption DEF LeaseInv, Leases!CloseLease, Leases!TakeLease
  <1>1. Leases!TypeOK'
    BY DEF Leases!TypeOK, CreationInv, ClearingInv, Leases!Holders
  <1>2. CreationInv'
    BY DEF Leases!TypeOK, CreationInv, DroppingInv, ClearingInv, Leases!GoneIsGone
  <1>3. DroppingInv'
    BY DEF Leases!TypeOK, CreationInv, DroppingInv, ClearingInv
  <1>4. ClearingInv'
    BY DEF Leases!TypeOK, CreationInv, DroppingInv, ClearingInv, Leases!GoneIsGone
  <1> QED BY <1>1, <1>2, <1>3, <1>4

LEMMA InvCloseReturns ==
  ASSUME LeaseInv, NEW c \in Closers, Leases!CloseReturns(c) PROVE LeaseInv'
  <1> USE LeasesAssumption DEF LeaseInv, Leases!CloseReturns
  <1>1. Leases!TypeOK'
    BY DEF Leases!TypeOK, CreationInv, ClearingInv, Leases!Holders
  <1>2. CreationInv'
    BY DEF Leases!TypeOK, CreationInv, DroppingInv, ClearingInv, Leases!GoneIsGone
  <1>3. DroppingInv'
    BY DEF Leases!TypeOK, CreationInv, DroppingInv, ClearingInv
  <1>4. ClearingInv'
    BY DEF Leases!TypeOK, CreationInv, DroppingInv, ClearingInv, Leases!GoneIsGone
  <1> QED BY <1>1, <1>2, <1>3, <1>4

LEMMA InvClearMatching ==
  ASSUME LeaseInv, NEW matching, Leases!ClearMatching(matching), open' \subseteq Webviews PROVE LeaseInv'
  <1> USE LeasesAssumption DEF LeaseInv, Leases!ClearMatching
  <1>1. Leases!TypeOK'
    BY DEF Leases!TypeOK, CreationInv, ClearingInv, Leases!Holders
  <1>2. CreationInv'
    BY DEF Leases!TypeOK, CreationInv, DroppingInv, ClearingInv, Leases!GoneIsGone
  <1>3. DroppingInv'
    BY DEF Leases!TypeOK, CreationInv, DroppingInv, ClearingInv
  <1>4. ClearingInv'
    BY DEF Leases!TypeOK, CreationInv, DroppingInv, ClearingInv, Leases!GoneIsGone
  <1> QED BY <1>1, <1>2, <1>3, <1>4

LEMMA InvClearNext ==
  ASSUME LeaseInv, NEW h \in LeaseHandles, Leases!ClearNext(h) PROVE LeaseInv'
  <1> USE LeasesAssumption DEF LeaseInv, Leases!ClearNext
  <1>1. Leases!TypeOK'
    BY DEF Leases!TypeOK, CreationInv, ClearingInv, Leases!Holders
  <1>2. CreationInv'
    BY DEF Leases!TypeOK, CreationInv, DroppingInv, ClearingInv, Leases!GoneIsGone
  <1>3. DroppingInv'
    BY DEF Leases!TypeOK, CreationInv, DroppingInv, ClearingInv
  <1>4. ClearingInv'
    BY DEF Leases!TypeOK, CreationInv, DroppingInv, ClearingInv, Leases!GoneIsGone
  <1> QED BY <1>1, <1>2, <1>3, <1>4

LEMMA InvRelease ==
  ASSUME LeaseInv, Leases!Release PROVE LeaseInv'
  <1> USE LeasesAssumption DEF LeaseInv, Leases!Release, Leases!Cleared, Leases!TakeLease
  <1>1. Leases!TypeOK'
    BY DEF Leases!TypeOK, CreationInv, ClearingInv, Leases!Holders
  <1>2. CreationInv'
    BY DEF Leases!TypeOK, CreationInv, DroppingInv, ClearingInv, Leases!GoneIsGone
  <1>3. DroppingInv'
    BY DEF Leases!TypeOK, CreationInv, DroppingInv, ClearingInv
  <1>4. ClearingInv'
    BY DEF Leases!TypeOK, CreationInv, DroppingInv, ClearingInv, Leases!GoneIsGone
  <1> QED BY <1>1, <1>2, <1>3, <1>4

LEMMA InvReleased ==
  ASSUME LeaseInv, Leases!Released \/ Leases!ClearReturns PROVE LeaseInv'
  <1> USE LeasesAssumption DEF LeaseInv, Leases!Released, Leases!Cleared, Leases!ClearReturns
  <1>1. Leases!TypeOK'
    BY DEF Leases!TypeOK, CreationInv, ClearingInv, Leases!Holders
  <1>2. CreationInv'
    BY DEF Leases!TypeOK, CreationInv, DroppingInv, ClearingInv, Leases!GoneIsGone
  <1>3. DroppingInv'
    BY DEF Leases!TypeOK, CreationInv, DroppingInv, ClearingInv
  <1>4. ClearingInv'
    BY DEF Leases!TypeOK, CreationInv, DroppingInv, ClearingInv, Leases!GoneIsGone
  <1> QED BY <1>1, <1>2, <1>3, <1>4

LEMMA InvWebviewCloses ==
  ASSUME LeaseInv, NEW w \in Webviews, Leases!WebviewCloses(w) PROVE LeaseInv'
  <1> USE LeasesAssumption DEF LeaseInv, Leases!WebviewCloses
  <1>1. Leases!TypeOK'
    BY DEF Leases!TypeOK, CreationInv, ClearingInv, Leases!Holders
  <1>2. CreationInv'
    BY DEF Leases!TypeOK, CreationInv, DroppingInv, ClearingInv, Leases!GoneIsGone
  <1>3. DroppingInv'
    BY DEF Leases!TypeOK, CreationInv, DroppingInv, ClearingInv
  <1>4. ClearingInv'
    BY DEF Leases!TypeOK, CreationInv, DroppingInv, ClearingInv, Leases!GoneIsGone
  <1> QED BY <1>1, <1>2, <1>3, <1>4

LEMMA LeaseNext == LeaseInv /\ Leases!Next => LeaseInv'
  <1> SUFFICES ASSUME LeaseInv, Leases!Next PROVE LeaseInv'
    OBVIOUS
  <1>1. open \subseteq Webviews
    BY DEF LeaseInv, Leases!TypeOK
  <1>2. ASSUME NEW h \in LeaseHandles, Leases!Publish(h) \/ Leases!Drop(h) \/ Leases!CloseResource(h)
        PROVE  LeaseInv'
    BY <1>2, InvInsertOwner, InvRegisterSender, InvDeactivate, InvRemoveOwner, InvDropSender,
       InvCloseResource DEF Leases!Publish, Leases!Drop
  <1>3. ASSUME NEW h \in LeaseHandles, NEW w \in Leases!Holders,
               Leases!AddLease(h, w) \/ \E c \in Closers : Leases!FindOwner(c, h, w)
        PROVE  LeaseInv'
    BY <1>3, InvAddLease, InvFindOwner
  <1>4. ASSUME NEW c \in Closers, Leases!CloseLease(c) \/ Leases!CloseReturns(c) PROVE LeaseInv'
    BY <1>4, InvCloseLease, InvCloseReturns
  <1>5. ASSUME NEW w \in Webviews,
               Leases!WebviewReady(w) \/ Leases!Navigation(w) \/ Leases!WindowDestroyed(w)
        PROVE  LeaseInv'
    <2>1. /\ Leases!ClearMatching(Leases!OwnedBy(w)) /\ open' \subseteq Webviews
      BY <1>1, <1>5 DEF Leases!WebviewReady, Leases!Navigation, Leases!WindowDestroyed
    <2> QED BY <2>1, InvClearMatching
  <1>6. ASSUME NEW w \in Webviews, Leases!WebviewCloses(w) PROVE LeaseInv'
    BY <1>6, InvWebviewCloses
  <1>7. CASE Leases!MainEventsCleared \/ Leases!Exit
    <2>1. PICK matching : Leases!ClearMatching(matching) /\ open' = open
      BY <1>7 DEF Leases!MainEventsCleared, Leases!Exit
    <2> QED BY <1>1, <2>1, InvClearMatching
  <1>8. CASE Leases!Clear
    BY <1>8, InvRelease, InvReleased, InvClearNext DEF Leases!Clear
  <1> QED BY <1>2, <1>3, <1>4, <1>5, <1>6, <1>7, <1>8 DEF Leases!Next

LEMMA LeaseKept == LeaseInv /\ UNCHANGED leaseVars => LeaseInv'
  BY DEF leaseVars, LeaseInv, Leases!TypeOK, CreationInv, DroppingInv, ClearingInv, Leases!GoneIsGone

(***************************************************************************)
(* The theorems about both.                                                *)
(***************************************************************************)

\* The invariants of the two parts hold together.
LEMMA ChannelsInvariance == ChannelsSpec => [](IInv /\ CountInv /\ LeaseInv)
  <1>1. ChannelsInit => IInv /\ CountInv /\ LeaseInv
    BY InvInit, CountInit, LeaseInit DEF ChannelsInit
  <1>2. ASSUME IInv /\ CountInv /\ LeaseInv, [(AtCore /\ Next) \/ (AtLeases /\ Leases!Next)]_all
        PROVE  (IInv /\ CountInv /\ LeaseInv)'
    <2>1. TypeOK /\ SendInv
      BY <1>2 DEF IInv, CountInv
    <2>2. CASE [Next]_vars /\ UNCHANGED leaseVars
      BY <1>2, <2>1, <2>2, InvStep, CountStep, LeaseKept
    <2>3. CASE Leases!Next /\ UNCHANGED vars
      BY <1>2, <2>1, <2>3, InvStep, CountStep, LeaseNext
    <2> QED BY <1>2, <2>2, <2>3 DEF AtCore, AtLeases, all
  <1> QED BY <1>1, <1>2, PTL DEF ChannelsSpec

\* A sender has its lease and its owner, or somebody is about to take it away; and
\* what was closed or cleared is in no table and does not come back
\* (tauri_channel_ownership.rs).
THEOREM LeasesAlwaysAgree == ChannelsSpec => []LeasesAgree
  <1>1. LeaseInv => Leases!NoOrphans
    BY DEF LeaseInv, Leases!TypeOK, CreationInv, DroppingInv, Leases!NoOrphans
  <1>2. LeaseInv => LeasesAgree
    BY <1>1 DEF LeaseInv, ClearingInv, LeasesAgree, Leases!LeasesAgree
  <1> QED BY <1>2, ChannelsInvariance, PTL
================================================================================
