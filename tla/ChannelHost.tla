------------------------------ MODULE ChannelHost ------------------------------
(***************************************************************************)
(* Call-bound channels from Rust to the host (crates/rustra/src):          *)
(*   channels_host.rs  the handle counter, the channel and resource tables *)
(*   ffi_channel.rs    create, send, drop, and the gate of every C sink    *)
(*   ffi_scriptc.rs    release by identity, completion into a channel      *)
(*                                                                         *)
(* JSON and binary channels have a table and a sink map each and share the *)
(* handles; a handle has one kind for life, so one table and one map hold  *)
(* both, and a send of the wrong kind does not find its handle.            *)
(***************************************************************************)
EXTENDS Integers, FiniteSets

CONSTANTS
  Creates,     \* calls of create and create_bytes
  BytesCreates,\* those of create_bytes
  Identity,    \* the (callback, user_data) of each of those
  Resources,   \* calls of register_resource
  Sends,       \* calls of send and send_bytes, and of invoke_json_async_channel
  BytesSends,  \* those of send_bytes
  Completions, \* those of invoke_json_async_channel, which send their reply
  TooLarge,    \* sends over the payload limit
  NulSends,    \* JSON sends with an interior NUL
  Droppers,    \* threads that drop and release channels
  MaxHandle    \* u32::MAX

ASSUME ActorsAssumption == IsFiniteSet(Sends) /\ BytesCreates \subseteq Creates
                           /\ BytesSends \subseteq Sends /\ Completions \subseteq Sends \ BytesSends
                           /\ TooLarge \subseteq Sends \ Completions
                           /\ NulSends \subseteq Sends \ (BytesSends \cup Completions)
                           /\ Creates \cap Resources = {} /\ DOMAIN Identity = BytesCreates
ASSUME MaxHandleAssumption == MaxHandle \in Nat \ {0}

Handles == 1..MaxHandle      \* 0 says the space is exhausted

VARIABLES
  nextHandle,  \* the u64 counter behind the u32 handles
  createPc, handle,      \* each create: its place, the handle it drew
  hostTable,   \* handles that ChannelHost routes
  sinks,       \* handles in FFI_CHANNEL_SINKS and FFI_CHANNEL_BYTES_SINKS
  gate, active,          \* the gate of the sink of each handle
  resources,   \* handles in ChannelHost.resources
  sendPc, sendTo,        \* each send: its place, its handle
  dropPc, dropping, hostRemoved,  \* each dropper: its place, handle, first result
  bytes,       \* history: handles created by create_bytes
  drawn,       \* history: how often each handle was handed out
  released,    \* history: handles whose drop returned 1 or whose release returned
  caught       \* history: handles released before their create had returned

tableVars == <<hostTable, sinks, resources>>
gateVars  == <<gate, active>>
createVars == <<nextHandle, createPc, handle, bytes, drawn>>
sendVars  == <<sendPc, sendTo>>
dropVars  == <<dropPc, dropping, hostRemoved, released, caught>>
vars == <<tableVars, gateVars, createVars, sendVars, dropVars>>

Init ==
  /\ nextHandle = 1
  /\ createPc = [c \in Creates \cup Resources |-> "idle"]
  /\ handle = [c \in Creates \cup Resources |-> 0]
  /\ hostTable = {} /\ sinks = {} /\ resources = {}
  /\ gate = [h \in Handles |-> "new"]
  /\ active = [h \in Handles |-> 0]
  /\ sendPc = [e \in Sends |-> "idle"]
  /\ sendTo = [e \in Sends |-> 0]
  /\ dropPc = [d \in Droppers |-> "idle"]
  /\ dropping = [d \in Droppers |-> 0]
  /\ hostRemoved = [d \in Droppers |-> FALSE]
  /\ bytes = {} /\ released = {} /\ caught = {}
  /\ drawn = [h \in Handles |-> 0]

-----------------------------------------------------------------------------
(* reserve_handle: fetch_add on the u64, 0 when the u32 space is used up. *)
DrawHandle(c) ==
  /\ nextHandle' = nextHandle + 1
  /\ handle' = [handle EXCEPT ![c] = IF nextHandle \in Handles THEN nextHandle ELSE 0]
  /\ drawn' = [h \in Handles |-> IF h = nextHandle THEN drawn[h] + 1 ELSE drawn[h]]

Reserve(c) ==
  /\ createPc[c] = "idle"
  /\ DrawHandle(c)
  /\ createPc' = [createPc EXCEPT ![c] = IF handle'[c] = 0 THEN "created" ELSE "reserved"]
  /\ UNCHANGED <<tableVars, gateVars, bytes, sendVars, dropVars>>

InsertSink(c) ==
  /\ c \in Creates /\ createPc[c] = "reserved"
  /\ sinks' = sinks \cup {handle[c]}
  /\ gate' = [gate EXCEPT ![handle[c]] = "open"]
  /\ bytes' = IF c \in BytesCreates THEN bytes \cup {handle[c]} ELSE bytes
  /\ createPc' = [createPc EXCEPT ![c] = "inserted"]
  /\ UNCHANGED <<hostTable, resources, active, nextHandle, handle, drawn, sendVars, dropVars>>

RegisterChannel(c) ==
  /\ createPc[c] = "inserted"
  /\ hostTable' = hostTable \cup {handle[c]}
  /\ createPc' = [createPc EXCEPT ![c] = "created"]
  /\ UNCHANGED <<sinks, resources, gateVars, nextHandle, handle, bytes, drawn, sendVars, dropVars>>

RegisterResource(c) ==
  /\ c \in Resources /\ createPc[c] = "reserved"
  /\ resources' = resources \cup {handle[c]}
  /\ createPc' = [createPc EXCEPT ![c] = "created"]
  /\ UNCHANGED <<hostTable, sinks, gateVars, nextHandle, handle, bytes, drawn, sendVars, dropVars>>

DropResource(h) ==
  /\ h \in resources
  /\ resources' = resources \ {h}
  /\ UNCHANGED <<hostTable, sinks, gateVars, createVars, sendVars, dropVars>>

Issued == {handle[c] : c \in {x \in Creates \cup Resources : createPc[x] = "created"}} \ {0}

-----------------------------------------------------------------------------
(* send: the sender is cloned under the table's mutex and called outside it. *)

Send(e, h) ==
  /\ e \notin Completions /\ sendPc[e] = "idle"
  /\ LET found == h \in hostTable /\ (h \in bytes <=> e \in BytesSends)
     IN  sendPc' = [sendPc EXCEPT ![e] =
                     IF e \notin TooLarge /\ found THEN "cloned" ELSE "refused"]
  /\ sendTo' = [sendTo EXCEPT ![e] = h]
  /\ UNCHANGED <<tableVars, gateVars, createVars, dropVars>>

(* Mutant: the gate is not looked at. *)
MutEnter(e) ==
  /\ sendPc[e] = "cloned"
  /\ active' = [active EXCEPT ![sendTo[e]] = @ + 1]
  /\ sendPc' = [sendPc EXCEPT ![e] = "callback"]
  /\ UNCHANGED <<tableVars, gate, createVars, sendTo, dropVars>>

Enter(e) ==
  /\ sendPc[e] = "cloned"
  /\ IF gate[sendTo[e]] = "open"
       THEN /\ active' = [active EXCEPT ![sendTo[e]] = @ + 1]
            /\ sendPc' = [sendPc EXCEPT ![e] = IF e \in NulSends THEN "leaving" ELSE "callback"]
       ELSE /\ sendPc' = [sendPc EXCEPT ![e] = "sent"]
            /\ UNCHANGED active
  /\ UNCHANGED <<tableVars, gate, createVars, sendTo, dropVars>>

(* rustra_ffi_invoke_json_async_channel: the sink itself is cloned, routed or  *)
(* not; the call is AsyncDispatch's, and its completion enters the gate like a *)
(* send, whatever the reply.                                                   *)
Submit(e, h) ==
  /\ e \in Completions /\ sendPc[e] = "idle"
  /\ sendPc' = [sendPc EXCEPT ![e] = IF h \in sinks \cap bytes THEN "cloned" ELSE "refused"]
  /\ sendTo' = [sendTo EXCEPT ![e] = h]
  /\ UNCHANGED <<tableVars, gateVars, createVars, dropVars>>

CallbackReturns(e) ==
  /\ sendPc[e] = "callback"
  /\ sendPc' = [sendPc EXCEPT ![e] = "leaving"]
  /\ UNCHANGED <<tableVars, gateVars, createVars, sendTo, dropVars>>

(* Mutant: nobody is told that the callbacks are over. *)
MutNotified(h) == dropPc

Notified(h) ==
  [d \in Droppers |-> IF dropPc[d] = "asleep" /\ dropping[d] = h /\ active'[h] = 0
                        THEN "woken" ELSE dropPc[d]]

Leave(e) ==
  /\ sendPc[e] = "leaving"
  /\ active' = [active EXCEPT ![sendTo[e]] = IF @ = 0 THEN 0 ELSE @ - 1]
  /\ dropPc' = Notified(sendTo[e])
  /\ sendPc' = [sendPc EXCEPT ![e] = "sent"]
  /\ UNCHANGED <<tableVars, gate, createVars, sendTo, dropping, hostRemoved, released, caught>>

-----------------------------------------------------------------------------
(* rustra_ffi_channel_drop: the table, then the sink map, then the gate.  A   *)
(* dropper may drop again; it drops handles a create has returned.           *)

DropChannel(d, h) ==
  /\ dropPc[d] = "idle" /\ h \in Issued
  /\ hostTable' = hostTable \ {h}
  /\ hostRemoved' = [hostRemoved EXCEPT ![d] = h \in hostTable]
  /\ dropping' = [dropping EXCEPT ![d] = h]
  /\ dropPc' = [dropPc EXCEPT ![d] = "unrouted"]
  /\ UNCHANGED <<sinks, resources, gateVars, createVars, sendVars, released, caught>>

Dropped(d, result) ==
  /\ dropPc' = [dropPc EXCEPT ![d] = "idle"]
  /\ released' = IF result THEN released \cup {dropping[d]} ELSE released

(* Mutant: the sink stays in the map. *)
MutRemoveSink(d) ==
  /\ dropPc[d] = "unrouted"
  /\ IF dropping[d] \in sinks
       THEN dropPc' = [dropPc EXCEPT ![d] = "closing"] /\ UNCHANGED released
       ELSE Dropped(d, hostRemoved[d])
  /\ UNCHANGED <<tableVars, gateVars, createVars, sendVars, dropping, hostRemoved, caught>>

RemoveSink(d) ==
  /\ dropPc[d] = "unrouted"
  /\ sinks' = sinks \ {dropping[d]}
  /\ IF dropping[d] \in sinks
       THEN dropPc' = [dropPc EXCEPT ![d] = "closing"] /\ UNCHANGED released
       ELSE Dropped(d, hostRemoved[d])
  /\ UNCHANGED <<hostTable, resources, gateVars, createVars, sendVars, dropping, hostRemoved, caught>>

WaitQuiescent(d) ==
  IF active[dropping[d]] = 0
    THEN Dropped(d, TRUE)
    ELSE dropPc' = [dropPc EXCEPT ![d] = "asleep"] /\ UNCHANGED released

Close(d) ==
  /\ dropPc[d] = "closing"
  /\ gate' = [gate EXCEPT ![dropping[d]] = "closed"]
  /\ WaitQuiescent(d)
  /\ UNCHANGED <<tableVars, active, createVars, sendVars, dropping, hostRemoved, caught>>

Wake(d) ==
  /\ dropPc[d] = "woken"
  /\ WaitQuiescent(d)
  /\ UNCHANGED <<tableVars, gateVars, createVars, sendVars, dropping, hostRemoved, caught>>

(* rustra_ffi_channel_release_scriptc: the newest binary channel of the pair   *)
(* leaves the sink map, then the table, then its gate is closed.  A pair that  *)
(* is not registered is none of its business.                                  *)
Owned(id) == sinks \cap {handle[c] : c \in {x \in BytesCreates : Identity[x] = id}}

Newest(id, h) == h \in Owned(id) /\ \A g \in Owned(id) : g <= h

ReleaseSink(d, id) ==
  /\ dropPc[d] = "idle"
  /\ \E h \in Handles :
       /\ Newest(id, h)
       /\ sinks' = sinks \ {h}
       /\ dropping' = [dropping EXCEPT ![d] = h]
       /\ caught' = IF h \in Issued THEN caught ELSE caught \cup {h}
  /\ dropPc' = [dropPc EXCEPT ![d] = "unsunk"]
  /\ UNCHANGED <<hostTable, resources, gateVars, createVars, sendVars, hostRemoved, released>>

Unroute(d) ==
  /\ dropPc[d] = "unsunk"
  /\ hostTable' = hostTable \ {dropping[d]}
  /\ dropPc' = [dropPc EXCEPT ![d] = "closing"]
  /\ UNCHANGED <<sinks, resources, gateVars, createVars, sendVars, dropping, hostRemoved,
                 released, caught>>

-----------------------------------------------------------------------------
CreateNext(c) == Reserve(c) \/ InsertSink(c) \/ RegisterChannel(c) \/ RegisterResource(c)

SendNext(e) ==
  \/ \E h \in Handles : Send(e, h) \/ Submit(e, h)
  \/ Enter(e) \/ CallbackReturns(e) \/ Leave(e)

DropNext(d) ==
  \/ \E h \in Handles : DropChannel(d, h)
  \/ \E c \in BytesCreates : ReleaseSink(d, Identity[c])
  \/ Unroute(d) \/ RemoveSink(d) \/ Close(d) \/ Wake(d)

Next ==
  \/ \E c \in Creates \cup Resources : CreateNext(c)
  \/ \E h \in Handles : DropResource(h)
  \/ \E e \in Sends : SendNext(e)
  \/ \E d \in Droppers : DropNext(d)

Spec == Init /\ [][Next]_vars

-----------------------------------------------------------------------------
(* The states of every variable. *)
TypeOK ==
  /\ nextHandle \in Nat \ {0}
  /\ createPc \in [Creates \cup Resources -> {"idle", "reserved", "inserted", "created"}]
  /\ handle \in [Creates \cup Resources -> Handles \cup {0}]
  /\ hostTable \subseteq Handles /\ sinks \subseteq Handles /\ resources \subseteq Handles
  /\ gate \in [Handles -> {"new", "open", "closed"}]
  /\ active \in [Handles -> Nat]
  /\ sendPc \in [Sends -> {"idle", "cloned", "callback", "leaving", "sent", "refused"}]
  /\ sendTo \in [Sends -> Handles \cup {0}]
  /\ dropPc \in [Droppers -> {"idle", "unrouted", "unsunk", "closing", "asleep", "woken"}]
  /\ dropping \in [Droppers -> Handles \cup {0}]
  /\ hostRemoved \in [Droppers -> BOOLEAN]
  /\ {bytes, released, caught} \subseteq SUBSET Handles
  /\ drawn \in [Handles -> Nat]

(* A handle is handed out once, to one channel or one resource, however far   *)
(* the counter runs (channels_host.rs:7-10).                                  *)
HandlesNeverReused == \A h \in Handles : drawn[h] <= 1

DropInProgress(h) == \E d \in Droppers : dropPc[d] # "idle" /\ dropping[d] = h

(* Once a drop has returned 1, or a release by identity has returned, and no   *)
(* other one of the handle is on its way, no callback of the channel runs or   *)
(* will run, be it that of a send or of the completion of a call.              *)
NoCallbackAfterQuietDrop ==
  \A h \in released, e \in Sends :
    sendTo[e] = h /\ ~DropInProgress(h) => sendPc[e] # "callback"

(* A drop leaves nothing behind: neither a sink nobody will close nor a route, *)
(* except that a create which has not returned yet still registers the route   *)
(* of a sink that has been released meanwhile.                                 *)
DropLeavesNothing ==
  \A h \in released :
    /\ h \notin caught => h \notin hostTable
    /\ ~DropInProgress(h) => h \notin sinks

(* A channel that has been created and that nobody drops is fully there.      *)
CreatedIsComplete ==
  \A c \in Creates :
    /\ createPc[c] = "created" /\ handle[c] \in hostTable \ caught
    /\ ~DropInProgress(handle[c])
    =>
      handle[c] \in sinks /\ gate[handle[c]] = "open"

(* ffi_channel.rs:153-155, of every drop that returned 1: the callbacks that  *)
(* had started are over, and user_data may be freed.                          *)
NoCallbackAfterDrop ==
  \A h \in released, e \in Sends : sendTo[e] = h => sendPc[e] # "callback"
===============================================================================
