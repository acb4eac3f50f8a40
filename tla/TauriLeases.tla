------------------------------ MODULE TauriLeases ------------------------------
(***************************************************************************)
(* Who owns a channel of a Tauri application                               *)
(* (crates/rustra/src/tauri_channel_ownership.rs, tauri_channels.rs).  A   *)
(* channel is in three tables: as a lease in the resource table of the     *)
(* webview that made it (or of the application), as an owner in the map of *)
(* owners, and as a sender with the channel host.  Each table has a lock   *)
(* of its own; a close by JavaScript comes through the first, the clean-up *)
(* after a navigation or a closed window through the second, and whoever   *)
(* takes the lease drops it, on his own thread, from the other two.        *)
(*                                                                         *)
(* The threads of commands and events are Tauri's, as are the resource     *)
(* tables: commands run on any thread, events of the application one at a  *)
(* time.                                                                   *)
(***************************************************************************)
CONSTANTS
  Handles,    \* reserve_handle, which gives none twice
  Webviews,
  App,        \* the owner of what the Rust host creates
  Closers,    \* threads in rustra_channel_drop or drop_channel_for
  Free

Holders == Webviews \cup {App}

VARIABLES
  open,          \* webviews that exist
  owner,         \* the holder of each handle, or Free
  creation,      \* of each handle: "idle", "leased", "owned", "published"
  leases,        \* handles in the resource table of their holder
  owners,        \* the map of owners
  active,        \* the flag senders look at before each packet
  routes,        \* handles with a sender at the channel host
  tableLock, ownersLock,     \* the handle on whose behalf each is held, or Free
  dropping,      \* ChannelLease::drop: "no", "taken", "inactive", "unowned", "done"
  closing, wanted,           \* drop_webview, drop_app: where each closer is, its handle
  clearing, removed, current,\* clear_matching: "idle", "next", "routed", "releasing"
  gone                       \* history: closed with true, or cleared

holderVars == <<open, owner, creation>>
channelVars == <<leases, owners, active, routes>>
lockVars == <<tableLock, ownersLock>>
closeVars == <<closing, wanted>>
clearVars == <<clearing, removed, current>>
vars == <<holderVars, channelVars, lockVars, dropping, closeVars, clearVars, gone>>

Init ==
  /\ open = Webviews
  /\ owner = [h \in Handles |-> Free] /\ creation = [h \in Handles |-> "idle"]
  /\ leases = {} /\ owners = {} /\ active = {} /\ routes = {}
  /\ tableLock = [w \in Holders |-> Free] /\ ownersLock = Free
  /\ dropping = [h \in Handles |-> "no"]
  /\ closing = [c \in Closers |-> "idle"] /\ wanted = [c \in Closers |-> Free]
  /\ clearing = "idle" /\ removed = {} /\ current = Free
  /\ gone = {}

-----------------------------------------------------------------------------
(* create_webview_channel and create_channel_for: the lease, the owner, the   *)
(* sender, in this order under the locks of the table and of the map.  The    *)
(* webview may have navigated or closed since it asked.                       *)
AddLease(h, w) ==
  /\ creation[h] = "idle" /\ tableLock[w] = Free
  /\ creation' = [creation EXCEPT ![h] = "leased"]
  /\ owner' = [owner EXCEPT ![h] = w]
  /\ leases' = leases \cup {h} /\ active' = active \cup {h}
  /\ tableLock' = [tableLock EXCEPT ![w] = h]
  /\ UNCHANGED <<open, owners, routes, ownersLock, dropping, closeVars, clearVars, gone>>

MutInsertOwner(h) ==   \* the locks are let go before the sender is registered
  /\ creation[h] = "leased" /\ ownersLock = Free
  /\ creation' = [creation EXCEPT ![h] = "owned"]
  /\ owners' = owners \cup {h}
  /\ tableLock' = [tableLock EXCEPT ![owner[h]] = Free]
  /\ UNCHANGED <<open, owner, leases, active, routes, ownersLock, dropping, closeVars,
                 clearVars, gone>>
InsertOwner(h) ==
  /\ creation[h] = "leased" /\ ownersLock = Free
  /\ creation' = [creation EXCEPT ![h] = "owned"]
  /\ owners' = owners \cup {h}
  /\ ownersLock' = h
  /\ UNCHANGED <<open, owner, leases, active, routes, tableLock, dropping, closeVars,
                 clearVars, gone>>

RegisterSender(h) ==
  /\ creation[h] = "owned"
  /\ creation' = [creation EXCEPT ![h] = "published"]
  /\ routes' = routes \cup {h}
  /\ tableLock' = [tableLock EXCEPT ![owner[h]] = IF @ = h THEN Free ELSE @]
  /\ ownersLock' = IF ownersLock = h THEN Free ELSE ownersLock
  /\ UNCHANGED <<open, owner, leases, owners, active, dropping, closeVars, clearVars, gone>>

-----------------------------------------------------------------------------
(* ChannelLease::drop, on the thread that let go of the last reference.       *)
TakeLease(h) ==
  /\ leases' = leases \ {h}
  /\ dropping' = [dropping EXCEPT ![h] = "taken"]

Deactivate(h) ==
  /\ dropping[h] = "taken"
  /\ active' = active \ {h}
  /\ dropping' = [dropping EXCEPT ![h] = "inactive"]
  /\ UNCHANGED <<holderVars, leases, owners, routes, lockVars, closeVars, clearVars, gone>>

RemoveOwner(h) ==
  /\ dropping[h] = "inactive" /\ ownersLock = Free
  /\ owners' = owners \ {h}
  /\ dropping' = [dropping EXCEPT ![h] = "unowned"]
  /\ UNCHANGED <<holderVars, leases, active, routes, lockVars, closeVars, clearVars, gone>>

(* It ends a clean-up by Tauri that holds the table for it. *)
DropChannel(h) ==
  /\ dropping[h] = "unowned"
  /\ routes' = routes \ {h}
  /\ dropping' = [dropping EXCEPT ![h] = "done"]
  /\ tableLock' = [tableLock EXCEPT ![owner[h]] = IF @ = h THEN Free ELSE @]
  /\ UNCHANGED <<holderVars, leases, owners, active, ownersLock, closeVars, clearVars, gone>>

(* Tauri itself closes a resource, with its table locked. *)
CloseResource(h) ==
  /\ h \in leases /\ tableLock[owner[h]] = Free
  /\ TakeLease(h)
  /\ tableLock' = [tableLock EXCEPT ![owner[h]] = h]
  /\ UNCHANGED <<holderVars, owners, active, routes, ownersLock, closeVars, clearVars, gone>>

-----------------------------------------------------------------------------
(* drop_webview and drop_app: the owner is looked up under the lock of the    *)
(* map, the lease is taken later under that of the table.                     *)
FindOwner(c, h, w) ==
  /\ closing[c] = "idle" /\ ownersLock = Free
  /\ h \in owners /\ owner[h] = w
  /\ closing' = [closing EXCEPT ![c] = "found"]
  /\ wanted' = [wanted EXCEPT ![c] = h]
  /\ UNCHANGED <<holderVars, channelVars, lockVars, dropping, clearVars, gone>>

MutCloseLease(c) ==   \* who finds no lease reports success
  LET h == wanted[c]
  IN  /\ closing[c] = "found" /\ tableLock[owner[h]] = Free
      /\ IF h \in leases
         THEN TakeLease(h) /\ closing' = [closing EXCEPT ![c] = "dropping"] /\ UNCHANGED gone
         ELSE /\ closing' = [closing EXCEPT ![c] = "idle"] /\ gone' = gone \cup {h}
              /\ UNCHANGED <<leases, dropping>>
      /\ UNCHANGED <<holderVars, owners, active, routes, lockVars, wanted, clearVars>>
CloseLease(c) ==
  LET h == wanted[c]
  IN  /\ closing[c] = "found" /\ tableLock[owner[h]] = Free
      /\ IF h \in leases
         THEN TakeLease(h) /\ closing' = [closing EXCEPT ![c] = "dropping"]
         ELSE closing' = [closing EXCEPT ![c] = "idle"] /\ UNCHANGED <<leases, dropping>>
      /\ UNCHANGED <<holderVars, owners, active, routes, lockVars, wanted, clearVars, gone>>

CloseReturns(c) ==
  /\ closing[c] = "dropping" /\ dropping[wanted[c]] = "done"
  /\ closing' = [closing EXCEPT ![c] = "idle"]
  /\ gone' = gone \cup {wanted[c]}
  /\ UNCHANGED <<holderVars, channelVars, lockVars, dropping, wanted, clearVars>>

-----------------------------------------------------------------------------
(* clear_matching: all that match leave the map at once, under its lock; then *)
(* one after the other loses its sender and its lease.                        *)
ClearMatching(matching) ==
  /\ clearing = "idle" /\ ownersLock = Free
  /\ removed' = owners \cap matching
  /\ owners' = owners \ matching
  /\ active' = active \ (owners \cap matching)
  /\ clearing' = "next"
  /\ UNCHANGED <<owner, creation, leases, routes, lockVars, dropping, closeVars, current, gone>>

ClearNext(h) ==
  /\ clearing = "next" /\ h \in removed
  /\ routes' = routes \ {h}
  /\ clearing' = "routed" /\ current' = h
  /\ UNCHANGED <<holderVars, leases, owners, active, lockVars, dropping, closeVars, removed, gone>>

Cleared ==
  /\ gone' = gone \cup {current}
  /\ removed' = removed \ {current} /\ current' = Free
  /\ clearing' = "next"

(* A lease that is not there any more is dropped by whoever took it. *)
Release ==
  /\ clearing = "routed" /\ tableLock[owner[current]] = Free
  /\ IF current \in leases
     THEN /\ TakeLease(current) /\ clearing' = "releasing"
          /\ UNCHANGED <<removed, current, gone>>
     ELSE Cleared /\ UNCHANGED <<leases, dropping>>
  /\ UNCHANGED <<holderVars, owners, active, routes, lockVars, closeVars>>

Released ==
  /\ clearing = "releasing" /\ dropping[current] = "done"
  /\ Cleared
  /\ UNCHANGED <<holderVars, channelVars, lockVars, dropping, closeVars>>

ClearReturns ==
  /\ clearing = "next" /\ removed = {}
  /\ clearing' = "idle"
  /\ UNCHANGED <<holderVars, channelVars, lockVars, dropping, closeVars, removed, current, gone>>

(* The events of the plugin. *)
OwnedBy(w) == {h \in Handles : owner[h] = w}

WebviewReady(w) ==
  /\ w \notin open /\ ClearMatching(OwnedBy(w))
  /\ open' = open \cup {w}

Navigation(w) ==
  /\ w \in open /\ ClearMatching(OwnedBy(w))
  /\ UNCHANGED open

WindowDestroyed(w) ==
  /\ w \in open /\ ClearMatching(OwnedBy(w))
  /\ open' = open \ {w}

(* A child webview that closes by itself is found by the next tick. *)
WebviewCloses(w) ==
  /\ w \in open
  /\ open' = open \ {w}
  /\ UNCHANGED <<owner, creation, channelVars, lockVars, dropping, closeVars, clearVars, gone>>

MutDead == {}   \* nobody looks for webviews that closed by themselves
Dead == {h \in Handles : owner[h] \in Webviews \ open}

MainEventsCleared ==
  /\ owners \cap Dead # {}
  /\ ClearMatching(Dead)
  /\ UNCHANGED open

Exit == ClearMatching(Handles) /\ UNCHANGED open

-----------------------------------------------------------------------------
Publish(h) == InsertOwner(h) \/ RegisterSender(h)
Drop(h) == Deactivate(h) \/ RemoveOwner(h) \/ DropChannel(h)
Clear == Release \/ Released \/ ClearReturns \/ \E h \in Handles : ClearNext(h)

Next ==
  \/ \E h \in Handles :
       \/ Publish(h) \/ Drop(h) \/ CloseResource(h)
       \/ \E w \in Holders : AddLease(h, w) \/ \E c \in Closers : FindOwner(c, h, w)
  \/ \E c \in Closers : CloseLease(c) \/ CloseReturns(c)
  \/ \E w \in Webviews :
       WebviewReady(w) \/ Navigation(w) \/ WindowDestroyed(w) \/ WebviewCloses(w)
  \/ Clear \/ MainEventsCleared \/ Exit

-----------------------------------------------------------------------------
(* No table keeps a channel the others have let go of: a sender has its lease *)
(* and its owner, or somebody is about to take it away                        *)
(* (tauri_channel_ownership.rs:52-54).                                        *)
NoOrphans ==
  \A h \in routes :
    \/ h \in leases \cap owners
    \/ dropping[h] \in {"taken", "inactive", "unowned"}
    \/ h \in removed

(* A channel that was closed, by its webview or by the clean-up, is in no     *)
(* table and never comes back.                                                *)
GoneIsGone == gone \cap (leases \cup owners \cup active \cup routes) = {}

TypeOK ==
  /\ open \subseteq Webviews /\ owner \in [Handles -> Holders \cup {Free}]
  /\ creation \in [Handles -> {"idle", "leased", "owned", "published"}]
  /\ (leases \cup owners \cup active \cup routes \cup removed \cup gone) \subseteq Handles
  /\ tableLock \in [Holders -> Handles \cup {Free}] /\ ownersLock \in Handles \cup {Free}
  /\ dropping \in [Handles -> {"no", "taken", "inactive", "unowned", "done"}]
  /\ closing \in [Closers -> {"idle", "found", "dropping"}]
  /\ wanted \in [Closers -> Handles \cup {Free}]
  /\ clearing \in {"idle", "next", "routed", "releasing"} /\ current \in Handles \cup {Free}

LeasesAgree == TypeOK /\ NoOrphans /\ GoneIsGone
===============================================================================
