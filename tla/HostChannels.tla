------------------------------ MODULE HostChannels ------------------------------
(***************************************************************************)
(* Channels from Rust to the host: the tables, gates and callbacks of the  *)
(* core (ChannelHost), and on a Tauri host the leases by which webviews    *)
(* own theirs (TauriLeases), whose senders Tauri keeps: no callback of C.  *)
(* Of the core a lease only sees that a sender is registered or dropped;   *)
(* so a behaviour is that of one of them, chosen at the start (`part').    *)
(***************************************************************************)
EXTENDS ChannelHost

CONSTANTS LeaseHandles, Webviews, App, Closers, Free   \* of TauriLeases

ASSUME LeasesAssumption == App \notin Webviews /\ Free \notin LeaseHandles

VARIABLES
  part,
  open, owner, creation, leases, owners, leaseActive, routes, tableLock, ownersLock,
  leaseDropping, closing, wanted, clearing, removed, current, gone   \* of TauriLeases

leaseVars == <<open, owner, creation, leases, owners, leaseActive, routes, tableLock, ownersLock,
               leaseDropping, closing, wanted, clearing, removed, current, gone>>

Leases == INSTANCE TauriLeases WITH
  Handles <- LeaseHandles, active <- leaseActive, dropping <- leaseDropping

all == <<part, vars, leaseVars>>

AtCore == part = "core" /\ UNCHANGED <<part, leaseVars>>
AtLeases == part = "leases" /\ UNCHANGED <<part, vars>>

ChannelsInit == part \in {"core", "leases"} /\ Init /\ Leases!Init

ChannelsSpec == ChannelsInit /\ [][(AtCore /\ Next) \/ (AtLeases /\ Leases!Next)]_all

(* Threads that are inside the library get on; a callback of the host comes   *)
(* back (the contract create asks of it), and Tauri's event loop turns.       *)
(* Nobody has to create, send, drop or close anything.                        *)
ChannelsFairness ==
  /\ \A d \in Droppers :
       WF_all(AtCore /\ (Unroute(d) \/ RemoveSink(d) \/ Close(d) \/ Wake(d)))
  /\ \A e \in Sends : WF_all(AtCore /\ (Enter(e) \/ CallbackReturns(e) \/ Leave(e)))
  /\ \A h \in LeaseHandles :
       WF_all(AtLeases /\ Leases!Publish(h)) /\ WF_all(AtLeases /\ Leases!Drop(h))
  /\ \A c \in Closers : WF_all(AtLeases /\ (Leases!CloseLease(c) \/ Leases!CloseReturns(c)))
  /\ WF_all(AtLeases /\ Leases!Clear) /\ WF_all(AtLeases /\ Leases!MainEventsCleared)

ChannelsFairSpec == ChannelsSpec /\ ChannelsFairness

-----------------------------------------------------------------------------
(* The three tables of channels agree, however closes, navigations and        *)
(* windows that go cross the creation of a channel                            *)
(* (tauri_channel_ownership.rs).                                              *)
LeasesAgree == Leases!LeasesAgree

(* Whoever drops, releases, closes or clears a channel comes back: the        *)
(* sleeper is woken by the last callback that leaves, and nobody waits for a  *)
(* lock its holder needs him to give up.  And what a webview owned does not   *)
(* keep its sender when the webview is gone.                                  *)
ChannelsEnd ==
  /\ \A d \in Droppers : []<>(dropPc[d] = "idle")
  /\ \A c \in Closers : []<>(closing[c] = "idle")
  /\ []<>(clearing = "idle")
  /\ \A h \in LeaseHandles : []<>~(h \in routes /\ owner[h] \in Webviews \ open)
================================================================================
