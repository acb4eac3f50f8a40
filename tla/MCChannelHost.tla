----------------------------- MODULE MCChannelHost -----------------------------
(* Small instances of ChannelHost: a JSON channel and a binary one compete    *)
(* with a resource for two handles, so that one of the three finds the space  *)
(* exhausted; a JSON send and the completion of a call are tried on every     *)
(* handle, while two threads drop and release.                                *)
EXTENDS ChannelHost

MCIdentity == [c \in BytesCreates |-> "owner"]
===============================================================================
