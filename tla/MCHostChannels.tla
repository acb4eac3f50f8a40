----------------------------- MODULE MCHostChannels -----------------------------
(* Small instances of HostChannels: a JSON channel and a binary one that      *)
(* compete with a resource for two handles, so that one of the three finds    *)
(* the space exhausted; two channels of a webview or of the application.      *)
EXTENDS HostChannels, TLC

MCIdentity == [c \in BytesCreates |-> "owner"]
================================================================================
