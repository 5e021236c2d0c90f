----------------------------- MODULE MCSyncRunner -----------------------------
(* Small instances of SyncRunner for TLC. *)
EXTENDS SyncRunner, TLC
==============================================================================
