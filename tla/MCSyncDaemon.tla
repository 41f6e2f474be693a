----------------------------- MODULE MCSyncDaemon -----------------------------
(* SyncDaemon for TLC. *)
EXTENDS SyncDaemon
=============================================================================
