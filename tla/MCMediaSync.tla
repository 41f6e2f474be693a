----------------------------- MODULE MCMediaSync -----------------------------
(* MediaSync for TLC.  Paths are model values: they are compared, never read. *)
EXTENDS MediaSync
=============================================================================
