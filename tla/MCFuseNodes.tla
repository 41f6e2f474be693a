----------------------------- MODULE MCFuseNodes -----------------------------
(* FuseNodes for TLC.  The request slots are interchangeable. *)
EXTENDS FuseNodes, TLC

SlotsAlike == Permutations(Openers)
=============================================================================
