----------------------------- MODULE MCStateStore -----------------------------
(* StateStore for TLC.  Processes are model values and interchangeable. *)
EXTENDS StateStore, TLC

ProcsAlike == Permutations(Procs)
=============================================================================
