----------------------------- MODULE MCPlanCache -----------------------------
(* PlanCache for TLC: the openers are model values. *)
EXTENDS PlanCache, TLC
=============================================================================
