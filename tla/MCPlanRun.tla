------------------------------ MODULE MCPlanRun ------------------------------
(* PlanRun on small instances. *)
EXTENDS PlanRun
=============================================================================
