---------------------------- MODULE MCPlanAction ----------------------------
(* PlanAction on a small instance: an engine that leads a group of its own, *)
(* as Schemathesis's Python and Nuclei do, and a helper of it in that group. *)
EXTENDS PlanAction

MCProcs == {"cli", "engine", "helper"}
MCAbove == [p \in MCProcs |-> CASE p = "cli"    -> {}
                               [] p = "engine" -> {"cli"}
                               [] p = "helper" -> {"cli", "engine"}]
MCGroup == [p \in MCProcs |-> IF p = "cli" THEN "cli" ELSE "engine"]
=============================================================================
