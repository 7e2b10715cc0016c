---------------------------- MODULE MCEgressGate ----------------------------
(* EgressGate on small instances. *)
EXTENDS EgressGate, TLC

\* The engine's calls, and the other tasks' reservations, are alike.
CallSymmetry == Permutations(Calls \ Controls)
=============================================================================
