--------------------------- MODULE MC_PlanSession ---------------------------
(* Two projects and two commands at a time; neither the commands nor the   *)
(* projects are told apart by the specification.                           *)
EXTENDS PlanSession, TLC

Symmetry == Permutations(Command) \cup Permutations(Project)
=============================================================================
