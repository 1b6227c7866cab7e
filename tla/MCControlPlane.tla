--------------------------- MODULE MCControlPlane ---------------------------
(* Instances of the control plane for TLC: candidates, verification runs   *)
(* and plans are interchangeable, which is used for safety only.           *)
EXTENDS ControlPlaneClaims, ControlPlaneLiveness, TLC

Symmetry == Permutations(Candidates) \cup Permutations(Runs) \cup Permutations(Plans)

=============================================================================
