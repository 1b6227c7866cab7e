----------------------------- MODULE MCWorkflow -----------------------------
(* The workflow aggregate, with its refinement of Governance, for TLC. *)
EXTENDS WorkflowRefinement

=============================================================================
