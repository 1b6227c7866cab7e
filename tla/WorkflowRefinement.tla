------------------------- MODULE WorkflowRefinement -------------------------
(***************************************************************************)
(* The refinement mapping from the workflow aggregate to Governance: the   *)
(* stage is a function of the place of the work, so that every suspension  *)
(* is a stuttering step.                                                   *)
(***************************************************************************)
EXTENDS Workflow

Stage ==
  CASE Place \in Planning -> "planning"
    [] Place \in Building -> "building"
    [] Place = "Verification" -> "checking"
    [] Place = "IndependentReviews" -> "reviewing"
    [] Place = "Arbitration" -> "judging"
    [] Place = "Delivery" -> "delivering"
    [] Place = "Completed" -> "done"
    [] Place = "Cancelled" -> "cancelled"
    [] OTHER -> "repairing"

Gov == INSTANCE Governance WITH
         Allowance <- DefaultBudget, stage <- Stage,
         candidate <- wf.current_candidate,
         spent <- wf.repair_cycles, allowed <- wf.max_repair_cycles

(* The aggregate implements Governance. *)
Governed == Gov!Spec

=============================================================================
