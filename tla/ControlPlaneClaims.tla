------------------------- MODULE ControlPlaneClaims -------------------------
(***************************************************************************)
(* A sentence of the repository's documents about the control plane that   *)
(* the code does not keep: a run finds the behaviour that contradicts it.  *)
(***************************************************************************)
EXTENDS ControlPlane

(* docs/USER_MANUAL.md:148 "An arbiter's approval is refused where it      *)
(* contradicts something the record already holds: a live reviewer         *)
(* rejection, a mandatory gate that did not pass, ..."  A late pass of one *)
(* candidate moves its successor to arbitration, and a crash cuts off the  *)
(* results of the successor's own gates: it is approved although only some *)
(* of its gates have a result.                                             *)
ApprovalNeedsEveryGate ==
  [][ wf.state = "Arbitration" /\ wf'.state = "Delivery" =>
        GatesPassed(wf.current_candidate) ]_vars

=============================================================================
