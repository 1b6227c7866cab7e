----------------------------- MODULE Governance -----------------------------
(***************************************************************************)
(* What the workflow aggregate promises, without its suspensions: a        *)
(* request is planned, built, checked and judged; a candidate is delivered *)
(* only by way of an approval that follows its checks; every rejection is  *)
(* paid from an allowance, and once the allowance is spent no work starts  *)
(* until it is extended.  Pausing, blocking on infrastructure and resuming *)
(* are invisible at this level.                                            *)
(***************************************************************************)
EXTENDS Integers

CONSTANTS Candidates, NoCandidate, Allowance, MaxU8

VARIABLES
  stage,       \* where the work is
  candidate,   \* the candidate being judged
  spent,       \* rejections so far
  allowed      \* rejections that may be spent

gvars == <<stage, candidate, spent, allowed>>

Stages == {"planning", "building", "checking", "reviewing", "judging",
           "delivering", "repairing", "done", "cancelled"}

Init ==
  /\ stage = "planning" /\ candidate = NoCandidate
  /\ spent = 0 /\ allowed = Allowance

Move(from, to) ==
  stage = from /\ stage' = to /\ UNCHANGED <<candidate, spent, allowed>>

Plan == Move("planning", "building") \/ Move("building", "planning")

Present(c) ==
  /\ stage = "building" /\ stage' = "checking"
  /\ candidate' = c /\ UNCHANGED <<spent, allowed>>

Judge ==
  \/ Move("checking", "reviewing") \/ Move("reviewing", "judging")
  \/ Move("checking", "judging")

Approve == Move("judging", "delivering")
Deliver == Move("delivering", "done")

Reject ==
  /\ stage \in {"checking", "judging"} /\ spent < allowed
  /\ stage' = "repairing" /\ spent' = spent + 1
  /\ UNCHANGED <<candidate, allowed>>

Rework ==
  /\ stage = "repairing" /\ spent < allowed
  /\ stage' \in {"planning", "building"} /\ candidate' = NoCandidate
  /\ UNCHANGED <<spent, allowed>>

Extend ==
  /\ stage = "repairing" /\ spent = allowed
  /\ allowed' \in (allowed + 1) .. MaxU8
  /\ UNCHANGED <<stage, candidate, spent>>

Cancel ==
  /\ stage \notin {"done", "cancelled"} /\ stage' = "cancelled"
  /\ UNCHANGED <<candidate, spent, allowed>>

Next ==
  \/ Plan \/ (\E c \in Candidates : Present(c)) \/ Judge
  \/ Approve \/ Deliver \/ Reject \/ Rework \/ Extend \/ Cancel

Spec == Init /\ [][Next]_gvars

=============================================================================
