------------------------ MODULE ControlPlaneLiveness ------------------------
(***************************************************************************)
(* What the control plane must eventually do although the daemon may die   *)
(* between any two of its transactions.                                    *)
(***************************************************************************)
EXTENDS ControlPlane

(* The handler that holds the store's mutex runs to its end: nothing it    *)
(* still does waits for anyone.                                            *)
HandlerStep ==
  \/ StartWorkflow \/ AcceptArchitecture \/ SubmitCandidate \/ BeginRepair
  \/ RecordEvidence \/ ConcludeVerification \/ ConcludeReview \/ ConcludeArbitration

(* Gates have time limits.  A task that waits for the mutex gets it: the   *)
(* queue of tokio::sync::Mutex is first come, first served.                *)
DaemonFairness ==
  /\ WF_vars(HandlerStep)
  /\ \A r \in Runs : WF_vars(RunGates(r)) /\ SF_vars(BeginRecording(r))
  /\ \A c \in Candidates : SF_vars(SaveCandidate(c))

RepeatReview(c) ==
  /\ wf.state = "IndependentReviews"
  /\ \E role \in Reviewers : reviews[c][role] # None /\ SubmitReview(c, role, reviews[c][role])

(* The orchestrator goes on where /cycle:resume finds the workflow: it     *)
(* submits the plan that is stored, a review that is stored, or freezes.   *)
(* The tools for plans and reviews name the workflow or the candidate, so  *)
(* a repetition is one; the tool that freezes makes up a new candidate     *)
(* every time (as the one that starts makes up a new workflow, for which   *)
(* reason nothing is said of an interrupted start).  No delivery is begun  *)
(* again: resume.md forbids it.                                            *)
OrchestratorFairness ==
  /\ SF_vars(plan # None /\ wf.state = "Architecture" /\ SubmitArchitecture(plan))
  /\ SF_vars(\E c \in Candidates : BeginFreeze(c) /\ wf.state \in Building)
  /\ \A c \in Candidates : SF_vars(RepeatReview(c))

FairSpec == Spec /\ DaemonFairness /\ OrchestratorFairness

(* What a crash or a failing transaction cut off does not stand in the way *)
(* of the same phase done again (lifecycle.rs 2042-2108, 1651-1760,        *)
(* 1298-1378): a stored plan is accepted, not shadowed by its own row; a   *)
(* candidate whose bytes were stored and never submitted does not keep a   *)
(* new one from being judged; and arbitration opens when both reviews are  *)
(* in.                                                                     *)
PlanTakesEffect ==
  (/\ wf.state = "Architecture" /\ plan # None
   /\ <<"architecture-accepted", plan>> \notin dedup) ~> (wf.state # "Architecture")
LeftOver(c) == frozen[c] # None /\ <<"candidate", c>> \notin dedup
BuildingMovesOn ==
  (wf.state \in Building /\ \E c \in Candidates : LeftOver(c)) ~> (wf.state \notin Building)
ReviewsTakeEffect ==
  (wf.state = "IndependentReviews" /\ Reviewed(wf.current_candidate))
    ~> (wf.state # "IndependentReviews")
InterruptedCallsComplete == PlanTakesEffect /\ BuildingMovesOn /\ ReviewsTakeEffect

=============================================================================
