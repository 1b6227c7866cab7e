---------------------------- MODULE ControlPlane ----------------------------
(***************************************************************************)
(* The daemon's handlers (workflowd) over one workflow, as the store and   *)
(* the aggregate see them.                                                 *)
(*                                                                         *)
(* A handler holds the store's mutex while it runs one or more SQLite      *)
(* transactions.  Each transaction is one action here; `handler` says what *)
(* is left of the handler that holds the mutex, so no other handler starts *)
(* in between, but a crash or a failing transaction may drop the rest.     *)
(* Verification, freezing and promotion work outside the mutex between two *)
(* critical sections: they are the processes `runs`, `freezing` and        *)
(* `promoting`.  What survives a crash is everything but `handler` and     *)
(* these three.                                                            *)
(***************************************************************************)
EXTENDS Integers, Sequences

CONSTANTS
  Candidates, NoCandidate,
  DefaultBudget, MaxU8,
  RetryCycles,     \* cycles a retry of a spent budget adds (5 in the code)
  Routes,          \* the modes routing may choose for the request
  Plans,           \* architecture plans that bind to the request
  Contents,        \* committed contents of the worktree
  Forbidden,       \* contents that touch a path the request forbids
  Runs,            \* verification requests that may be in flight
  MaxFailures      \* crashes and failing transactions in one behaviour

Extensions == {RetryCycles}

ASSUME CandidatesAssumption == NoCandidate \notin Candidates
ASSUME BudgetAssumption == MaxU8 \in Nat /\ DefaultBudget \in 1 .. MaxU8
ASSUME RoutesAssumption == Routes \subseteq {"Quick", "Full"}
ASSUME ForbiddenAssumption == Forbidden \subseteq Contents
ASSUME FailuresAssumption == MaxFailures \in Nat
ASSUME RetryAssumption == RetryCycles \in 1 .. MaxU8

VARIABLES
  (* the store *)
  wf,          \* workflows.state_json: the aggregate
  dedup,       \* keys of command_deduplication
  requested,   \* a row of workflow_requests exists
  plan,        \* workflow_architecture
  discovered,  \* a row of workflow_verification_plans exists
  frozen,      \* workflow_candidates: the frozen bytes of each candidate
  evidence,    \* latest attempt of each gate for each candidate
  reviews,     \* workflow_reviews
  verdicts,    \* workflow_arbitration
  reserved,    \* candidate_delivery_reservations
  (* the file system *)
  worktree,    \* the committed content of the isolated worktree
  (* the daemon's memory *)
  handler, runs, freezing, promoting,
  failures

W == INSTANCE Workflow

None == W!None
(* None stands for the absence of a plan. *)
ASSUME PlansAssumption == None \notin Plans

Building == W!Building
(* Three kinds of mandatory gates in the order a plan runs them: a command *)
(* of the plan, the integrity of the frozen bytes, and a gate that only an *)
(* attestation can satisfy.                                                *)
Gates == <<"command", "integrity", "attested">>
GateNames == {"command", "integrity", "attested"}
Statuses == {"passed", "failed", "skipped"}
Reviewers == {"functional", "security"}
Targets == W!RepairTargets
(* A verdict is an approval or a rejection with its repair target. *)
Verdicts == {"Approved"} \cup Targets

aggregate == <<wf, dedup>>
preparation == <<requested, plan, discovered>>
judgement == <<evidence, reviews, verdicts>>
work == <<worktree, runs, freezing, promoting>>
vars == <<aggregate, preparation, frozen, judgement, reserved, handler, work, failures>>

Idle == [at |-> "idle"]
Free == handler = Idle
NoEvidence == [g \in GateNames |-> None]

Init ==
  /\ W!Init
  /\ dedup = {} /\ requested = FALSE /\ plan = None /\ discovered = FALSE
  /\ frozen = [c \in Candidates |-> None]
  /\ evidence = [c \in Candidates |-> NoEvidence]
  /\ reviews = [c \in Candidates |-> [r \in Reviewers |-> None]]
  /\ verdicts = [c \in Candidates |-> None]
  /\ reserved = NoCandidate
  /\ worktree \in Contents
  /\ handler = Idle
  /\ runs = [r \in Runs |-> Idle]
  /\ freezing = [c \in Candidates |-> None]
  /\ promoting = NoCandidate
  /\ failures = 0

(***************************************************************************)
(* The store's only way to change a workflow.  A command is refused while  *)
(* a delivery is reserved; one whose key was used before is answered with  *)
(* the stored result and changes nothing; one the aggregate refuses        *)
(* changes nothing.                                                        *)
(***************************************************************************)
Fresh(key) == reserved = NoCandidate /\ key \notin dedup

(* Slip: the key is recorded although the aggregate refused the command. *)
IssueRecordingRefusals(key, accepted, Command) ==
  IF Fresh(key)
  THEN (IF accepted THEN Command ELSE UNCHANGED wf) /\ dedup' = dedup \cup {key}
  ELSE UNCHANGED <<wf, dedup>>

Issue(key, accepted, Command) ==
  IF Fresh(key) /\ accepted
  THEN Command /\ dedup' = dedup \cup {key}
  ELSE UNCHANGED <<wf, dedup>>

(* The row of workflows is written by the first command. *)
Exists == wf.state # "Intake"
InForce(c) == wf.current_candidate = c
Proceed(next) == handler' = next

(***************************************************************************)
(* start_workflow: the request, intake and routing, each in a transaction  *)
(* of its own; a repeated submission goes on where an earlier one stopped. *)
(***************************************************************************)
SubmitRequest ==
  /\ Free /\ requested' = TRUE /\ Proceed([at |-> "start"])
  /\ UNCHANGED <<aggregate, plan, discovered, frozen, judgement, reserved, work, failures>>

StartWorkflow ==
  /\ handler.at = "start"
  /\ \/ /\ ~Exists
        /\ Issue(<<"complete-intake">>, TRUE, W!CompleteIntake)
        /\ UNCHANGED handler
     \/ /\ wf.state = "Routing"
        /\ \E mode \in Routes : Issue(<<"route">>, TRUE, W!Route(mode))
        /\ Proceed(Idle)
     \/ /\ wf.state \notin {"Intake", "Routing"} /\ UNCHANGED aggregate
        /\ Proceed(Idle)
  /\ UNCHANGED <<preparation, frozen, judgement, reserved, work, failures>>

(***************************************************************************)
(* accept_architecture: the plan is stored before the state is looked at;  *)
(* another plan replaces it only in Architecture after a rejection.        *)
(***************************************************************************)
(* Slip: the row of an interrupted submission refuses its repetition. *)
PlanMayBeStoredOnce(a) ==
  plan = None \/ (wf.state = "Architecture" /\ wf.repair_cycles > 0)

PlanMayBeStored(a) ==
  plan \in {None, a} \/ (wf.state = "Architecture" /\ wf.repair_cycles > 0)

SubmitArchitecture(a) ==
  /\ Free /\ requested /\ PlanMayBeStored(a)
  /\ plan' = a
  /\ Proceed([at |-> "architecture", plan |-> a])
  /\ UNCHANGED <<aggregate, requested, discovered, frozen, judgement, reserved, work,
                 failures>>

AcceptArchitecture ==
  /\ handler.at = "architecture"
  /\ Issue(<<"architecture-accepted", handler.plan>>, wf.state = "Architecture",
           W!ArchitectureAccepted)
  /\ Proceed(Idle)
  /\ UNCHANGED <<preparation, frozen, judgement, reserved, work, failures>>

(***************************************************************************)
(* The executor's commits in the worktree, and plan_verification.          *)
(***************************************************************************)
Commit(content) ==
  /\ worktree # content /\ worktree' = content
  /\ plan # None /\ Exists
  /\ UNCHANGED <<aggregate, preparation, frozen, judgement, reserved, handler, runs,
                 freezing, promoting, failures>>

PlanVerification ==
  /\ Free /\ wf.state \in Building /\ plan # None
  /\ discovered' = TRUE
  /\ UNCHANGED <<aggregate, requested, plan, frozen, judgement, reserved, handler, work,
                 failures>>

(***************************************************************************)
(* freeze_candidate: a stored candidate is made current again, if a caller *)
(* names one (the server's tool does not), a new one is read from the      *)
(* worktree outside the mutex and stored after the state is looked at a    *)
(* second time.                                                            *)
(***************************************************************************)
AcceptsCandidate(c) ==
  wf.state \in Building \/ (wf.state = "Verification" /\ InForce(c))

CandidateIsReady(c) ==
  Issue(<<"candidate", c>>, wf.state \in Building, W!CandidateReady(c))

FreezeStored(c) ==
  /\ Free /\ discovered /\ frozen[c] # None /\ wf.state \in Building
  /\ CandidateIsReady(c)
  /\ UNCHANGED <<preparation, frozen, judgement, reserved, handler, work, failures>>

BeginFreeze(c) ==
  /\ Free /\ discovered /\ frozen[c] = None /\ AcceptsCandidate(c)
  /\ freezing[c] = None
  /\ freezing' = [freezing EXCEPT ![c] = worktree]
  /\ UNCHANGED <<aggregate, preparation, frozen, judgement, reserved, handler, worktree,
                 runs, promoting, failures>>

SaveCandidate(c) ==
  /\ Free /\ freezing[c] # None
  /\ freezing' = [freezing EXCEPT ![c] = None]
  /\ IF AcceptsCandidate(c) /\ frozen[c] \in {None, freezing[c]}
     THEN /\ frozen' = [frozen EXCEPT ![c] = freezing[c]]
          /\ Proceed([at |-> "candidate", candidate |-> c])
     ELSE UNCHANGED <<frozen, handler>>
  /\ UNCHANGED <<aggregate, preparation, judgement, reserved, worktree, runs, promoting,
                 failures>>

SubmitCandidate ==
  /\ handler.at = "candidate"
  /\ CandidateIsReady(handler.candidate)
  /\ Proceed(Idle)
  /\ UNCHANGED <<preparation, frozen, judgement, reserved, work, failures>>

(***************************************************************************)
(* repair::route: a rejection and, if the budget allows, the start of the  *)
(* repair, in two transactions.                                            *)
(***************************************************************************)
(* Slip: the finding is charged to whichever candidate is in force. *)
AnyFindingApplies(c) == wf.state \in {"Verification", "Arbitration"}

FindingApplies(c) == InForce(c) /\ wf.state \in {"Verification", "Arbitration"}

RouteToRepair(c, target) ==
  IF FindingApplies(c) /\ Fresh(<<"reject", c, target>>)
  THEN /\ dedup' = dedup \cup {<<"reject", c, target>>}
       /\ W!VerificationRejected(target) \/ W!Reject(target)
       /\ Proceed(IF wf'.state = "Repair" THEN [at |-> "repair", candidate |-> c] ELSE Idle)
  ELSE UNCHANGED aggregate /\ Proceed(Idle)

BeginRepair ==
  /\ handler.at = "repair"
  /\ Issue(<<"begin-repair", handler.candidate, wf.repair_cycles>>, TRUE, W!BeginRepair)
  /\ Proceed(Idle)
  /\ UNCHANGED <<preparation, frozen, judgement, reserved, work, failures>>

(***************************************************************************)
(* verify_candidate: the state is checked, the gates run outside the mutex *)
(* on the worktree, and the results are written without a second look at   *)
(* the state.                                                              *)
(***************************************************************************)
BeginVerification(r, c) ==
  /\ Free /\ runs[r] = Idle /\ discovered
  /\ wf.state = "Verification" /\ InForce(c)
  /\ frozen[c] = worktree
  /\ runs' = [runs EXCEPT ![r] = [at |-> "gates", candidate |-> c]]
  /\ UNCHANGED <<aggregate, preparation, frozen, judgement, reserved, handler, worktree,
                 freezing, promoting, failures>>

(* Outcomes of a run of candidate c on the current worktree.  The gate     *)
(* that needs an attestation is skipped without a valid one, and fails on  *)
(* one whose snapshot has no summary or found unnamed controls.            *)
Outcomes(c) ==
  {o \in [GateNames -> Statuses] :
     /\ o["command"] # "skipped"
     /\ o["integrity"] = IF frozen[c] = worktree THEN "passed" ELSE "failed"}

(* The gates have a result each, or the run ends in an error and none has. *)
RunGates(r) ==
  /\ runs[r].at = "gates"
  /\ \/ \E o \in Outcomes(runs[r].candidate) :
          runs' = [runs EXCEPT ![r] = [at |-> "done", candidate |-> @.candidate, outcome |-> o]]
     \/ runs' = [runs EXCEPT ![r] = Idle]
  /\ UNCHANGED <<aggregate, preparation, frozen, judgement, reserved, handler, worktree,
                 freezing, promoting, failures>>

BeginRecording(r) ==
  /\ Free /\ runs[r].at = "done"
  /\ Proceed([at |-> "evidence", run |-> r, next |-> 1])
  /\ UNCHANGED <<aggregate, preparation, frozen, judgement, reserved, work, failures>>

RecordEvidence ==
  /\ handler.at = "evidence" /\ handler.next <= Len(Gates)
  /\ LET run == runs[handler.run]
         g == Gates[handler.next]
     IN evidence' = [evidence EXCEPT ![run.candidate][g] = run.outcome[g]]
  /\ Proceed([handler EXCEPT !.next = @ + 1])
  /\ UNCHANGED <<aggregate, preparation, frozen, reviews, verdicts, reserved, work, failures>>

(* Slip: a gate that was skipped counts as passed. *)
NoneFailed(outcome) == \A g \in GateNames : outcome[g] # "failed"

AllPassed(outcome) == \A g \in GateNames : outcome[g] = "passed"
Skipped(outcome) == \E g \in GateNames : outcome[g] = "skipped"

ConcludeVerification ==
  /\ handler.at = "evidence" /\ handler.next > Len(Gates)
  /\ LET c == runs[handler.run].candidate
         outcome == runs[handler.run].outcome
     IN \/ /\ AllPassed(outcome)
           /\ Issue(<<"verification-passed", c>>, wf.state = "Verification",
                    W!VerificationPassed)
           /\ Proceed(Idle)
        \/ /\ Skipped(outcome)
           /\ Issue(<<"verification-blocked", c>>, W!CanBlockInfrastructure,
                    W!BlockInfrastructure)
           /\ Proceed(Idle)
        \/ /\ ~AllPassed(outcome) /\ ~Skipped(outcome)
           /\ RouteToRepair(c, "Execution")
  /\ runs' = [runs EXCEPT ![handler.run] = Idle]
  /\ UNCHANGED <<preparation, frozen, judgement, reserved, worktree, freezing, promoting,
                 failures>>

(***************************************************************************)
(* submit_review: written once per role; the second one (or a repetition   *)
(* of either) opens arbitration.                                           *)
(***************************************************************************)
HasEvidence(c) == evidence[c] # NoEvidence

Reviewed(c) == \A role \in Reviewers : reviews[c][role] # None

FirstReview(c, role) ==
  /\ reviews[c][role] = None
  /\ wf.state = "IndependentReviews" /\ InForce(c) /\ HasEvidence(c)

MayReview(c, role, verdict) == reviews[c][role] = verdict \/ FirstReview(c, role)

SubmitReview(c, role, verdict) ==
  /\ Free /\ MayReview(c, role, verdict)
  /\ reviews' = [reviews EXCEPT ![c][role] = verdict]
  /\ Proceed([at |-> "reviews", candidate |-> c])
  /\ UNCHANGED <<aggregate, preparation, frozen, evidence, verdicts, reserved, work, failures>>

ConcludeReview ==
  /\ handler.at = "reviews"
  /\ IF Reviewed(handler.candidate)
     THEN Issue(<<"reviews-ready", handler.candidate>>, wf.state = "IndependentReviews",
                W!ReviewsReady)
     ELSE UNCHANGED aggregate
  /\ Proceed(Idle)
  /\ UNCHANGED <<preparation, frozen, judgement, reserved, work, failures>>

(***************************************************************************)
(* submit_arbitration: the verdict is written first; then an approval that *)
(* contradicts the request, a review or a gate is refused and routed to    *)
(* repair, another approval moves to delivery, a rejection to repair.  A   *)
(* verdict that is already there is only reported.                         *)
(***************************************************************************)
(* Slips: one approving review suffices; gates are not looked at again;    *)
(* the target is what the first reviewer said.                             *)
SomeReviewApproves(c) ==
  wf.mode = "Full" => \E role \in Reviewers : reviews[c][role] = "Approved"
GatesAreNotRead(c) == TRUE
FirstReviewersTarget(c) == reviews[c]["functional"]

ReviewsApprove(c) ==
  wf.mode = "Full" => \A role \in Reviewers : reviews[c][role] = "Approved"
GatesPass(c) == \A g \in GateNames : evidence[c][g] \in {"passed", None}
RejectedTarget(c) ==
  IF \E role \in Reviewers : reviews[c][role] = "Architecture"
  THEN "Architecture" ELSE "Execution"

SubmitArbitration(c, verdict) ==
  /\ Free /\ verdicts[c] = None
  /\ wf.state = "Arbitration" /\ InForce(c) /\ HasEvidence(c)
  /\ wf.mode = "Full" => Reviewed(c)
  /\ verdicts' = [verdicts EXCEPT ![c] = verdict]
  /\ Proceed([at |-> "verdict", candidate |-> c])
  /\ UNCHANGED <<aggregate, preparation, frozen, evidence, reviews, reserved, work, failures>>

ConcludeArbitration ==
  /\ handler.at = "verdict"
  /\ LET c == handler.candidate
     IN IF verdicts[c] # "Approved" THEN RouteToRepair(c, verdicts[c])
        ELSE IF frozen[c] \in Forbidden THEN RouteToRepair(c, "Execution")
        ELSE IF ~ReviewsApprove(c) THEN RouteToRepair(c, RejectedTarget(c))
        ELSE IF ~GatesPass(c) THEN RouteToRepair(c, "Execution")
        ELSE /\ Issue(<<"approved", c>>, TRUE, W!Approve(TRUE))
             /\ Proceed(Idle)
  /\ UNCHANGED <<preparation, frozen, judgement, reserved, work, failures>>

(***************************************************************************)
(* PromoteCandidate: one promotion at a time; the reservation is taken     *)
(* before a byte moves, and dropped with the delivery, or when the project *)
(* is known to be as it was.  What happens in between is module Delivery.  *)
(***************************************************************************)
MayReserve(c) == reserved \in {NoCandidate, c}
Deliverable(c) == wf.state \in {"Delivery", "Completed"} /\ InForce(c)

BeginPromotion(c) ==
  /\ Free /\ promoting = NoCandidate
  /\ Deliverable(c) /\ verdicts[c] = "Approved" /\ MayReserve(c)
  /\ reserved' = c /\ promoting' = c
  /\ UNCHANGED <<aggregate, preparation, frozen, judgement, handler, worktree, runs,
                 freezing, failures>>

Delivered ==
  /\ Free /\ promoting # NoCandidate /\ Deliverable(promoting)
  /\ IF wf.state = "Completed" THEN UNCHANGED aggregate
     ELSE W!Deliver /\ dedup' = dedup \cup {<<"delivery", promoting>>}
  /\ reserved' = NoCandidate /\ promoting' = NoCandidate
  /\ UNCHANGED <<preparation, frozen, judgement, handler, worktree, runs, freezing, failures>>

(* promote_bound failed: the reservation stays when recovery is required. *)
PromotionFailed(recovery_required) ==
  /\ promoting # NoCandidate /\ (Free \/ recovery_required)
  /\ reserved' = IF recovery_required THEN reserved ELSE NoCandidate
  /\ promoting' = NoCandidate
  /\ UNCHANGED <<aggregate, preparation, frozen, judgement, handler, worktree, runs,
                 freezing, failures>>

(***************************************************************************)
(* Controls (control::execute) and report_execution.  Their keys are fresh *)
(* identifiers: a repetition is answered from the store and a stutter.     *)
(***************************************************************************)
(* Slip: controls do not look at the reservation. *)
CommandDuringDelivery(Operation) ==
  /\ Free /\ Exists
  /\ Operation
  /\ UNCHANGED <<dedup, preparation, frozen, judgement, reserved, handler, work, failures>>

Command(Operation) ==
  /\ Free /\ Exists /\ reserved = NoCandidate
  /\ Operation
  /\ UNCHANGED <<dedup, preparation, frozen, judgement, reserved, handler, work, failures>>

Pause == Command(W!Pause)
Resume == Command(W!Resume)
Cancel == Command(W!Cancel)
Retry == Command(W!ResumeInfrastructure \/ W!ResumeBlocked(RetryCycles))
ReportBlocked == Command(W!BlockInfrastructure)
ReportPlanDefect == Command(W!ReplanExecution)

(***************************************************************************)
(* Failures: the daemon dies, or a transaction of a handler fails and the  *)
(* handler returns early.                                                  *)
(***************************************************************************)
Crash ==
  /\ failures < MaxFailures /\ failures' = failures + 1
  /\ handler' = Idle /\ runs' = [r \in Runs |-> Idle]
  /\ freezing' = [c \in Candidates |-> None] /\ promoting' = NoCandidate
  /\ UNCHANGED <<aggregate, preparation, frozen, judgement, reserved, worktree>>

StoreFails ==
  /\ failures < MaxFailures /\ failures' = failures + 1
  /\ ~Free /\ Proceed(Idle)
  /\ runs' = IF handler.at = "evidence" THEN [runs EXCEPT ![handler.run] = Idle] ELSE runs
  /\ UNCHANGED <<aggregate, preparation, frozen, judgement, reserved, worktree, freezing,
                 promoting>>

(***************************************************************************)
(* The daemon's continuations; what the orchestrator and the roles submit; *)
(* what the user decides.                                                  *)
(***************************************************************************)
Continue ==
  \/ StartWorkflow \/ AcceptArchitecture \/ SubmitCandidate \/ BeginRepair
  \/ RecordEvidence \/ ConcludeVerification \/ ConcludeReview \/ ConcludeArbitration
  \/ (\E c \in Candidates : SaveCandidate(c))
  \/ (\E r \in Runs : RunGates(r) \/ BeginRecording(r))

Orchestrate ==
  \/ SubmitRequest \/ PlanVerification
  \/ (\E a \in Plans : SubmitArchitecture(a))
  \/ (\E content \in Contents : Commit(content))
  \/ \E c \in Candidates :
       \/ FreezeStored(c) \/ BeginFreeze(c) \/ BeginPromotion(c)
       \/ (\E r \in Runs : BeginVerification(r, c))
       \/ (\E verdict \in Verdicts : SubmitArbitration(c, verdict))
       \/ (\E role \in Reviewers, verdict \in Verdicts : SubmitReview(c, role, verdict))
  \/ Delivered \/ (\E required \in BOOLEAN : PromotionFailed(required))
  \/ ReportBlocked \/ ReportPlanDefect

Operate == Pause \/ Resume \/ Cancel \/ Retry

Next == Continue \/ Orchestrate \/ Operate \/ Crash \/ StoreFails

Spec == Init /\ [][Next]_vars

(***************************************************************************)
(* Properties.                                                             *)
(***************************************************************************)
(* Every row and every process holds a value of its type. *)
TypeOK ==
  /\ W!TypeOK
  /\ requested \in BOOLEAN /\ discovered \in BOOLEAN /\ plan \in Plans \cup {None}
  /\ frozen \in [Candidates -> Contents \cup {None}]
  /\ evidence \in [Candidates -> [GateNames -> Statuses \cup {None}]]
  /\ reviews \in [Candidates -> [Reviewers -> Verdicts \cup {None}]]
  /\ verdicts \in [Candidates -> Verdicts \cup {None}]
  /\ reserved \in Candidates \cup {NoCandidate}
  /\ worktree \in Contents
  /\ handler \in {Idle, [at |-> "start"]}
        \cup [at : {"architecture"}, plan : Plans]
        \cup [at : {"candidate", "repair", "reviews", "verdict"}, candidate : Candidates]
        \cup [at : {"evidence"}, run : Runs, next : 1 .. Len(Gates) + 1]
  /\ runs \in [Runs -> {Idle} \cup [at : {"gates"}, candidate : Candidates]
        \cup [at : {"done"}, candidate : Candidates, outcome : [GateNames -> Statuses]]]
  /\ freezing \in [Candidates -> Contents \cup {None}]
  /\ promoting \in Candidates \cup {NoCandidate}
  /\ failures \in 0 .. MaxFailures

Rejected(c) == \E target \in Targets : <<"reject", c, target>> \in dedup

(* Nothing is delivered, or awaits delivery under any suspension, but a    *)
(* candidate that was built to a stored plan, frozen with bytes the        *)
(* request allows, run through its gates, approved by the arbiter and, on  *)
(* the full route, by both reviewers, although each of these rows is       *)
(* written by a handler that looks at some of the others only              *)
(* (save_review_once, submit_arbitration, arbitration::refusal); and full  *)
(* arbitration starts with both reviews of the very candidate it judges.   *)
ApprovalIsEarned ==
  LET c == wf.current_candidate IN
  /\ W!Place \in {"Delivery", "Completed"} =>
       /\ requested /\ plan # None /\ discovered
       /\ frozen[c] \in Contents \ Forbidden /\ HasEvidence(c)
       /\ verdicts[c] = "Approved"
       /\ wf.mode = "Full" => \A role \in Reviewers : reviews[c][role] = "Approved"
  /\ W!Place = "Arbitration" /\ wf.mode = "Full" =>
       \A role \in Reviewers : reviews[c][role] # None

(* A reservation holds the workflow where it was taken: approved, of the   *)
(* reserved candidate, and neither paused, blocked, cancelled nor moved on *)
(* until the reservation is gone, through crashes and failed promotions.   *)
ReservationHoldsWorkflow ==
  /\ promoting # NoCandidate => reserved = promoting
  /\ reserved # NoCandidate => Deliverable(reserved) /\ verdicts[reserved] = "Approved"

(* What is judged can be, and can be moved on: the bytes of a candidate    *)
(* are in the store before it is current, a rejected candidate is never    *)
(* judged again, since its identifier is spent, and the command that moves *)
(* a judged candidate on, or begins its repair, is never swallowed as a    *)
(* duplicate of an earlier one.                                            *)
JudgedMayProceed ==
  LET c == wf.current_candidate IN
  /\ W!Place \in W!Judged => frozen[c] # None /\ ~Rejected(c)
  /\ W!Place = "Verification" => <<"verification-passed", c>> \notin dedup
  /\ W!Place = "IndependentReviews" => <<"reviews-ready", c>> \notin dedup
  /\ W!Place = "Arbitration" => <<"approved", c>> \notin dedup
  /\ W!Place = "Repair" => <<"begin-repair", c, wf.repair_cycles>> \notin dedup

GatesPassed(c) == \A g \in GateNames : evidence[c][g] = "passed"

(* A candidate is approved only over gates that all passed, in their       *)
(* latest attempt, even when a later run of the same gates failed between  *)
(* its verification and its verdict.  (Where a crash cuts off the writing  *)
(* of results it may not: see ControlPlaneClaims.)                         *)
ApprovedOverPassedGates ==
  [][ wf.state = "Arbitration" /\ wf'.state = "Delivery" /\ failures = 0 =>
        GatesPassed(wf.current_candidate) ]_vars

(* A candidate leaves verification forward only on gates that all passed,  *)
(* as recorded, and on its own, however many runs are in flight; with one  *)
(* exception the code does not exclude, since VerificationPassed names no  *)
(* candidate: those of an earlier candidate that another run rejected      *)
(* while they were running.                                                *)
MovesOnPassedGates ==
  [][ wf.state = "Verification" /\ wf'.state \in {"IndependentReviews", "Arbitration"} =>
        LET c == runs[handler.run].candidate
        IN GatesPassed(c) /\ (InForce(c) \/ Rejected(c)) ]_vars

(* Every cycle of the budget is charged to the candidate in force, once:   *)
(* the late failure of an earlier candidate costs its successor nothing.   *)
CyclesAreChargedInForce ==
  [][ wf'.repair_cycles # wf.repair_cycles =>
        <<"reject", wf.current_candidate, wf'.repair_target>> \in dedup' \ dedup ]_vars

=============================================================================
