------------------------- MODULE ControlPlaneProofs -------------------------
(***************************************************************************)
(* Proofs about the control plane, for every set of candidates, plans,     *)
(* contents and verifications in flight, every budget and every number of  *)
(* failures: that it implements the aggregate, and its safety properties.  *)
(***************************************************************************)
EXTENDS ControlPlane, TLAPS

(* The aggregate of this module is the aggregate of Workflow; its          *)
(* inductive invariant is proved there, for every command, and carried     *)
(* over through this instance.                                             *)
WP == INSTANCE WorkflowProofs

AggregateInv == WP!IInv

(* The assumptions of Workflow hold of the constants of ControlPlane. *)
LEMMA AggregateAssumptions == WP!CandidatesAssumption /\ WP!BudgetAssumption
  BY CandidatesAssumption, BudgetAssumption, RetryAssumption
  DEF WP!CandidatesAssumption, WP!BudgetAssumption, Extensions

(* The two instances of Workflow, W and WP, have the same initial states   *)
(* and the same commands.                                                  *)
LEMMA InitLinks == W!Init => WP!Init
  BY DEF W!Init, WP!Init, W!None, WP!None

LEMMA NextLinks == W!Next => WP!Next
  BY DEF W!Next, WP!Next, W!None, WP!None, W!Modes, WP!Modes, W!RepairTargets,
     WP!RepairTargets, W!Terminal, WP!Terminal, W!Suspended, WP!Suspended,
     W!Building, WP!Building, W!HasCandidate, WP!HasCandidate, W!Become, WP!Become,
     W!CanPause, WP!CanPause, W!CanBlockInfrastructure, WP!CanBlockInfrastructure,
     W!ConsumeCycle, WP!ConsumeCycle,
     W!CompleteIntake, WP!CompleteIntake, W!Route, WP!Route,
     W!ArchitectureAccepted, WP!ArchitectureAccepted, W!CandidateReady, WP!CandidateReady,
     W!VerificationPassed, WP!VerificationPassed, W!VerificationFailed,
     WP!VerificationFailed, W!VerificationRejected, WP!VerificationRejected,
     W!ReviewsReady, WP!ReviewsReady, W!Approve, WP!Approve, W!Deliver, WP!Deliver,
     W!Reject, WP!Reject, W!BeginRepair, WP!BeginRepair, W!Pause, WP!Pause,
     W!Resume, WP!Resume, W!Cancel, WP!Cancel, W!RetryInfrastructure,
     WP!RetryInfrastructure, W!ResumeBlocked, WP!ResumeBlocked,
     W!BlockInfrastructure, WP!BlockInfrastructure, W!ResumeInfrastructure,
     WP!ResumeInfrastructure, W!ReplanExecution, WP!ReplanExecution

(* A command of the aggregate preserves its invariant. *)
LEMMA AggregateStep == AggregateInv /\ [W!Next]_wf => AggregateInv'
  BY AggregateAssumptions, NextLinks, WP!StepPreserves DEF AggregateInv

(* What a command that only moves the workflow leaves as it was. *)
Kept == /\ wf'.current_candidate = wf.current_candidate
        /\ wf'.mode = wf.mode
        /\ wf'.repair_cycles = wf.repair_cycles
        /\ wf'.max_repair_cycles = wf.max_repair_cycles

(* The conjuncts of the invariant of the aggregate. *)
AggregateFacts ==
  /\ W!TypeOK
  /\ W!CandidateMatchesPlace /\ W!RepairHasTarget /\ W!BudgetRespected /\ W!SuspensionIsExact

LEMMA FactsLink == AggregateInv => AggregateFacts
  BY DEF AggregateInv, WP!IInv, AggregateFacts, W!TypeOK, WP!TypeOK,
     W!CandidateMatchesPlace, WP!CandidateMatchesPlace, W!RepairHasTarget,
     WP!RepairHasTarget, W!BudgetRespected, WP!BudgetRespected, W!SuspensionIsExact,
     WP!SuspensionIsExact, W!Place, WP!Place, W!HasCandidate, WP!HasCandidate,
     W!None, WP!None, W!Modes, WP!Modes, W!RepairTargets, WP!RepairTargets,
     W!Terminal, WP!Terminal, W!Suspended, WP!Suspended, W!Planning, WP!Planning,
     W!Building, WP!Building, W!Judged, WP!Judged, W!States, WP!States

(* What each command of the aggregate does to the place of the workflow,   *)
(* its candidate, its mode and its cycles.                                 *)
LEMMA CommandEffects ==
  ASSUME AggregateFacts
  PROVE
  /\ W!CompleteIntake => W!Place = "Intake" /\ W!Place' = "Routing" /\ Kept
  /\ \A mode \in W!Modes : W!Route(mode) =>
       /\ W!Place = "Routing" /\ W!Place' \in {"QuickExecution", "Architecture"}
       /\ wf'.current_candidate = wf.current_candidate
       /\ wf'.repair_cycles = wf.repair_cycles
  /\ W!ArchitectureAccepted => W!Place = "Architecture" /\ W!Place' = "Execution" /\ Kept
  /\ \A c : W!CandidateReady(c) =>
       /\ W!Place \in W!Building /\ W!Place' = "Verification"
       /\ wf.current_candidate = NoCandidate /\ wf'.current_candidate = c
       /\ wf'.mode = wf.mode /\ wf'.repair_cycles = wf.repair_cycles
  /\ W!VerificationPassed =>
       /\ W!Place = "Verification" /\ Kept
       /\ \/ wf.mode = "Quick" /\ W!Place' = "Arbitration"
          \/ wf.mode = "Full" /\ W!Place' = "IndependentReviews"
  /\ W!ReviewsReady => W!Place = "IndependentReviews" /\ W!Place' = "Arbitration" /\ Kept
  /\ W!Approve(TRUE) => W!Place = "Arbitration" /\ W!Place' = "Delivery" /\ Kept
  /\ W!Deliver => W!Place = "Delivery" /\ W!Place' = "Completed" /\ Kept
  /\ \A target : W!VerificationRejected(target) \/ W!Reject(target) =>
       /\ W!Place \in {"Verification", "Arbitration"} /\ W!Place' \in {"Repair", "Blocked"}
       /\ wf'.current_candidate = wf.current_candidate /\ wf'.mode = wf.mode
       /\ wf'.repair_target = target
  /\ W!BeginRepair =>
       /\ W!Place = "Repair" /\ W!Place' \in {"Execution", "Architecture"}
       /\ wf'.current_candidate = NoCandidate /\ wf'.mode = wf.mode
       /\ wf'.repair_cycles = wf.repair_cycles
  /\ W!Pause \/ W!Resume \/ W!BlockInfrastructure \/ W!ResumeInfrastructure =>
       W!Place' = W!Place /\ Kept
  /\ W!Cancel =>
       /\ W!Place' = "Cancelled" /\ wf'.current_candidate = wf.current_candidate
       /\ wf'.mode = wf.mode /\ wf'.repair_cycles = wf.repair_cycles
  /\ \A n \in Extensions : W!ResumeBlocked(n) =>
       /\ W!Place = "Blocked" /\ W!Place' = "Repair"
       /\ wf'.current_candidate = wf.current_candidate /\ wf'.mode = wf.mode
       /\ wf'.repair_cycles = wf.repair_cycles
  /\ W!ReplanExecution => W!Place = "Execution" /\ W!Place' = "Architecture" /\ Kept
<1> USE DEF AggregateFacts, W!TypeOK, W!SuspensionIsExact, W!Place, W!None, W!Modes,
      W!RepairTargets,
      W!Terminal, W!Suspended, W!Planning, W!Building, W!Judged, W!States, W!Become, Kept
<1>1. W!CompleteIntake => W!Place = "Intake" /\ W!Place' = "Routing" /\ Kept
  BY DEF W!CompleteIntake
<1>2. ASSUME NEW mode \in W!Modes, W!Route(mode)
      PROVE /\ W!Place = "Routing" /\ W!Place' \in {"QuickExecution", "Architecture"}
            /\ wf'.current_candidate = wf.current_candidate
            /\ wf'.repair_cycles = wf.repair_cycles
  BY <1>2 DEF W!Route
<1>3. W!ArchitectureAccepted => W!Place = "Architecture" /\ W!Place' = "Execution" /\ Kept
  BY DEF W!ArchitectureAccepted
<1>4. ASSUME NEW c, W!CandidateReady(c)
      PROVE /\ W!Place \in W!Building /\ W!Place' = "Verification"
            /\ wf.current_candidate = NoCandidate /\ wf'.current_candidate = c
            /\ wf'.mode = wf.mode /\ wf'.repair_cycles = wf.repair_cycles
  BY <1>4 DEF W!CandidateReady, W!CandidateMatchesPlace, W!HasCandidate
<1>5. ASSUME W!VerificationPassed
      PROVE /\ W!Place = "Verification" /\ Kept
            /\ \/ wf.mode = "Quick" /\ W!Place' = "Arbitration"
               \/ wf.mode = "Full" /\ W!Place' = "IndependentReviews"
  BY <1>5 DEF W!VerificationPassed
<1>6. W!ReviewsReady => W!Place = "IndependentReviews" /\ W!Place' = "Arbitration" /\ Kept
  BY DEF W!ReviewsReady
<1>7. W!Approve(TRUE) => W!Place = "Arbitration" /\ W!Place' = "Delivery" /\ Kept
  BY DEF W!Approve
<1>8. W!Deliver => W!Place = "Delivery" /\ W!Place' = "Completed" /\ Kept
  BY DEF W!Deliver
<1>9. ASSUME NEW target, W!VerificationRejected(target) \/ W!Reject(target)
      PROVE /\ W!Place \in {"Verification", "Arbitration"} /\ W!Place' \in {"Repair", "Blocked"}
            /\ wf'.current_candidate = wf.current_candidate /\ wf'.mode = wf.mode
            /\ wf'.repair_target = target
  <2>1. W!ConsumeCycle(target) /\ wf.state \in {"Verification", "Arbitration"}
    BY <1>9 DEF W!VerificationRejected, W!Reject
  <2>2. wf'.infrastructure_blocked_from = "None"
    BY <2>1 DEF W!ConsumeCycle
  <2>3. wf'.state \in {"Repair", "Blocked"}
    BY <2>1 DEF W!ConsumeCycle
  <2>4. QED
    BY <2>1, <2>2, <2>3 DEF W!ConsumeCycle
<1>10. ASSUME W!BeginRepair
      PROVE /\ W!Place = "Repair" /\ W!Place' \in {"Execution", "Architecture"}
            /\ wf'.current_candidate = NoCandidate /\ wf'.mode = wf.mode
            /\ wf'.repair_cycles = wf.repair_cycles
  BY <1>10 DEF W!BeginRepair
<1>11. ASSUME W!Pause PROVE W!Place' = W!Place /\ Kept
  BY <1>11 DEF W!Pause, W!CanPause
<1>12. ASSUME W!Resume PROVE W!Place' = W!Place /\ Kept
  BY <1>12 DEF W!Resume
<1>13. ASSUME W!BlockInfrastructure PROVE W!Place' = W!Place /\ Kept
  BY <1>13 DEF W!BlockInfrastructure, W!CanBlockInfrastructure
<1>14. ASSUME W!ResumeInfrastructure PROVE W!Place' = W!Place /\ Kept
  BY <1>14 DEF W!ResumeInfrastructure
<1>15. ASSUME W!Cancel
       PROVE /\ W!Place' = "Cancelled" /\ wf'.current_candidate = wf.current_candidate
             /\ wf'.mode = wf.mode /\ wf'.repair_cycles = wf.repair_cycles
  BY <1>15 DEF W!Cancel
<1>16. ASSUME NEW n \in Extensions, W!ResumeBlocked(n)
       PROVE /\ W!Place = "Blocked" /\ W!Place' = "Repair"
             /\ wf'.current_candidate = wf.current_candidate /\ wf'.mode = wf.mode
             /\ wf'.repair_cycles = wf.repair_cycles
  BY <1>16 DEF W!ResumeBlocked
<1>17. W!ReplanExecution => W!Place = "Execution" /\ W!Place' = "Architecture" /\ Kept
  BY DEF W!ReplanExecution
<1> HIDE DEF AggregateFacts, W!TypeOK, W!SuspensionIsExact, W!Place, W!None, W!Modes,
      W!RepairTargets,
      W!Terminal, W!Suspended, W!Planning, W!Building, W!Judged, W!States, W!Become, Kept
<1>18. QED
  BY <1>1, <1>2, <1>3, <1>4, <1>5, <1>6, <1>7, <1>8, <1>9, <1>10, <1>11, <1>12, <1>13,
     <1>14, <1>15, <1>16, <1>17

(***************************************************************************)
(* The inductive invariant.                                                *)
(*                                                                         *)
(* The keys of command_deduplication are never forgotten, so they are the  *)
(* history of the workflow: which candidates were submitted, passed, were  *)
(* reviewed, rejected and approved.  What the state-checking handlers rely *)
(* on without reading it is stated through them: that a candidate that was *)
(* rejected once is never in force at a judged place again, that the key   *)
(* of the command that moves the candidate in force on is still unused,    *)
(* and that a row of reviews belongs to the candidate the workflow judges. *)
(***************************************************************************)
(* What a handler established in an earlier transaction still holds in its *)
(* next one, since the store stays locked in between.                      *)
HandlerKnows ==
  /\ handler.at = "candidate" => frozen[handler.candidate] # None
  /\ handler.at = "repair" => W!Place = "Repair" /\ InForce(handler.candidate)
  /\ handler.at = "verdict" =>
       /\ W!Place = "Arbitration" /\ InForce(handler.candidate)
       /\ HasEvidence(handler.candidate) /\ verdicts[handler.candidate] # None
  /\ handler.at = "evidence" =>
       /\ runs[handler.run].at = "done"
       /\ \A i \in 1 .. handler.next - 1 :
            evidence[runs[handler.run].candidate][Gates[i]] =
              runs[handler.run].outcome[Gates[i]]

(* A verification runs for a candidate that was submitted, if not for the  *)
(* one in force: it holds no lock while its gates run.                     *)
RunsAreOfCandidates ==
  \A r \in Runs : runs[r] # Idle => <<"candidate", runs[r].candidate>> \in dedup

(* The keys that are used while a candidate is judged and repaired. *)
Keys(c) == {<<"verification-passed", c>>, <<"reviews-ready", c>>}
             \cup {<<"reject", c, target>> : target \in Targets}
             \cup {<<"begin-repair", c, n>> : n \in 0 .. MaxU8}

(* The keys of a candidate are used in order: none before it is submitted; *)
(* while it is in force they say which places it has left; after its       *)
(* rejection it is not in force at a judged place again; and it is         *)
(* approved once.                                                          *)
KeysInOrder(c) ==
  /\ <<"candidate", c>> \notin dedup => ~InForce(c) /\ Keys(c) \cap dedup = {}
  /\ InForce(c) =>
       /\ frozen[c] # None
       /\ <<"verification-passed", c>> \in dedup => W!Place # "Verification"
       /\ <<"reviews-ready", c>> \in dedup =>
            W!Place \notin {"Verification", "IndependentReviews"}
       /\ Rejected(c) => W!Place \in {"Repair", "Blocked", "Cancelled"}
       /\ \A n \in 0 .. MaxU8 : <<"begin-repair", c, n>> \notin dedup
  /\ <<"approved", c>> \in dedup => W!Place \in {"Delivery", "Completed", "Cancelled"}
KeysAreInOrder == \A c \in Candidates : KeysInOrder(c)

(* A review of a candidate is written while the workflow reviews it, and   *)
(* is of the past once its reviews were reported.                          *)
ReviewsAreOfJudged ==
  \A c \in Candidates : \A role \in Reviewers :
    reviews[c][role] # None =>
      \/ <<"reviews-ready", c>> \in dedup
      \/ InForce(c) /\ W!Place \in {"IndependentReviews", "Cancelled"}

(* Without a crash or a failing transaction the evidence of a candidate    *)
(* has no holes but while its results are being written.                   *)
EvidenceIsWhole ==
  failures = 0 =>
    \A c \in Candidates :
      \/ evidence[c] = NoEvidence
      \/ \A g \in GateNames : evidence[c][g] # None
      \/ handler.at = "evidence" /\ runs[handler.run].candidate = c

(* A candidate that was submitted is in force until it is rejected: it     *)
(* only ever gives way to the repair that its own rejection begins.        *)
PastIsRejected ==
  \A c \in Candidates :
    /\ <<"candidate", c>> \in dedup => InForce(c) \/ Rejected(c)
    /\ InForce(c) /\ W!Place \in {"Repair", "Blocked"} => Rejected(c)

(* Each row is written after those it stands on. *)
RowsInOrder ==
  /\ plan # None => requested
  /\ discovered => plan # None
  /\ \A c \in Candidates :
       /\ frozen[c] # None \/ freezing[c] # None => discovered
       /\ verdicts[c] # None => HasEvidence(c)

IInv ==
  /\ TypeOK /\ AggregateInv
  /\ HandlerKnows /\ RunsAreOfCandidates /\ KeysAreInOrder /\ ReviewsAreOfJudged
  /\ PastIsRejected /\ RowsInOrder
  /\ ReservationHoldsWorkflow /\ ApprovalIsEarned /\ EvidenceIsWhole

(* Every step of the control plane is a command of the aggregate or leaves *)
(* it alone.                                                               *)
LEMMA StepImplements == IInv /\ [Next]_vars => [W!Next]_wf
<1> SUFFICES ASSUME IInv, [Next]_vars PROVE [W!Next]_wf
  OBVIOUS
<1> USE DEF Proceed, aggregate
<1>1. ASSUME NEW c \in Candidates, CandidateIsReady(c) PROVE [W!Next]_wf
  BY <1>1 DEF CandidateIsReady, Issue, W!Next
<1>2. ASSUME NEW c \in Candidates, NEW target \in Targets, RouteToRepair(c, target)
      PROVE [W!Next]_wf
  BY <1>2 DEF RouteToRepair, Targets, W!Next
<1>3. CASE Continue
  <2>1. CASE StartWorkflow
    BY <2>1, RoutesAssumption DEF StartWorkflow, Issue, W!Next, W!Modes
  <2>2. CASE AcceptArchitecture
    BY <2>2 DEF AcceptArchitecture, Issue, W!Next
  <2>3. CASE SubmitCandidate
    <3>1. handler.candidate \in Candidates
      BY <2>3 DEF IInv, TypeOK, SubmitCandidate, Idle
    <3>2. QED
      BY <1>1, <2>3, <3>1 DEF SubmitCandidate
  <2>4. CASE BeginRepair
    BY <2>4 DEF BeginRepair, Issue, W!Next
  <2>5. CASE RecordEvidence
    BY <2>5 DEF RecordEvidence
  <2>6. CASE ConcludeVerification
    <3>1. runs[handler.run].candidate \in Candidates
      BY <2>6 DEF IInv, TypeOK, ConcludeVerification, HandlerKnows, Idle
    <3>2. "Execution" \in Targets
      BY DEF Targets, W!RepairTargets
    <3>3. QED
      BY <1>2, <2>6, <3>1, <3>2 DEF ConcludeVerification, Issue, W!Next
  <2>7. CASE ConcludeReview
    BY <2>7 DEF ConcludeReview, Issue, W!Next
  <2>8. CASE ConcludeArbitration
    <3>1. handler.candidate \in Candidates
      BY <2>8 DEF IInv, TypeOK, ConcludeArbitration, Idle
    <3>2. verdicts[handler.candidate] # "Approved" => verdicts[handler.candidate] \in Targets
      BY <2>8, <3>1 DEF IInv, TypeOK, ConcludeArbitration, HandlerKnows, Verdicts
    <3>3. "Execution" \in Targets /\ RejectedTarget(handler.candidate) \in Targets
      BY DEF Targets, W!RepairTargets, RejectedTarget
    <3>4. TRUE \in BOOLEAN
      OBVIOUS
    <3>5. QED
      BY <1>2, <2>8, <3>1, <3>2, <3>3, <3>4 DEF ConcludeArbitration, Issue, W!Next
  <2>9. ASSUME NEW c \in Candidates, SaveCandidate(c) PROVE [W!Next]_wf
    BY <2>9 DEF SaveCandidate
  <2>10. ASSUME NEW r \in Runs, RunGates(r) \/ BeginRecording(r) PROVE [W!Next]_wf
    BY <2>10 DEF RunGates, BeginRecording
  <2>11. QED
    BY <1>3, <2>1, <2>2, <2>3, <2>4, <2>5, <2>6, <2>7, <2>8, <2>9, <2>10 DEF Continue
<1>4. CASE Orchestrate
  <2>1. CASE SubmitRequest \/ PlanVerification
    BY <2>1 DEF SubmitRequest, PlanVerification
  <2>2. ASSUME NEW a \in Plans, SubmitArchitecture(a) PROVE [W!Next]_wf
    BY <2>2 DEF SubmitArchitecture
  <2>3. ASSUME NEW content \in Contents, Commit(content) PROVE [W!Next]_wf
    BY <2>3 DEF Commit
  <2>4. ASSUME NEW c \in Candidates, FreezeStored(c) PROVE [W!Next]_wf
    BY <1>1, <2>4 DEF FreezeStored
  <2>5. ASSUME NEW c \in Candidates, BeginFreeze(c) \/ BeginPromotion(c) PROVE [W!Next]_wf
    BY <2>5 DEF BeginFreeze, BeginPromotion
  <2>6. ASSUME NEW c \in Candidates, NEW r \in Runs, BeginVerification(r, c)
        PROVE [W!Next]_wf
    BY <2>6 DEF BeginVerification
  <2>7. ASSUME NEW c \in Candidates, NEW verdict \in Verdicts, SubmitArbitration(c, verdict)
        PROVE [W!Next]_wf
    BY <2>7 DEF SubmitArbitration
  <2>8. ASSUME NEW c \in Candidates, NEW role \in Reviewers, NEW verdict \in Verdicts,
               SubmitReview(c, role, verdict)
        PROVE [W!Next]_wf
    BY <2>8 DEF SubmitReview
  <2>9. CASE Delivered
    BY <2>9 DEF Delivered, W!Next
  <2>10. ASSUME NEW required \in BOOLEAN, PromotionFailed(required) PROVE [W!Next]_wf
    BY <2>10 DEF PromotionFailed
  <2>11. CASE ReportBlocked \/ ReportPlanDefect
    BY <2>11 DEF ReportBlocked, ReportPlanDefect, Command, W!Next
  <2>12. QED
    BY <1>4, <2>1, <2>2, <2>3, <2>4, <2>5, <2>6, <2>7, <2>8, <2>9, <2>10, <2>11
    DEF Orchestrate
<1>5. CASE Operate
  BY <1>5 DEF Operate, Pause, Resume, Cancel, Retry, Command, Extensions, W!Next
<1>6. CASE Crash \/ StoreFails \/ UNCHANGED vars
  BY <1>6 DEF Crash, StoreFails, vars
<1>7. QED
  BY <1>3, <1>4, <1>5, <1>6 DEF Next

(* The invariant holds initially. *)
LEMMA InitEstablishes == Init => IInv
<1> SUFFICES ASSUME Init PROVE IInv
  OBVIOUS
<1>1. AggregateInv
  BY AggregateAssumptions, InitLinks, WP!InitEstablishes DEF Init, AggregateInv
<1>2. W!TypeOK
  BY <1>1, FactsLink DEF AggregateFacts
<1>3. TypeOK
  <2>1. evidence \in [Candidates -> [GateNames -> Statuses \cup {None}]]
    BY DEF Init, NoEvidence
  <2>2. reviews \in [Candidates -> [Reviewers -> Verdicts \cup {None}]]
    BY DEF Init
  <2>3. /\ plan \in Plans \cup {None}
        /\ frozen \in [Candidates -> Contents \cup {None}]
        /\ verdicts \in [Candidates -> Verdicts \cup {None}]
        /\ freezing \in [Candidates -> Contents \cup {None}]
        /\ failures \in 0 .. MaxFailures
    BY FailuresAssumption DEF Init
  <2>4. QED
    BY <1>2, <2>1, <2>2, <2>3 DEF Init, TypeOK
<1>4. W!Place = "Intake" /\ wf.current_candidate = NoCandidate
  BY DEF Init, W!Init, W!Place
<1>5. HandlerKnows /\ RunsAreOfCandidates
  BY DEF Init, Idle, HandlerKnows, RunsAreOfCandidates
<1>6. KeysAreInOrder /\ ReviewsAreOfJudged
  BY CandidatesAssumption, <1>4
  DEF Init, KeysAreInOrder, KeysInOrder, ReviewsAreOfJudged, InForce
<1>7. ReservationHoldsWorkflow /\ ApprovalIsEarned /\ EvidenceIsWhole
  BY <1>4 DEF Init, ReservationHoldsWorkflow, ApprovalIsEarned, EvidenceIsWhole
<1>8. PastIsRejected /\ RowsInOrder
  BY <1>4 DEF Init, PastIsRejected, RowsInOrder
<1>9. QED
  BY <1>1, <1>3, <1>5, <1>6, <1>7, <1>8 DEF IInv

(* The fields of the handler that holds the mutex. *)
LEMMA HandlerFields ==
  ASSUME TypeOK
  PROVE /\ handler.at = "architecture" => handler.plan \in Plans
        /\ handler.at \in {"candidate", "repair", "reviews", "verdict"} =>
             handler.candidate \in Candidates
        /\ handler.at = "evidence" =>
             /\ handler.run \in Runs /\ handler.next \in 1 .. 4
             /\ handler = [at |-> "evidence", run |-> handler.run, next |-> handler.next]
  BY DEF TypeOK, Idle, Gates

(* The fields of a verification in flight. *)
LEMMA RunFields ==
  ASSUME TypeOK, NEW r \in Runs
  PROVE /\ runs[r].at \in {"idle", "gates", "done"}
        /\ runs[r] = Idle <=> runs[r].at = "idle"
        /\ runs[r].at \in {"gates", "done"} => runs[r].candidate \in Candidates
        /\ runs[r].at = "done" => runs[r].outcome \in [GateNames -> Statuses]
  BY DEF TypeOK, Idle

(* Type correctness is preserved. *)
LEMMA TypeStep == IInv /\ [Next]_vars => TypeOK'
<1> SUFFICES ASSUME IInv, [Next]_vars PROVE TypeOK'
  OBVIOUS
<1>1. W!TypeOK'
  BY AggregateStep, StepImplements, FactsLink, PTL DEF IInv, AggregateFacts
<1> USE <1>1 DEF IInv, TypeOK, Proceed, aggregate, preparation, judgement, work
<1>3. CASE Continue
  <2>1. CASE StartWorkflow
    BY <2>1 DEF StartWorkflow
  <2>2. CASE AcceptArchitecture
    BY <2>2 DEF AcceptArchitecture
  <2>3. CASE SubmitCandidate
    BY <2>3 DEF SubmitCandidate
  <2>4. CASE BeginRepair
    BY <2>4 DEF BeginRepair
  <2>5. CASE RecordEvidence
    <3>1. /\ handler.run \in Runs /\ handler.next \in 1 .. 3
          /\ handler' = [at |-> "evidence", run |-> handler.run, next |-> handler.next + 1]
      <4>1. handler = [at |-> "evidence", run |-> handler.run, next |-> handler.next]
        BY <2>5, HandlerFields DEF RecordEvidence
      <4>2. handler.run \in Runs /\ handler.next \in 1 .. 3
        BY <2>5, HandlerFields DEF RecordEvidence, Gates
      <4>3. handler' = [handler EXCEPT !.next = @ + 1]
        BY <2>5 DEF RecordEvidence
      <4> HIDE DEF TypeOK, IInv
      <4>4. QED
        BY <4>1, <4>2, <4>3
    <3>2. /\ runs[handler.run].candidate \in Candidates
          /\ runs[handler.run].outcome \in [GateNames -> Statuses]
      BY <2>5, <3>1, RunFields DEF RecordEvidence, HandlerKnows
    <3>3. Gates[handler.next] \in GateNames
      BY <3>1 DEF Gates, GateNames
    <3>4. evidence' \in [Candidates -> [GateNames -> Statuses \cup {None}]]
      BY <2>5, <3>2, <3>3 DEF RecordEvidence
    <3>5. handler' \in [at : {"evidence"}, run : Runs, next : 1 .. Len(Gates) + 1]
      BY <3>1 DEF Gates
    <3>6. QED
      BY <2>5, <3>4, <3>5 DEF RecordEvidence
  <2>6. CASE ConcludeVerification
    <3>1. handler.run \in Runs /\ runs[handler.run].candidate \in Candidates
      BY <2>6, HandlerFields, RunFields DEF ConcludeVerification, HandlerKnows
    <3>2. handler' \in {Idle} \cup [at : {"repair"}, candidate : Candidates]
      BY <2>6, <3>1 DEF ConcludeVerification, RouteToRepair
    <3>3. runs' = [runs EXCEPT ![handler.run] = Idle]
      BY <2>6 DEF ConcludeVerification
    <3>4. QED
      BY <2>6, <3>1, <3>2, <3>3 DEF ConcludeVerification
  <2>7. CASE ConcludeReview
    BY <2>7 DEF ConcludeReview
  <2>8. CASE ConcludeArbitration
    <3>1. handler.candidate \in Candidates
      BY <2>8, HandlerFields DEF ConcludeArbitration
    <3>2. ASSUME NEW target, RouteToRepair(handler.candidate, target)
          PROVE handler' \in {Idle} \cup [at : {"repair"}, candidate : Candidates]
      BY <3>1, <3>2 DEF RouteToRepair
    <3>3. handler' \in {Idle} \cup [at : {"repair"}, candidate : Candidates]
      BY <2>8, <3>2 DEF ConcludeArbitration
    <3>4. QED
      BY <2>8, <3>3 DEF ConcludeArbitration
  <2>9. ASSUME NEW c \in Candidates, SaveCandidate(c) PROVE TypeOK'
    <3>1. freezing[c] \in Contents
      BY <2>9 DEF SaveCandidate
    <3>2. frozen' \in [Candidates -> Contents \cup {None}]
      BY <2>9, <3>1 DEF SaveCandidate
    <3>3. freezing' \in [Candidates -> Contents \cup {None}]
      BY <2>9 DEF SaveCandidate
    <3>4. handler' \in {handler, [at |-> "candidate", candidate |-> c]}
      BY <2>9 DEF SaveCandidate
    <3>5. QED
      BY <2>9, <3>2, <3>3, <3>4 DEF SaveCandidate
  <2>10. ASSUME NEW r \in Runs, RunGates(r) \/ BeginRecording(r) PROVE TypeOK'
    <3>1. CASE RunGates(r)
      <4>1. runs[r].candidate \in Candidates
        BY <3>1, RunFields DEF RunGates
      <4>2. ASSUME NEW o \in [GateNames -> Statuses],
              runs' = [runs EXCEPT ![r] = [at |-> "done", candidate |-> @.candidate, outcome |-> o]]
            PROVE  TypeOK'
        BY <3>1, <4>1, <4>2 DEF RunGates
      <4>3. CASE runs' = [runs EXCEPT ![r] = Idle]
        BY <3>1, <4>3 DEF RunGates
      <4>4. QED
        BY <3>1, <4>2, <4>3 DEF RunGates, Outcomes
    <3>2. CASE BeginRecording(r)
      BY <3>2 DEF BeginRecording, Gates
    <3>3. QED
      BY <2>10, <3>1, <3>2
  <2>11. QED
    BY <1>3, <2>1, <2>2, <2>3, <2>4, <2>5, <2>6, <2>7, <2>8, <2>9, <2>10 DEF Continue
<1>4. CASE Orchestrate
  <2>1. CASE SubmitRequest \/ PlanVerification
    BY <2>1 DEF SubmitRequest, PlanVerification
  <2>2. ASSUME NEW a \in Plans, SubmitArchitecture(a) PROVE TypeOK'
    BY <2>2 DEF SubmitArchitecture
  <2>3. ASSUME NEW content \in Contents, Commit(content) PROVE TypeOK'
    BY <2>3 DEF Commit
  <2>4. ASSUME NEW c \in Candidates, FreezeStored(c) PROVE TypeOK'
    BY <2>4 DEF FreezeStored
  <2>5. ASSUME NEW c \in Candidates, BeginFreeze(c) \/ BeginPromotion(c) PROVE TypeOK'
    <3>1. CASE BeginFreeze(c)
      BY <3>1 DEF BeginFreeze
    <3>2. CASE BeginPromotion(c)
      BY <3>2 DEF BeginPromotion
    <3>3. QED
      BY <2>5, <3>1, <3>2
  <2>6. ASSUME NEW c \in Candidates, NEW r \in Runs, BeginVerification(r, c)
        PROVE TypeOK'
    BY <2>6 DEF BeginVerification
  <2>7. ASSUME NEW c \in Candidates, NEW verdict \in Verdicts, SubmitArbitration(c, verdict)
        PROVE TypeOK'
    BY <2>7 DEF SubmitArbitration
  <2>8. ASSUME NEW c \in Candidates, NEW role \in Reviewers, NEW verdict \in Verdicts,
               SubmitReview(c, role, verdict)
        PROVE TypeOK'
    BY <2>8 DEF SubmitReview
  <2>9. CASE Delivered
    BY <2>9 DEF Delivered
  <2>10. ASSUME NEW required \in BOOLEAN, PromotionFailed(required) PROVE TypeOK'
    BY <2>10 DEF PromotionFailed
  <2>11. CASE ReportBlocked \/ ReportPlanDefect
    BY <2>11 DEF ReportBlocked, ReportPlanDefect, Command
  <2>12. QED
    BY <1>4, <2>1, <2>2, <2>3, <2>4, <2>5, <2>6, <2>7, <2>8, <2>9, <2>10, <2>11
    DEF Orchestrate
<1>5. CASE Operate
  BY <1>5 DEF Operate, Pause, Resume, Cancel, Retry, Command
<1>6. CASE Crash
  BY <1>6, FailuresAssumption DEF Crash
<1>7. CASE StoreFails
  <2>1. handler.at = "evidence" => handler.run \in Runs
    BY HandlerFields
  <2>2. failures' \in 0 .. MaxFailures
    BY <1>7, FailuresAssumption DEF StoreFails
  <2>3. runs' \in {runs, [runs EXCEPT ![handler.run] = Idle]}
    BY <1>7 DEF StoreFails
  <2>4. QED
    BY <1>7, <2>1, <2>2, <2>3 DEF StoreFails
<1>8. CASE UNCHANGED vars
  BY <1>8 DEF vars
<1>9. QED
  BY <1>3, <1>4, <1>5, <1>6, <1>7, <1>8 DEF Next

(***************************************************************************)
(* What a step does to the aggregate and the keys: a move of one of nine   *)
(* kinds.  The rest of the proof argues about these, not about the thirty  *)
(* actions that make them.                                                 *)
(***************************************************************************)
(* A key is spent on a command that moves the workflow. *)
Moves(key, from, to) ==
  /\ reserved = NoCandidate /\ key \notin dedup /\ dedup' = dedup \cup {key}
  /\ W!Place \in from /\ W!Place' \in to
SameMode == wf'.mode = wf.mode
SameCandidate == wf'.current_candidate = wf.current_candidate
SameCycles == wf'.repair_cycles = wf.repair_cycles

(* The keys that name a candidate. *)
OwnKey(c) == {<<"candidate", c>>, <<"approved", c>>} \cup Keys(c)
(* Intake, routing, architecture and a plan found wanting. *)
PlansOn ==
  /\ reserved = NoCandidate /\ dedup \subseteq dedup'
  /\ \A c \in Candidates : OwnKey(c) \cap dedup' \subseteq dedup
  /\ W!Place \in W!Planning \cup W!Building /\ W!Place' \in W!Planning \cup W!Building
  /\ SameCandidate /\ SameCycles
(* A frozen candidate comes into force. *)
Submits(c) ==
  /\ Moves(<<"candidate", c>>, W!Building, {"Verification"})
  /\ frozen[c] # None
  /\ wf.current_candidate = NoCandidate /\ wf'.current_candidate = c
  /\ SameMode /\ SameCycles
(* The gates passed: on to review, or to arbitration in the quick mode. *)
PassesVerification(c) ==
  /\ Moves(<<"verification-passed", c>>, {"Verification"}, {"IndependentReviews", "Arbitration"})
  /\ W!Place' = "Arbitration" => wf.mode = "Quick"
  /\ <<"candidate", c>> \in dedup /\ SameCandidate /\ SameMode /\ SameCycles
  /\ ConcludeVerification
  /\ c = runs[handler.run].candidate /\ AllPassed(runs[handler.run].outcome)
(* Both reviews are in. *)
OpensArbitration(c) ==
  /\ Moves(<<"reviews-ready", c>>, {"IndependentReviews"}, {"Arbitration"})
  /\ Reviewed(c) /\ SameCandidate /\ SameMode /\ SameCycles
(* The arbiter approved and nothing contradicts it. *)
Approves(c) ==
  /\ Moves(<<"approved", c>>, {"Arbitration"}, {"Delivery"})
  /\ InForce(c) /\ HasEvidence(c) /\ verdicts[c] = "Approved" /\ frozen[c] \notin Forbidden
  /\ ReviewsApprove(c) /\ GatesPass(c) /\ SameCandidate /\ SameMode /\ SameCycles
  /\ handler.at = "verdict"
(* A gate or the arbiter sends the candidate in force back. *)
Rejects(c, target) ==
  /\ Moves(<<"reject", c, target>>, {"Verification", "Arbitration"}, {"Repair", "Blocked"})
  /\ InForce(c) /\ SameCandidate /\ SameMode
  /\ wf'.repair_target = target
(* The repair of a rejected candidate begins: none is in force. *)
Repairs(c) ==
  /\ Moves(<<"begin-repair", c, wf.repair_cycles>>, {"Repair"}, {"Execution", "Architecture"})
  /\ InForce(c) /\ wf'.current_candidate = NoCandidate /\ SameMode /\ SameCycles
(* A suspension, a retry or a cancellation: no candidate gains or loses. *)
Stays ==
  /\ reserved = NoCandidate /\ dedup \subseteq dedup'
  /\ \A c \in Candidates : OwnKey(c) \cap dedup' \subseteq dedup
  /\ \/ W!Place' = W!Place
     \/ W!Place = "Blocked" /\ W!Place' = "Repair"
     \/ W!Place' = "Cancelled"
  /\ SameCandidate /\ SameMode /\ SameCycles
(* The promotion succeeded and drops its reservation. *)
Delivers ==
  /\ dedup \subseteq dedup' /\ \A c \in Candidates : OwnKey(c) \cap dedup' \subseteq dedup
  /\ W!Place = "Delivery" /\ W!Place' = "Completed"
  /\ SameCandidate /\ SameMode /\ SameCycles
  /\ reserved' = NoCandidate /\ promoting' = NoCandidate

(* A rejection at Verification comes from the run that concludes. *)
Move ==
  \/ PlansOn \/ Stays \/ Delivers
  \/ \E c \in Candidates :
       \/ Submits(c) \/ PassesVerification(c) \/ OpensArbitration(c) \/ Approves(c) \/ Repairs(c)
       \/ \E target \in Targets :
            Rejects(c, target) /\ (W!Place = "Verification" => ConcludeVerification)

(* Intake, routing, plans, blocks and deliveries have keys of their own. *)
LEMMA KeysDiffer ==
  ASSUME NEW c \in Candidates
  PROVE  /\ <<"complete-intake">> \notin OwnKey(c) /\ <<"route">> \notin OwnKey(c)
         /\ \A a : <<"architecture-accepted", a>> \notin OwnKey(c)
         /\ \A a : <<"verification-blocked", a>> \notin OwnKey(c)
         /\ \A a : <<"delivery", a>> \notin OwnKey(c)
<1> DEFINE Heads == {"candidate", "approved", "verification-passed", "reviews-ready", "reject",
                     "begin-repair"}
<1>1. ASSUME NEW key \in OwnKey(c) PROVE key[1] \in Heads
  BY <1>1 DEF OwnKey, Keys
<1>2. /\ <<"complete-intake">>[1] \notin Heads /\ <<"route">>[1] \notin Heads
      /\ \A a : /\ <<"architecture-accepted", a>>[1] \notin Heads
                /\ <<"verification-blocked", a>>[1] \notin Heads
                /\ <<"delivery", a>>[1] \notin Heads
  OBVIOUS
<1>3. QED
  BY <1>1, <1>2

(* repair::route rejects the candidate in force or changes nothing. *)
LEMMA RoutingMoves ==
  ASSUME IInv, NEW c \in Candidates, NEW target \in Targets, RouteToRepair(c, target)
  PROVE  UNCHANGED aggregate \/ Rejects(c, target)
<1>1. CASE ~(FindingApplies(c) /\ Fresh(<<"reject", c, target>>))
  BY <1>1 DEF RouteToRepair
<1>2. CASE FindingApplies(c) /\ Fresh(<<"reject", c, target>>)
  <2>1. W!VerificationRejected(target) \/ W!Reject(target)
    BY <1>2 DEF RouteToRepair
  <2>2. QED
    BY <1>2, <2>1, CommandEffects, FactsLink
    DEF RouteToRepair, IInv, Rejects, Moves, Fresh, FindingApplies, SameCandidate,
        SameMode, SameCycles
<1>3. QED
  BY <1>1, <1>2

(* A candidate that is ready is submitted or nothing changes. *)
LEMMA SubmittingMoves ==
  ASSUME IInv, NEW c \in Candidates, frozen[c] # None, CandidateIsReady(c)
  PROVE  UNCHANGED aggregate \/ Submits(c)
  BY CommandEffects, FactsLink
  DEF CandidateIsReady, Issue, Fresh, IInv, Submits, Moves, aggregate, SameMode, SameCycles

(* The controls and report_execution make moves. *)
LEMMA CommandMoves ==
  ASSUME IInv, Pause \/ Resume \/ Cancel \/ Retry \/ ReportBlocked \/ ReportPlanDefect
  PROVE  Move
<1>1. reserved = NoCandidate /\ dedup' = dedup
  BY DEF Pause, Resume, Cancel, Retry, ReportBlocked, ReportPlanDefect, Command
<1>2. CASE Pause \/ Resume \/ ReportBlocked \/ Cancel
  BY <1>1, <1>2, CommandEffects, FactsLink
  DEF Pause, Resume, ReportBlocked, Cancel, Command, IInv, Move, Stays, SameCandidate,
      SameMode, SameCycles, Kept
<1>3. CASE Retry
  <2>1. RetryCycles \in Extensions
    BY DEF Extensions
  <2>2. QED
    BY <1>1, <1>3, <2>1, CommandEffects, FactsLink
    DEF Retry, Command, IInv, Move, Stays, SameCandidate, SameMode, SameCycles, Kept
<1>4. CASE ReportPlanDefect
  BY <1>1, <1>4, CommandEffects, FactsLink
  DEF ReportPlanDefect, Command, IInv, Move, PlansOn, SameCandidate, SameCycles, Kept,
      W!Planning, W!Building
<1>5. QED
  BY <1>2, <1>3, <1>4

(* Every step leaves the aggregate and the keys alone, or makes one move   *)
(* and writes no row of candidates, evidence, reviews or verdicts.         *)
LEMMA StepMoves ==
  IInv /\ [Next]_vars => UNCHANGED aggregate \/ (Move /\ UNCHANGED <<frozen, judgement>>)
<1> SUFFICES ASSUME IInv, [Next]_vars, ~UNCHANGED aggregate
             PROVE  Move /\ UNCHANGED <<frozen, judgement>>
  OBVIOUS
<1>1. AggregateFacts /\ TypeOK
  BY FactsLink DEF IInv
<1>2. CASE StartWorkflow
  <2>1. dedup' \in {dedup, dedup \cup {<<"complete-intake">>}, dedup \cup {<<"route">>}}
    BY <1>2 DEF StartWorkflow, Issue, aggregate
  <2>2. reserved = NoCandidate
    BY <1>2 DEF StartWorkflow, Issue, Fresh, aggregate
  <2>3. \/ W!CompleteIntake
        \/ \E mode \in W!Modes : W!Route(mode)
    BY <1>2, RoutesAssumption DEF StartWorkflow, Issue, aggregate, W!Modes
  <2>4. /\ W!Place \in W!Planning \cup W!Building /\ W!Place' \in W!Planning \cup W!Building
        /\ SameCandidate /\ SameCycles
    BY <1>1, <2>3, CommandEffects
    DEF W!Planning, W!Building, SameCandidate, SameCycles, Kept
  <2>5. PlansOn
    BY <2>1, <2>2, <2>4, KeysDiffer DEF PlansOn
  <2>6. QED
    BY <1>2, <2>5 DEF StartWorkflow, Move
<1>3. CASE AcceptArchitecture
  <2>1. reserved = NoCandidate /\ W!ArchitectureAccepted
        /\ dedup' = dedup \cup {<<"architecture-accepted", handler.plan>>}
    BY <1>3 DEF AcceptArchitecture, Issue, Fresh, aggregate
  <2>2. PlansOn
    BY <1>1, <2>1, CommandEffects, KeysDiffer
    DEF PlansOn, W!Planning, W!Building, SameCandidate, SameCycles, Kept
  <2>3. QED
    BY <1>3, <2>2 DEF AcceptArchitecture, Move
<1>4. CASE SubmitCandidate
  <2>1. handler.candidate \in Candidates /\ frozen[handler.candidate] # None
    BY <1>1, <1>4, HandlerFields DEF SubmitCandidate, IInv, HandlerKnows
  <2>2. QED
    BY <1>4, <2>1, SubmittingMoves DEF SubmitCandidate, Move
<1>5. CASE BeginRepair
  <2>1. handler.candidate \in Candidates /\ InForce(handler.candidate)
    BY <1>1, <1>5, HandlerFields DEF BeginRepair, IInv, HandlerKnows
  <2>2. Repairs(handler.candidate)
    BY <1>1, <1>5, <2>1, CommandEffects
    DEF BeginRepair, Issue, Fresh, aggregate, Repairs, Moves, SameMode, SameCycles
  <2>3. QED
    BY <1>5, <2>1, <2>2 DEF BeginRepair, Move
<1>6. CASE ConcludeVerification
  <2> DEFINE c == runs[handler.run].candidate
  <2>1. c \in Candidates /\ <<"candidate", c>> \in dedup
    <3>1. handler.run \in Runs /\ runs[handler.run].at = "done"
      BY <1>1, <1>6, HandlerFields DEF ConcludeVerification, IInv, HandlerKnows
    <3>2. QED
      BY <1>1, <3>1, RunFields DEF IInv, RunsAreOfCandidates, Idle
  <2> HIDE DEF c
  <2>2. \/ /\ Issue(<<"verification-passed", c>>, wf.state = "Verification", W!VerificationPassed)
           /\ AllPassed(runs[handler.run].outcome)
        \/ Issue(<<"verification-blocked", c>>, W!CanBlockInfrastructure, W!BlockInfrastructure)
        \/ RouteToRepair(c, "Execution")
    BY <1>6 DEF ConcludeVerification, c
  <2>3. CASE /\ Issue(<<"verification-passed", c>>, wf.state = "Verification", W!VerificationPassed)
             /\ AllPassed(runs[handler.run].outcome)
    <3>1. PassesVerification(c)
      BY <1>1, <1>6, <2>1, <2>3, CommandEffects
      DEF c, Issue, Fresh, aggregate, PassesVerification, Moves, SameMode, SameCandidate,
          SameCycles, Kept
    <3>2. QED
      BY <1>6, <2>1, <3>1 DEF ConcludeVerification, Move
  <2>4. CASE Issue(<<"verification-blocked", c>>, W!CanBlockInfrastructure, W!BlockInfrastructure)
    <3>1. Stays
      BY <1>1, <2>1, <2>4, CommandEffects, KeysDiffer
      DEF Issue, Fresh, aggregate, Stays, SameMode, SameCandidate, SameCycles, Kept
    <3>2. QED
      BY <1>6, <3>1 DEF ConcludeVerification, Move
  <2>5. CASE RouteToRepair(c, "Execution")
    <3>1. "Execution" \in Targets
      BY DEF Targets, W!RepairTargets
    <3>2. Rejects(c, "Execution")
      BY <2>1, <2>5, <3>1, RoutingMoves
    <3>3. QED
      BY <1>6, <2>1, <3>1, <3>2 DEF ConcludeVerification, Move
  <2>6. QED
    BY <2>2, <2>3, <2>4, <2>5
<1>7. CASE ConcludeReview
  <2>1. handler.candidate \in Candidates
    BY <1>1, <1>7, HandlerFields DEF ConcludeReview
  <2>2. OpensArbitration(handler.candidate)
    BY <1>1, <1>7, <2>1, CommandEffects
    DEF ConcludeReview, Issue, Fresh, aggregate, OpensArbitration, Moves, SameMode,
        SameCandidate, SameCycles, Kept
  <2>3. QED
    BY <1>7, <2>1, <2>2 DEF ConcludeReview, Move
<1>8. CASE ConcludeArbitration
  <2> DEFINE c == handler.candidate
  <2>1. /\ c \in Candidates /\ InForce(c) /\ HasEvidence(c)
        /\ verdicts[c] # "Approved" => verdicts[c] \in Targets
        /\ handler.at = "verdict" /\ W!Place = "Arbitration"
    BY <1>1, <1>8, HandlerFields
    DEF ConcludeArbitration, IInv, HandlerKnows, TypeOK, Verdicts
  <2> HIDE DEF c
  <2>2. "Execution" \in Targets /\ RejectedTarget(c) \in Targets
    BY DEF Targets, W!RepairTargets, RejectedTarget
  <2>3. \/ \E target \in Targets : RouteToRepair(c, target)
        \/ /\ verdicts[c] = "Approved" /\ frozen[c] \notin Forbidden
           /\ ReviewsApprove(c) /\ GatesPass(c)
           /\ Issue(<<"approved", c>>, TRUE, W!Approve(TRUE))
    BY <1>8, <2>1, <2>2 DEF ConcludeArbitration, c
  <2>4. CASE \E target \in Targets : RouteToRepair(c, target)
    BY <1>8, <2>1, <2>4, RoutingMoves DEF ConcludeArbitration, Move
  <2>5. CASE /\ verdicts[c] = "Approved" /\ frozen[c] \notin Forbidden
             /\ ReviewsApprove(c) /\ GatesPass(c)
             /\ Issue(<<"approved", c>>, TRUE, W!Approve(TRUE))
    <3>1. Approves(c)
      BY <1>1, <2>1, <2>5, CommandEffects
      DEF Issue, Fresh, aggregate, Approves, Moves, SameMode, SameCandidate, SameCycles,
          Kept
    <3>2. QED
      BY <1>8, <2>1, <3>1 DEF ConcludeArbitration, Move
  <2>6. QED
    BY <2>3, <2>4, <2>5
<1>9. ASSUME NEW c \in Candidates, FreezeStored(c)
      PROVE  Move /\ UNCHANGED <<frozen, judgement>>
  BY <1>9, SubmittingMoves DEF FreezeStored, Move
<1>10. CASE Delivered
  <2>1. W!Deliver /\ dedup' = dedup \cup {<<"delivery", promoting>>}
    BY <1>10 DEF Delivered, aggregate
  <2>2. Delivers
    BY <1>1, <1>10, <2>1, CommandEffects, KeysDiffer
    DEF Delivered, Delivers, SameCandidate, SameMode, SameCycles, Kept
  <2>3. QED
    BY <1>10, <2>2 DEF Delivered, Move
<1>11. CASE Pause \/ Resume \/ Cancel \/ Retry \/ ReportBlocked \/ ReportPlanDefect
  BY <1>11, CommandMoves
  DEF Pause, Resume, Cancel, Retry, ReportBlocked, ReportPlanDefect, Command
<1>12. QED
  <2>1. ASSUME NEW r \in Runs, RunGates(r) \/ BeginRecording(r) PROVE UNCHANGED aggregate
    BY <2>1 DEF RunGates, BeginRecording
  <2>2. ASSUME NEW c \in Candidates, SaveCandidate(c) \/ BeginFreeze(c) \/ BeginPromotion(c)
        PROVE  UNCHANGED aggregate
    BY <2>2 DEF SaveCandidate, BeginFreeze, BeginPromotion
  <2>3. ASSUME NEW c \in Candidates, NEW r \in Runs, BeginVerification(r, c)
        PROVE  UNCHANGED aggregate
    BY <2>3 DEF BeginVerification
  <2>4. ASSUME NEW c \in Candidates, NEW verdict \in Verdicts, SubmitArbitration(c, verdict)
        PROVE  UNCHANGED aggregate
    BY <2>4 DEF SubmitArbitration
  <2>5. ASSUME NEW c \in Candidates, NEW role \in Reviewers, NEW verdict \in Verdicts,
               SubmitReview(c, role, verdict)
        PROVE  UNCHANGED aggregate
    BY <2>5 DEF SubmitReview
  <2>6. ASSUME NEW required \in BOOLEAN, PromotionFailed(required) PROVE UNCHANGED aggregate
    BY <2>6 DEF PromotionFailed
  <2>7. ASSUME NEW a \in Plans, SubmitArchitecture(a) PROVE UNCHANGED aggregate
    BY <2>7 DEF SubmitArchitecture
  <2>8. ASSUME NEW content \in Contents, Commit(content) PROVE UNCHANGED aggregate
    BY <2>8 DEF Commit
  <2>9. CASE \/ RecordEvidence \/ SubmitRequest \/ PlanVerification
             \/ Crash \/ StoreFails \/ UNCHANGED vars
    BY <2>9 DEF RecordEvidence, SubmitRequest, PlanVerification, Crash, StoreFails, vars
  <2>10. QED
    BY <1>2, <1>3, <1>4, <1>5, <1>6, <1>7, <1>8, <1>9, <1>10, <1>11, <2>1, <2>2, <2>3, <2>4,
       <2>5, <2>6, <2>7, <2>8, <2>9
    DEF Next, Continue, Orchestrate, Operate

(* A key names one candidate and one command. *)
LEMMA KeysAreDistinct ==
  ASSUME NEW c \in Candidates, NEW d \in Candidates, NEW key \in OwnKey(c)
  PROVE  /\ key = <<"candidate", d>> <=> c = d /\ key = <<"candidate", c>>
         /\ key = <<"approved", d>> <=> c = d /\ key = <<"approved", c>>
         /\ key = <<"verification-passed", d>> <=> c = d /\ key = <<"verification-passed", c>>
         /\ key = <<"reviews-ready", d>> <=> c = d /\ key = <<"reviews-ready", c>>
         /\ c # d => key \notin OwnKey(d)
  BY DEF OwnKey, Keys

(* The keys of one candidate differ from each other. *)
LEMMA KindsAreDistinct ==
  ASSUME NEW c \in Candidates
  PROVE  LET Single == {<<"verification-passed", c>>, <<"reviews-ready", c>>,
                        <<"candidate", c>>, <<"approved", c>>}
         IN
         /\ <<"candidate", c>> \notin Keys(c) \cup {<<"approved", c>>}
         /\ <<"approved", c>> \notin Keys(c)
         /\ \A target \in Targets : \A n :
              /\ <<"reject", c, target>> \notin Single
              /\ <<"begin-repair", c, n>> \notin Single
              /\ <<"begin-repair", c, n>> # <<"reject", c, target>>
         /\ <<"verification-passed", c>> # <<"reviews-ready", c>>
<1>1. ASSUME NEW key \in Keys(c)
      PROVE key[1] \in {"verification-passed", "reviews-ready", "reject", "begin-repair"}
  BY <1>1 DEF Keys
<1>2. <<"candidate", c>>[1] = "candidate" /\ <<"approved", c>>[1] = "approved"
  OBVIOUS
<1>3. QED
  BY <1>1, <1>2

(* Which actions write which row. *)
LEMMA RowFrames ==
  ASSUME [Next]_vars
  PROVE  /\ (\E c \in Candidates : SaveCandidate(c)) \/ UNCHANGED frozen
         /\ RecordEvidence \/ UNCHANGED evidence
         /\ \/ \E c \in Candidates, role \in Reviewers, verdict \in Verdicts :
                 SubmitReview(c, role, verdict)
            \/ UNCHANGED reviews
         /\ \/ \E c \in Candidates, verdict \in Verdicts : SubmitArbitration(c, verdict)
            \/ UNCHANGED verdicts
         /\ \/ \E c \in Candidates : BeginPromotion(c)
            \/ \E required \in BOOLEAN : PromotionFailed(required)
            \/ Delivered \/ Crash
            \/ UNCHANGED <<reserved, promoting>>
  BY
  DEF Next, Continue, Orchestrate, Operate, StartWorkflow, AcceptArchitecture,
      SubmitCandidate,
      BeginRepair, RecordEvidence, ConcludeVerification, ConcludeReview,
      ConcludeArbitration,
      SaveCandidate, RunGates, BeginRecording, SubmitRequest, PlanVerification,
      SubmitArchitecture, Commit, FreezeStored, BeginFreeze, BeginPromotion,
      BeginVerification,
      SubmitArbitration, SubmitReview, Delivered, PromotionFailed, ReportBlocked,
      ReportPlanDefect, Pause, Resume, Cancel, Retry, Command, Crash, StoreFails,
      vars, aggregate, preparation, judgement, work

(* The frozen bytes of a candidate are never dropped. *)
LEMMA FrozenStays ==
  ASSUME IInv, [Next]_vars, NEW c \in Candidates, frozen[c] # None
  PROVE  frozen'[c] # None
<1>1. CASE \E d \in Candidates : SaveCandidate(d)
  BY <1>1 DEF SaveCandidate, IInv, TypeOK
<1>2. QED
  BY <1>1, RowFrames

(* The keys stay in order. *)
LEMMA KeysStep == IInv /\ [Next]_vars => KeysAreInOrder'
<1> SUFFICES ASSUME IInv, [Next]_vars, NEW c \in Candidates PROVE KeysInOrder(c)'
  BY DEF KeysAreInOrder
<1>1. /\ KeysInOrder(c) /\ AggregateFacts /\ TypeOK
      /\ frozen[c] # None => frozen'[c] # None
  BY FactsLink, FrozenStays DEF IInv, KeysAreInOrder
<1>2. wf.repair_cycles \in 0 .. MaxU8 /\ NoCandidate # c
  BY <1>1, CandidatesAssumption DEF AggregateFacts, W!TypeOK
<1>3. CASE UNCHANGED aggregate
  BY <1>1, <1>3 DEF KeysInOrder, InForce, Rejected, W!Place, aggregate
<1>4. ASSUME PlansOn \/ Stays \/ Delivers PROVE KeysInOrder(c)'
  <2>1. /\ dedup \subseteq dedup' /\ OwnKey(c) \cap dedup' \subseteq dedup /\ SameCandidate
        /\ \/ W!Place \in W!Planning \cup W!Building /\ W!Place' \in W!Planning \cup W!Building
           \/ W!Place' = W!Place
           \/ W!Place = "Blocked" /\ W!Place' = "Repair"
           \/ W!Place' = "Cancelled"
           \/ W!Place = "Delivery" /\ W!Place' = "Completed"
    BY <1>4 DEF PlansOn, Stays, Delivers
  <2>2. /\ Keys(c) \cap dedup' = Keys(c) \cap dedup
        /\ <<"candidate", c>> \in dedup' <=> <<"candidate", c>> \in dedup
        /\ <<"approved", c>> \in dedup' <=> <<"approved", c>> \in dedup
        /\ InForce(c)' <=> InForce(c)
    BY <2>1 DEF OwnKey, InForce, SameCandidate
  <2>3. /\ <<"verification-passed", c>> \in dedup' <=> <<"verification-passed", c>> \in dedup
        /\ <<"reviews-ready", c>> \in dedup' <=> <<"reviews-ready", c>> \in dedup
        /\ \A target \in Targets :
             <<"reject", c, target>> \in dedup' <=> <<"reject", c, target>> \in dedup
        /\ \A n \in 0 .. MaxU8 :
             <<"begin-repair", c, n>> \in dedup' <=> <<"begin-repair", c, n>> \in dedup
    BY <2>1 DEF OwnKey, Keys
  <2>4. InForce(c) => W!Place \notin W!Planning \cup W!Building
    BY <1>1, <1>2 DEF AggregateFacts, W!CandidateMatchesPlace, W!HasCandidate, InForce,
                      W!Planning, W!Building, W!Judged
  <2>5. QED
    BY <1>1, <2>1, <2>2, <2>3, <2>4 DEF KeysInOrder, Rejected, W!Planning, W!Building
<1>5. ASSUME NEW d \in Candidates, NEW key \in OwnKey(d), dedup' = dedup \cup {key}, c # d
      PROVE  OwnKey(c) \cap dedup' = OwnKey(c) \cap dedup
  BY <1>5, KeysAreDistinct
<1>6. ASSUME NEW d \in Candidates, Submits(d) PROVE KeysInOrder(c)'
  <2>1. /\ <<"candidate", d>> \notin dedup /\ dedup' = dedup \cup {<<"candidate", d>>}
        /\ W!Place' = "Verification" /\ wf.current_candidate = NoCandidate
        /\ wf'.current_candidate = d /\ frozen[d] # None
        /\ <<"approved", c>> \notin dedup
    BY <1>1, <1>6 DEF Submits, Moves, KeysInOrder, W!Building
  <2>2. CASE c = d
    <3>1. Keys(c) \cap dedup' = {} /\ <<"approved", c>> \notin dedup'
      BY <1>1, <2>1, <2>2, KindsAreDistinct DEF KeysInOrder
    <3>2. QED
      BY <1>1, <2>1, <2>2, <3>1 DEF KeysInOrder, Keys, Rejected, InForce
  <2>3. CASE c # d
    <3>1. OwnKey(c) \cap dedup' = OwnKey(c) \cap dedup
      BY <1>5, <2>1, <2>3 DEF OwnKey
    <3>2. QED
      BY <1>1, <2>1, <2>3, <3>1 DEF KeysInOrder, OwnKey, InForce
  <2>4. QED
    BY <2>2, <2>3
<1>7. ASSUME NEW d \in Candidates, PassesVerification(d) \/ OpensArbitration(d)
      PROVE KeysInOrder(c)'
  <2>1. PICK key \in {<<"verification-passed", d>>, <<"reviews-ready", d>>} :
          /\ key \notin dedup /\ dedup' = dedup \cup {key}
          /\ SameCandidate
          /\ \/ /\ key = <<"verification-passed", d>> /\ <<"candidate", d>> \in dedup
                /\ W!Place = "Verification" /\ W!Place' \in {"IndependentReviews", "Arbitration"}
             \/ /\ key = <<"reviews-ready", d>> /\ Reviewed(d)
                /\ W!Place = "IndependentReviews" /\ W!Place' = "Arbitration"
    BY <1>7 DEF PassesVerification, OpensArbitration, Moves
  <2>2. <<"candidate", d>> \in dedup
    <3>1. CASE key = <<"reviews-ready", d>> /\ Reviewed(d)
      <4>1. reviews[d]["functional"] # None
        BY <3>1 DEF Reviewed, Reviewers
      <4>2. InForce(d)
        BY <2>1, <3>1, <4>1 DEF IInv, ReviewsAreOfJudged, Reviewers
      <4>3. QED
        BY <4>2 DEF IInv, KeysAreInOrder, KeysInOrder
    <3>2. QED
      BY <2>1, <3>1
  <2>3. CASE c = d
    <3>1. /\ <<"candidate", c>> \in dedup'
          /\ <<"approved", c>> \in dedup' <=> <<"approved", c>> \in dedup
          /\ \A target \in Targets :
               <<"reject", c, target>> \in dedup' <=> <<"reject", c, target>> \in dedup
          /\ \A n \in 0 .. MaxU8 :
               <<"begin-repair", c, n>> \in dedup' <=> <<"begin-repair", c, n>> \in dedup
          /\ <<"reviews-ready", c>> \in dedup' =>
               <<"reviews-ready", c>> \in dedup \/ key = <<"reviews-ready", c>>
      BY <2>1, <2>2, <2>3, KindsAreDistinct
    <3>2. InForce(c)' <=> InForce(c)
      BY <2>1 DEF InForce, SameCandidate
    <3>3. ~Rejected(c) \/ ~InForce(c)
      BY <1>1, <2>1 DEF KeysInOrder
    <3>4. <<"approved", c>> \notin dedup'
      BY <1>1, <2>1, <3>1 DEF KeysInOrder
    <3>5. InForce(c) => ~Rejected(c)'
      BY <3>1, <3>3 DEF Rejected
    <3>6. InForce(c) => /\ <<"verification-passed", c>> \in dedup' => W!Place' # "Verification"
                        /\ <<"reviews-ready", c>> \in dedup' =>
                             W!Place' \notin {"Verification", "IndependentReviews"}
      BY <1>1, <2>1, <3>1, KindsAreDistinct DEF KeysInOrder
    <3>7. QED
      BY <1>1, <3>1, <3>2, <3>4, <3>5, <3>6 DEF KeysInOrder
  <2>4. CASE c # d
    <3>1. OwnKey(c) \cap dedup' = OwnKey(c) \cap dedup
      BY <1>5, <2>1, <2>4 DEF OwnKey, Keys
    <3>2. InForce(c)' <=> InForce(c)
      BY <2>1 DEF InForce, SameCandidate
    <3>3. QED
      BY <1>1, <2>1, <3>1, <3>2 DEF KeysInOrder, OwnKey, Keys, Rejected
  <2>5. QED
    BY <2>3, <2>4
<1>8. ASSUME NEW d \in Candidates, Approves(d) PROVE KeysInOrder(c)'
  <2>1. /\ dedup' = dedup \cup {<<"approved", d>>} /\ InForce(d) /\ SameCandidate
        /\ W!Place = "Arbitration" /\ W!Place' = "Delivery"
    BY <1>8 DEF Approves, Moves
  <2>2. InForce(c)' <=> InForce(c)
    BY <2>1 DEF InForce, SameCandidate
  <2>3. /\ Keys(c) \cap dedup' = Keys(c) \cap dedup
        /\ <<"candidate", c>> \in dedup' <=> <<"candidate", c>> \in dedup
    <3>1. CASE c = d
      BY <2>1, <3>1, KindsAreDistinct
    <3>2. CASE c # d
      BY <1>5, <2>1, <3>2 DEF OwnKey
    <3>3. QED
      BY <3>1, <3>2
  <2>4. QED
    BY <1>1, <2>1, <2>2, <2>3 DEF KeysInOrder, Keys, Rejected
<1>9. ASSUME NEW d \in Candidates, NEW target \in Targets, Rejects(d, target)
      PROVE  KeysInOrder(c)'
  <2>1. /\ dedup' = dedup \cup {<<"reject", d, target>>} /\ InForce(d) /\ SameCandidate
        /\ W!Place \in {"Verification", "Arbitration"} /\ W!Place' \in {"Repair", "Blocked"}
    BY <1>9 DEF Rejects, Moves
  <2>2. InForce(c)' <=> InForce(c)
    BY <2>1 DEF InForce, SameCandidate
  <2>3. CASE c = d
    <3>1. /\ <<"candidate", c>> \in dedup'
          /\ <<"approved", c>> \in dedup' <=> <<"approved", c>> \in dedup
          /\ \A n \in 0 .. MaxU8 :
               <<"begin-repair", c, n>> \in dedup' <=> <<"begin-repair", c, n>> \in dedup
      BY <1>1, <2>1, <2>3, KindsAreDistinct DEF KeysInOrder
    <3>2. QED
      BY <1>1, <2>1, <2>2, <3>1 DEF KeysInOrder
  <2>4. CASE c # d
    <3>1. OwnKey(c) \cap dedup' = OwnKey(c) \cap dedup
      BY <1>5, <2>1, <2>4 DEF OwnKey, Keys
    <3>2. ~InForce(c)
      BY <2>1, <2>4 DEF InForce
    <3>3. QED
      BY <1>1, <2>1, <2>2, <3>1, <3>2 DEF KeysInOrder, OwnKey
  <2>5. QED
    BY <2>3, <2>4
<1>10. ASSUME NEW d \in Candidates, Repairs(d) PROVE KeysInOrder(c)'
  <2>1. /\ dedup' = dedup \cup {<<"begin-repair", d, wf.repair_cycles>>} /\ InForce(d)
        /\ wf'.current_candidate = NoCandidate /\ W!Place = "Repair"
    BY <1>10 DEF Repairs, Moves
  <2>2. ~InForce(c)'
    BY <1>2, <2>1 DEF InForce
  <2>3. CASE c = d
    <3>1. <<"candidate", c>> \in dedup' /\ <<"approved", c>> \notin dedup'
      BY <1>1, <2>1, <2>3, KindsAreDistinct DEF KeysInOrder
    <3>2. QED
      BY <2>2, <3>1 DEF KeysInOrder
  <2>4. CASE c # d
    <3>1. OwnKey(c) \cap dedup' = OwnKey(c) \cap dedup
      BY <1>2, <1>5, <2>1, <2>4 DEF OwnKey, Keys
    <3>2. QED
      BY <1>1, <2>1, <2>2, <3>1 DEF KeysInOrder, OwnKey
  <2>5. QED
    BY <2>3, <2>4
<1>11. QED
  BY <1>3, <1>4, <1>6, <1>7, <1>8, <1>9, <1>10, StepMoves DEF Move

(* Reviews stay those of judged candidates. *)
LEMMA ReviewsStep == IInv /\ [Next]_vars => ReviewsAreOfJudged'
<1> SUFFICES ASSUME IInv, [Next]_vars, NEW c \in Candidates, NEW role \in Reviewers,
                    reviews'[c][role] # None
             PROVE  \/ <<"reviews-ready", c>> \in dedup'
                    \/ InForce(c)' /\ W!Place' \in {"IndependentReviews", "Cancelled"}
  BY DEF ReviewsAreOfJudged
<1>1. AggregateFacts /\ TypeOK /\ NoCandidate # c
  BY CandidatesAssumption, FactsLink DEF IInv
<1>2. CASE UNCHANGED aggregate
  <2>1. \/ reviews[c][role] # None
        \/ wf.state = "IndependentReviews" /\ InForce(c)
    <3>1. ASSUME NEW d \in Candidates, NEW other \in Reviewers, NEW verdict \in Verdicts,
                 SubmitReview(d, other, verdict)
          PROVE  reviews[c][role] # None \/ (wf.state = "IndependentReviews" /\ InForce(c))
      BY <1>1, <3>1 DEF SubmitReview, MayReview, FirstReview, TypeOK
    <3>2. QED
      BY <3>1, RowFrames
  <2>2. wf.state = "IndependentReviews" => W!Place = "IndependentReviews"
    BY DEF W!Place
  <2>3. W!Place' = W!Place /\ InForce(c)' = InForce(c)
    BY <1>2 DEF W!Place, InForce, aggregate
  <2>4. QED
    BY <1>2, <2>1, <2>2, <2>3 DEF IInv, ReviewsAreOfJudged, aggregate
<1>3. CASE Move /\ UNCHANGED <<frozen, judgement>>
  <2>1. \/ <<"reviews-ready", c>> \in dedup
        \/ InForce(c) /\ W!Place \in {"IndependentReviews", "Cancelled"}
    BY <1>3 DEF IInv, ReviewsAreOfJudged, judgement
  <2>2. dedup \subseteq dedup'
    BY <1>3
    DEF Move, PlansOn, Stays, Delivers, Submits, PassesVerification, OpensArbitration,
                Approves, Rejects, Repairs, Moves
  <2>3. CASE <<"reviews-ready", c>> \in dedup
    BY <2>2, <2>3
  <2>4. CASE <<"reviews-ready", c>> \notin dedup
    <3>1. InForce(c) /\ W!Place \in {"IndependentReviews", "Cancelled"}
      BY <2>1, <2>4
    <3>2. ASSUME NEW d \in Candidates, OpensArbitration(d)
          PROVE  <<"reviews-ready", c>> \in dedup'
      <4>1. reviews[d]["functional"] # None /\ <<"reviews-ready", d>> \notin dedup
        BY <3>2 DEF OpensArbitration, Reviewed, Reviewers, Moves
      <4>2. InForce(d)
        BY <4>1 DEF IInv, ReviewsAreOfJudged, Reviewers
      <4>3. QED
        BY <3>1, <3>2, <4>2 DEF InForce, OpensArbitration, Moves
    <3>3. CASE Stays
      BY <3>1, <3>3 DEF Stays, SameCandidate, InForce
    <3>4. ASSUME NEW d \in Candidates
          PROVE  /\ ~Submits(d) /\ ~PassesVerification(d) /\ ~Approves(d) /\ ~Repairs(d)
                 /\ \A target \in Targets : ~Rejects(d, target)
      BY <3>1 DEF Submits, PassesVerification, Approves, Repairs, Rejects, Moves, W!Building
    <3>5. ~PlansOn /\ ~Delivers
      BY <3>1 DEF PlansOn, Delivers, W!Planning, W!Building
    <3>6. QED
      BY <1>3, <3>2, <3>3, <3>4, <3>5 DEF Move
  <2>5. QED
    BY <2>3, <2>4
<1>4. QED
  BY <1>2, <1>3, StepMoves

(* A reservation goes on holding the workflow: of the moves only Delivers  *)
(* is possible under it, and that one drops it.                            *)
LEMMA ReservationStep == IInv /\ [Next]_vars => ReservationHoldsWorkflow'
<1> SUFFICES ASSUME IInv, [Next]_vars PROVE ReservationHoldsWorkflow'
  OBVIOUS
<1> USE DEF IInv, TypeOK, ReservationHoldsWorkflow
<1>1. CASE UNCHANGED <<reserved, promoting, aggregate, verdicts>>
  BY <1>1 DEF aggregate, Deliverable, InForce
<1>2. ASSUME NEW c \in Candidates, BeginPromotion(c) PROVE ReservationHoldsWorkflow'
  BY <1>2 DEF BeginPromotion, Deliverable, InForce, aggregate, judgement
<1>3. ASSUME NEW required \in BOOLEAN, PromotionFailed(required)
      PROVE  ReservationHoldsWorkflow'
  BY <1>3 DEF PromotionFailed, Deliverable, InForce, aggregate, judgement
<1>4. CASE Delivered
  BY <1>4 DEF Delivered
<1>5. CASE Crash
  BY <1>5 DEF Crash, Deliverable, InForce, aggregate, judgement
<1>6. ASSUME NEW c \in Candidates, NEW verdict \in Verdicts, SubmitArbitration(c, verdict)
      PROVE  ReservationHoldsWorkflow'
  <2>1. reserved = NoCandidate
    BY <1>6 DEF SubmitArbitration, Deliverable
  <2>2. QED
    BY <1>6, <2>1 DEF SubmitArbitration, work
<1>7. CASE Move /\ UNCHANGED <<reserved, promoting>>
  <2>1. CASE Delivers
    BY <2>1 DEF Delivers
  <2>2. CASE reserved = NoCandidate
    BY <1>7, <2>2
  <2>3. QED
    BY <1>7, <2>1, <2>2
    DEF Move, PlansOn, Stays, Submits, PassesVerification, OpensArbitration, Approves,
        Rejects,
        Repairs, Moves
<1>8. QED
  BY <1>1, <1>2, <1>3, <1>4, <1>5, <1>6, <1>7, StepMoves, RowFrames

(* Approval stays earned: the rows it rests on are written at              *)
(* Verification, IndependentReviews and Arbitration only, and arbitration  *)
(* No key is forgotten. *)
LEMMA DedupGrows == IInv /\ [Next]_vars => dedup \subseteq dedup'
  BY StepMoves
  DEF Move, PlansOn, Stays, Delivers, Submits, PassesVerification, OpensArbitration,
      Approves, Rejects, Repairs, Moves, aggregate

(* A candidate that was submitted is in force or rejected. *)
LEMMA PastStep == IInv /\ [Next]_vars => PastIsRejected'
<1> SUFFICES ASSUME IInv, [Next]_vars, NEW c \in Candidates
             PROVE  /\ <<"candidate", c>> \in dedup' => InForce(c)' \/ Rejected(c)'
                    /\ InForce(c)' /\ W!Place' \in {"Repair", "Blocked"} => Rejected(c)'
  BY DEF PastIsRejected
<1>1. /\ <<"candidate", c>> \in dedup => InForce(c) \/ Rejected(c)
      /\ InForce(c) /\ W!Place \in {"Repair", "Blocked"} => Rejected(c)
      /\ AggregateFacts /\ NoCandidate # c
  BY FactsLink, CandidatesAssumption DEF IInv, PastIsRejected
<1>2. CASE UNCHANGED aggregate
  BY <1>1, <1>2 DEF InForce, Rejected, W!Place, aggregate
<1>3. dedup \subseteq dedup' /\ (Rejected(c) => Rejected(c)')
  BY DedupGrows DEF Rejected
<1>4. ASSUME PlansOn \/ Stays \/ Delivers
      PROVE  /\ <<"candidate", c>> \in dedup' => InForce(c)' \/ Rejected(c)'
             /\ InForce(c)' /\ W!Place' \in {"Repair", "Blocked"} => Rejected(c)'
  <2>1. /\ OwnKey(c) \cap dedup' \subseteq dedup /\ SameCandidate
        /\ W!Place' \in {"Repair", "Blocked"} => W!Place \in {"Repair", "Blocked"}
    BY <1>4 DEF PlansOn, Stays, Delivers, W!Planning, W!Building
  <2>2. <<"candidate", c>> \in dedup' => <<"candidate", c>> \in dedup
    BY <2>1 DEF OwnKey
  <2>3. InForce(c)' <=> InForce(c)
    BY <2>1 DEF InForce, SameCandidate
  <2>4. QED
    BY <1>1, <1>3, <2>1, <2>2, <2>3
<1>5. ASSUME NEW d \in Candidates, Submits(d)
      PROVE  /\ <<"candidate", c>> \in dedup' => InForce(c)' \/ Rejected(c)'
             /\ W!Place' \notin {"Repair", "Blocked"}
  <2>1. /\ dedup' = dedup \cup {<<"candidate", d>>} /\ wf'.current_candidate = d
        /\ wf.current_candidate = NoCandidate /\ W!Place' = "Verification"
    BY <1>5 DEF Submits, Moves
  <2>2. ~InForce(c)
    BY <1>1, <2>1 DEF InForce
  <2>3. QED
    BY <1>1, <1>3, <2>1, <2>2 DEF InForce
<1>6. ASSUME NEW d \in Candidates, PassesVerification(d) \/ OpensArbitration(d) \/ Approves(d)
      PROVE  /\ <<"candidate", c>> \in dedup' => InForce(c)' \/ Rejected(c)'
             /\ W!Place' \notin {"Repair", "Blocked"}
  <2>1. /\ \E kind \in {"verification-passed", "reviews-ready", "approved"} :
             dedup' = dedup \cup {<<kind, d>>}
        /\ SameCandidate /\ W!Place' \notin {"Repair", "Blocked"}
    BY <1>6 DEF PassesVerification, OpensArbitration, Approves, Moves
  <2>2. <<"candidate", c>> \in dedup' => <<"candidate", c>> \in dedup
    BY <2>1
  <2>3. QED
    BY <1>1, <1>3, <2>1, <2>2 DEF InForce, SameCandidate
<1>7. ASSUME NEW d \in Candidates, NEW target \in Targets, Rejects(d, target)
      PROVE  /\ <<"candidate", c>> \in dedup' => InForce(c)' \/ Rejected(c)'
             /\ InForce(c)' => Rejected(c)'
  <2>1. /\ dedup' = dedup \cup {<<"reject", d, target>>} /\ InForce(d) /\ SameCandidate
    BY <1>7 DEF Rejects, Moves
  <2>2. <<"candidate", c>> \in dedup' => <<"candidate", c>> \in dedup
    BY <2>1, KindsAreDistinct
  <2>3. Rejected(d)'
    BY <2>1 DEF Rejected
  <2>4. QED
    BY <1>1, <1>3, <2>1, <2>2, <2>3 DEF InForce, SameCandidate
<1>8. ASSUME NEW d \in Candidates, Repairs(d)
      PROVE  /\ <<"candidate", c>> \in dedup' => InForce(c)' \/ Rejected(c)'
             /\ ~InForce(c)'
  <2>1. /\ dedup' = dedup \cup {<<"begin-repair", d, wf.repair_cycles>>} /\ InForce(d)
        /\ wf'.current_candidate = NoCandidate /\ W!Place = "Repair"
    BY <1>8 DEF Repairs, Moves
  <2>2. <<"candidate", c>> \in dedup' => <<"candidate", c>> \in dedup
    BY <2>1, KindsAreDistinct
  <2>3. QED
    BY <1>1, <1>3, <2>1, <2>2 DEF InForce
<1>9. QED
  BY <1>2, <1>4, <1>5, <1>6, <1>7, <1>8, StepMoves DEF Move

(* Rows stay in order: none but the reports of runs is ever taken back. *)
LEMMA RowsStep == IInv /\ [Next]_vars => RowsInOrder'
<1> SUFFICES ASSUME IInv, [Next]_vars PROVE RowsInOrder'
  OBVIOUS
<1>1. TypeOK /\ RowsInOrder
  BY DEF IInv
<1>2. \/ UNCHANGED preparation
      \/ requested' = TRUE /\ UNCHANGED <<plan, discovered>>
      \/ plan # None /\ discovered' = TRUE /\ UNCHANGED <<requested, plan>>
      \/ requested /\ plan' \in Plans /\ UNCHANGED <<requested, discovered>>
  BY
  DEF Next, Continue, Orchestrate, Operate, StartWorkflow, AcceptArchitecture,
      SubmitCandidate, BeginRepair, RecordEvidence, ConcludeVerification, ConcludeReview,
      ConcludeArbitration, SaveCandidate, RunGates, BeginRecording, SubmitRequest,
      PlanVerification, SubmitArchitecture, Commit, FreezeStored, BeginFreeze,
      BeginPromotion, BeginVerification, SubmitArbitration, SubmitReview, Delivered,
      PromotionFailed, ReportBlocked, ReportPlanDefect, Pause, Resume, Cancel, Retry,
      Command, Crash, StoreFails, vars, preparation
<1>3. /\ plan' # None => requested'
      /\ discovered' => plan' # None
      /\ discovered => discovered'
  BY <1>1, <1>2, PlansAssumption DEF RowsInOrder, preparation
<1>4. ASSUME NEW c \in Candidates, frozen'[c] # None \/ freezing'[c] # None
      PROVE  discovered'
  <2>1. ASSUME NEW d \in Candidates, BeginFreeze(d) PROVE discovered'
    BY <2>1 DEF BeginFreeze, preparation
  <2>2. \/ \E d \in Candidates : BeginFreeze(d) \/ SaveCandidate(d)
        \/ Crash \/ UNCHANGED freezing
    BY
    DEF Next, Continue, Orchestrate, Operate, StartWorkflow, AcceptArchitecture,
        SubmitCandidate, BeginRepair, RecordEvidence, ConcludeVerification, ConcludeReview,
        ConcludeArbitration, RunGates, BeginRecording, SubmitRequest,
        PlanVerification, SubmitArchitecture, Commit, FreezeStored,
        BeginPromotion, BeginVerification, SubmitArbitration, SubmitReview, Delivered,
        PromotionFailed, ReportBlocked, ReportPlanDefect, Pause, Resume, Cancel, Retry,
        Command, StoreFails, vars, work
  <2>3. ASSUME NEW d \in Candidates, SaveCandidate(d)
        PROVE  frozen[c] # None \/ freezing[c] # None
    BY <1>1, <1>4, <2>3 DEF SaveCandidate, TypeOK
  <2>4. CASE Crash
    <3>1. frozen' = frozen /\ freezing'[c] = None
      BY <2>4 DEF Crash
    <3>2. frozen[c] # None
      BY <1>4, <3>1
    <3>3. QED
      BY <1>1, <1>3, <3>2 DEF RowsInOrder
  <2>5. QED
    BY <1>1, <1>3, <1>4, <2>1, <2>2, <2>3, <2>4, RowFrames DEF RowsInOrder
<1>5. ASSUME NEW c \in Candidates, verdicts'[c] # None PROVE HasEvidence(c)'
  <2>1. HasEvidence(c)
    BY <1>1, <1>5, RowFrames DEF RowsInOrder, SubmitArbitration, TypeOK
  <2>2. CASE RecordEvidence
    <3>1. handler.run \in Runs /\ runs[handler.run].at = "done" /\ handler.next \in 1 .. 4
      BY <2>2, <1>1, HandlerFields DEF RecordEvidence, IInv, HandlerKnows, Gates
    <3>2. /\ runs[handler.run].candidate \in Candidates
          /\ runs[handler.run].outcome \in [GateNames -> Statuses]
      BY <3>1, <1>1, RunFields
    <3>3. Gates[handler.next] \in GateNames
      BY <2>2, <3>1 DEF RecordEvidence, Gates, GateNames
    <3>4. /\ evidence \in [Candidates -> [GateNames -> Statuses \cup {None}]]
          /\ runs[handler.run].outcome[Gates[handler.next]] # None
      BY <1>1, <3>2, <3>3 DEF TypeOK, Statuses, None, W!None
    <3>5. \E g \in GateNames : evidence[c][g] # None
      BY <2>1, <3>4 DEF HasEvidence, NoEvidence
    <3>6. \E g \in GateNames : evidence'[c][g] # None
      BY <2>2, <3>2, <3>3, <3>4, <3>5 DEF RecordEvidence
    <3>7. QED
      BY <3>6 DEF HasEvidence, NoEvidence
  <2>3. QED
    BY <2>1, <2>2, RowFrames DEF HasEvidence
<1>6. QED
  BY <1>3, <1>4, <1>5 DEF RowsInOrder

(* opens with both reviews.                                                *)
LEMMA ApprovalStep == IInv /\ [Next]_vars => ApprovalIsEarned'
<1> SUFFICES ASSUME IInv, [Next]_vars PROVE ApprovalIsEarned'
  OBVIOUS
<1> DEFINE c == wf.current_candidate
<1>1. /\ AggregateFacts /\ TypeOK /\ ApprovalIsEarned /\ ReviewsAreOfJudged
      /\ W!Place \in W!Judged => c \in Candidates
      /\ RowsInOrder' /\ TypeOK'
  BY FactsLink, RowsStep, TypeStep
  DEF IInv, AggregateFacts, W!TypeOK, W!CandidateMatchesPlace, W!HasCandidate, W!Judged
<1>5. W!Place \in W!Judged => frozen[c] # None
  BY <1>1 DEF IInv, KeysAreInOrder, KeysInOrder, InForce
<1>6. "Approved" # None
  BY DEF None, W!None
<1>0. ASSUME NEW d \in Candidates, frozen'[d] # None, verdicts'[d] # None
      PROVE  /\ requested' /\ plan' # None /\ discovered' /\ evidence'[d] # NoEvidence
             /\ frozen'[d] \in Contents
  BY <1>0, <1>1 DEF RowsInOrder, TypeOK, HasEvidence, NoEvidence
<1>2. CASE UNCHANGED aggregate
  <2>1. W!Place' = W!Place /\ c' = c /\ wf'.mode = wf.mode
    BY <1>2 DEF W!Place, aggregate
  <2>2. W!Place \in {"Arbitration", "Delivery", "Completed"} =>
          c \in Candidates /\ frozen'[c] = frozen[c] /\ reviews'[c] = reviews[c]
    <3>1. SUFFICES ASSUME W!Place \in {"Arbitration", "Delivery", "Completed"}
                   PROVE  c \in Candidates /\ frozen'[c] = frozen[c] /\ reviews'[c] = reviews[c]
      OBVIOUS
    <3>2. c \in Candidates
      BY <1>1, <3>1 DEF W!Judged
    <3>3. wf.state \notin W!Building \cup {"Verification", "IndependentReviews"}
      BY <3>1 DEF W!Place, W!Building
    <3>4. frozen'[c] = frozen[c]
      BY <3>2, <3>3, RowFrames DEF SaveCandidate, AcceptsCandidate, Building
    <3>5. ASSUME NEW d \in Candidates, NEW role \in Reviewers, NEW verdict \in Verdicts,
                 SubmitReview(d, role, verdict)
          PROVE  reviews' = reviews
      BY <1>1, <3>3, <3>5 DEF SubmitReview, MayReview, FirstReview, TypeOK
    <3>6. QED
      BY <3>2, <3>4, <3>5, RowFrames
  <2>3. W!Place \in {"Delivery", "Completed"} => verdicts'[c] = verdicts[c]
    <3>1. ASSUME NEW d \in Candidates, NEW verdict \in Verdicts, SubmitArbitration(d, verdict)
          PROVE  W!Place = "Arbitration"
      BY <3>1 DEF SubmitArbitration, W!Place
    <3>2. QED
      BY <3>1, RowFrames
  <2>4. ASSUME W!Place' \in {"Delivery", "Completed"}
        PROVE  /\ requested' /\ plan' # None /\ discovered'
               /\ frozen'[c] \in Contents \ Forbidden /\ evidence'[c] # NoEvidence
    <3>1. /\ c \in Candidates /\ frozen[c] \in Contents \ Forbidden
          /\ verdicts[c] = "Approved"
      BY <1>1, <2>1, <2>4 DEF ApprovalIsEarned, W!Judged
    <3>2. frozen'[c] = frozen[c] /\ verdicts'[c] = "Approved"
      BY <2>1, <2>2, <2>3, <2>4, <3>1
    <3>3. frozen[c] # None
      BY <1>5, <2>1, <2>4 DEF W!Judged
    <3>4. QED
      BY <1>0, <1>6, <3>1, <3>2, <3>3
  <2>5. QED
    BY <1>1, <2>1, <2>2, <2>3, <2>4 DEF ApprovalIsEarned, HasEvidence, NoEvidence
<1>3. CASE Move /\ UNCHANGED <<frozen, judgement>>
  <2>1. /\ frozen' = frozen /\ verdicts' = verdicts /\ reviews' = reviews
        /\ evidence' = evidence
    BY <1>3 DEF judgement
  <2>2. CASE Stays \/ Delivers
    <3>1. c' = c /\ wf'.mode = wf.mode
      BY <2>2 DEF Stays, Delivers, SameCandidate, SameMode
    <3>2. \/ W!Place' = W!Place \/ W!Place' \in {"Repair", "Cancelled"}
          \/ W!Place = "Delivery" /\ W!Place' = "Completed"
      BY <2>2 DEF Stays, Delivers
    <3>3. ASSUME W!Place' \in {"Delivery", "Completed"}
          PROVE  /\ requested' /\ plan' # None /\ discovered' /\ evidence'[c] # NoEvidence
                 /\ frozen[c] \in Contents \ Forbidden /\ verdicts[c] = "Approved"
      <4>1. W!Place \in {"Delivery", "Completed"}
        BY <3>2, <3>3
      <4>2. /\ c \in Candidates /\ frozen[c] \in Contents \ Forbidden
            /\ verdicts[c] = "Approved"
        BY <1>1, <4>1 DEF ApprovalIsEarned, W!Judged
      <4>3. frozen[c] # None
        BY <1>5, <4>1 DEF W!Judged
      <4>4. QED
        BY <1>0, <1>6, <2>1, <4>2, <4>3
    <3>4. QED
      BY <1>1, <2>1, <3>1, <3>2, <3>3 DEF ApprovalIsEarned, HasEvidence, NoEvidence
  <2>3. CASE PlansOn
    BY <2>3 DEF ApprovalIsEarned, PlansOn, W!Planning, W!Building
  <2>4. ASSUME NEW d \in Candidates,
               \/ Submits(d) \/ PassesVerification(d) \/ Repairs(d)
               \/ \E target \in Targets : Rejects(d, target)
        PROVE  ApprovalIsEarned'
    BY <2>4
    DEF ApprovalIsEarned, Submits, PassesVerification, Repairs, Rejects, Moves, SameMode
  <2>5. ASSUME NEW d \in Candidates, Approves(d) PROVE ApprovalIsEarned'
    <3>1. /\ d = c /\ c' = c /\ wf'.mode = wf.mode /\ ReviewsApprove(d)
          /\ W!Place = "Arbitration" /\ W!Place' = "Delivery"
          /\ verdicts[d] = "Approved" /\ frozen[d] \notin Forbidden
      BY <2>5 DEF Approves, Moves, SameMode, SameCandidate, InForce
    <3>2. frozen[d] # None
      BY <1>5, <3>1 DEF W!Judged
    <3>3. /\ requested' /\ plan' # None /\ discovered' /\ evidence'[d] # NoEvidence
          /\ frozen'[d] \in Contents
      BY <1>0, <1>6, <2>1, <3>1, <3>2
    <3>4. QED
      BY <2>1, <3>1, <3>3 DEF ApprovalIsEarned, HasEvidence, NoEvidence, ReviewsApprove
  <2>6. ASSUME NEW d \in Candidates, OpensArbitration(d) PROVE ApprovalIsEarned'
    <3>1. reviews[d]["functional"] # None /\ <<"reviews-ready", d>> \notin dedup
      BY <2>6 DEF OpensArbitration, Reviewed, Reviewers, Moves
    <3>2. d = c
      BY <1>1, <3>1 DEF ReviewsAreOfJudged, Reviewers, InForce
    <3>3. QED
      BY <2>1, <2>6, <3>2
      DEF ApprovalIsEarned, OpensArbitration, Moves, SameMode, SameCandidate, Reviewed
  <2>7. QED
    BY <1>3, <2>2, <2>3, <2>4, <2>5, <2>6 DEF Move
<1>4. QED
  BY <1>2, <1>3, StepMoves

(* Which actions change the verifications in flight. *)
LEMMA RunFrames ==
  ASSUME [Next]_vars
  PROVE  \/ \E r \in Runs, c \in Candidates : BeginVerification(r, c)
         \/ \E r \in Runs : RunGates(r)
         \/ ConcludeVerification \/ Crash \/ StoreFails \/ UNCHANGED runs
  BY
  DEF Next, Continue, Orchestrate, Operate, StartWorkflow, AcceptArchitecture,
      SubmitCandidate,
      BeginRepair, RecordEvidence, ConcludeVerification, ConcludeReview,
      ConcludeArbitration,
      SaveCandidate, RunGates, BeginRecording, SubmitRequest, PlanVerification,
      SubmitArchitecture, Commit, FreezeStored, BeginFreeze, BeginPromotion,
      BeginVerification,
      SubmitArbitration, SubmitReview, Delivered, PromotionFailed, ReportBlocked,
      ReportPlanDefect, Pause, Resume, Cancel, Retry, Command, Crash, StoreFails,
      vars, work

(* A run keeps its candidate; a new one is for the candidate in force. *)
LEMMA RunCandidates ==
  ASSUME IInv, [Next]_vars, NEW r \in Runs, runs'[r] # Idle
  PROVE  \/ runs[r] # Idle /\ runs'[r].candidate = runs[r].candidate
         \/ /\ wf.state = "Verification" /\ InForce(runs'[r].candidate)
            /\ runs'[r].candidate \in Candidates /\ UNCHANGED aggregate
<1> USE DEF IInv, TypeOK
<1>1. ASSUME NEW s \in Runs, NEW c \in Candidates, BeginVerification(s, c)
      PROVE  \/ runs[r] # Idle /\ runs'[r].candidate = runs[r].candidate
             \/ /\ wf.state = "Verification" /\ InForce(runs'[r].candidate)
                /\ runs'[r].candidate \in Candidates /\ UNCHANGED aggregate
  BY <1>1 DEF BeginVerification
<1>2. ASSUME NEW s \in Runs, RunGates(s)
      PROVE  runs[r] # Idle /\ runs'[r].candidate = runs[r].candidate
  <2>1. runs[s] # Idle
    BY <1>2, RunFields DEF RunGates
  <2>2. ASSUME NEW o,
          runs' = [runs EXCEPT ![s] = [at |-> "done", candidate |-> @.candidate, outcome |-> o]]
        PROVE  runs[r] # Idle /\ runs'[r].candidate = runs[r].candidate
    BY <2>1, <2>2
  <2>3. CASE runs' = [runs EXCEPT ![s] = Idle]
    BY <2>3
  <2>4. QED
    BY <1>2, <2>2, <2>3 DEF RunGates
<1>3. CASE ConcludeVerification \/ StoreFails
  <2>1. runs' \in {runs, [runs EXCEPT ![handler.run] = Idle]}
    BY <1>3 DEF ConcludeVerification, StoreFails
  <2>2. QED
    BY <2>1
<1>4. CASE Crash
  BY <1>4 DEF Crash
<1>5. QED
  BY <1>1, <1>2, <1>3, <1>4, RunFrames

(* Verifications stay those of submitted candidates. *)
LEMMA RunsStep == IInv /\ [Next]_vars => RunsAreOfCandidates'
<1> SUFFICES ASSUME IInv, [Next]_vars, NEW r \in Runs, runs'[r] # Idle
             PROVE  <<"candidate", runs'[r].candidate>> \in dedup'
  BY DEF RunsAreOfCandidates
<1>1. CASE runs[r] # Idle /\ runs'[r].candidate = runs[r].candidate
  BY <1>1, DedupGrows DEF IInv, RunsAreOfCandidates
<1>2. CASE runs'[r].candidate \in Candidates /\ InForce(runs'[r].candidate)
  BY <1>2, DedupGrows DEF IInv, KeysAreInOrder, KeysInOrder
<1>3. QED
  BY <1>1, <1>2, RunCandidates

(* Handlers go on knowing what they established. *)
LEMMA HandlerStep == IInv /\ [Next]_vars => HandlerKnows'
<1> SUFFICES ASSUME IInv, [Next]_vars PROVE HandlerKnows'
  OBVIOUS
<1>1. AggregateFacts /\ AggregateFacts' /\ TypeOK /\ TypeOK' /\ HandlerKnows
  BY FactsLink, StepImplements, AggregateStep, TypeStep, PTL DEF IInv
<1>2. CASE handler' = Idle \/ handler'.at \in {"start", "architecture", "reviews"}
  BY <1>2 DEF HandlerKnows, Idle
<1>3. ASSUME NEW c \in Candidates, NEW target, RouteToRepair(c, target),
             target \in Targets
      PROVE  HandlerKnows'
  <2>1. handler' # Idle =>
          /\ handler' = [at |-> "repair", candidate |-> c] /\ wf'.state = "Repair"
          /\ Rejects(c, target)
    <3>1. handler' # Idle =>
            /\ wf'.state = "Repair" /\ ~UNCHANGED aggregate
            /\ handler' = [at |-> "repair", candidate |-> c]
      BY <1>3 DEF RouteToRepair, Proceed, FindingApplies, aggregate, Fresh
    <3>2. QED
      BY <1>3, <3>1, RoutingMoves
  <2>2. handler' # Idle => W!Place' = "Repair" /\ InForce(c)'
    BY <2>1 DEF W!Place, Rejects, InForce, SameCandidate
  <2>3. QED
    BY <1>2, <2>1, <2>2 DEF HandlerKnows
<1>5. ASSUME NEW c \in Candidates, SaveCandidate(c) PROVE HandlerKnows'
  <2>1. CASE UNCHANGED <<handler, frozen>>
    BY <1>2, <1>5, <2>1 DEF SaveCandidate, Free
  <2>2. CASE /\ handler' = [at |-> "candidate", candidate |-> c]
             /\ frozen' = [frozen EXCEPT ![c] = freezing[c]]
    BY <1>1, <1>5, <2>2 DEF SaveCandidate, HandlerKnows, TypeOK
  <2>3. QED
    BY <1>5, <2>1, <2>2 DEF SaveCandidate, Proceed
<1>6. ASSUME NEW c \in Candidates, NEW verdict \in Verdicts, SubmitArbitration(c, verdict)
      PROVE  HandlerKnows'
  <2>1. /\ handler' = [at |-> "verdict", candidate |-> c] /\ UNCHANGED <<wf, evidence>>
        /\ wf.state = "Arbitration" /\ InForce(c) /\ HasEvidence(c)
        /\ verdicts'[c] = verdict
    BY <1>1, <1>6 DEF SubmitArbitration, Proceed, TypeOK, aggregate
  <2>2. verdict # None
    BY DEF Verdicts, Targets, W!RepairTargets, None, W!None
  <2>3. QED
    BY <2>1, <2>2 DEF HandlerKnows, W!Place, InForce, HasEvidence
<1>7. ASSUME NEW r \in Runs, BeginRecording(r) PROVE HandlerKnows'
  BY <1>7 DEF BeginRecording, HandlerKnows, Proceed, work
<1>8. CASE RecordEvidence
  <2> DEFINE run == runs[handler.run]
  <2>1. /\ handler.run \in Runs /\ handler.next \in 1 .. 3
        /\ handler' = [at |-> "evidence", run |-> handler.run, next |-> handler.next + 1]
    <3>1. handler = [at |-> "evidence", run |-> handler.run, next |-> handler.next]
      BY <1>1, <1>8, HandlerFields DEF RecordEvidence
    <3>2. handler.run \in Runs /\ handler.next \in 1 .. 3
      BY <1>1, <1>8, HandlerFields DEF RecordEvidence, Gates
    <3>3. handler' = [handler EXCEPT !.next = @ + 1]
      BY <1>8 DEF RecordEvidence, Proceed
    <3>4. QED
      BY <3>1, <3>2, <3>3
  <2>2. /\ run.at = "done" /\ run.candidate \in Candidates
        /\ \A i \in 1 .. handler.next - 1 :
             evidence[run.candidate][Gates[i]] = run.outcome[Gates[i]]
    BY <1>1, <1>8, <2>1, RunFields DEF RecordEvidence, HandlerKnows
  <2>3. /\ runs' = runs
        /\ evidence' = [evidence EXCEPT ![run.candidate][Gates[handler.next]] =
                         run.outcome[Gates[handler.next]]]
    BY <1>8 DEF RecordEvidence, work
  <2> HIDE DEF run
  <2>4. ASSUME NEW i \in 1 .. handler.next
        PROVE  evidence'[run.candidate][Gates[i]] = run.outcome[Gates[i]]
    <3>1. evidence \in [Candidates -> [GateNames -> Statuses \cup {None}]]
      BY <1>1 DEF TypeOK
    <3>2. Gates[i] \in GateNames /\ Gates[handler.next] \in GateNames
          /\ (i # handler.next => Gates[i] # Gates[handler.next])
      BY <2>1 DEF Gates, GateNames
    <3>3. CASE i = handler.next
      BY <2>2, <2>3, <3>1, <3>2, <3>3
    <3>4. CASE i # handler.next
      <4>1. evidence[run.candidate][Gates[i]] = run.outcome[Gates[i]]
        BY <2>1, <2>2, <3>4
      <4>2. QED
        BY <2>2, <2>3, <3>1, <3>2, <3>4, <4>1
    <3>5. QED
      BY <3>3, <3>4
  <2>5. handler'.next - 1 = handler.next /\ handler'.run = handler.run /\ handler'.at = "evidence"
    BY <2>1
  <2>6. runs'[handler'.run] = run
    BY <2>3, <2>5 DEF run
  <2>7. QED
    BY <2>2, <2>4, <2>5, <2>6 DEF HandlerKnows
<1>9. CASE ConcludeVerification
  <2>1. runs[handler.run].candidate \in Candidates
    BY <1>1, <1>9, HandlerFields, RunFields DEF ConcludeVerification, HandlerKnows
  <2>2. handler' = Idle \/ RouteToRepair(runs[handler.run].candidate, "Execution")
    BY <1>9 DEF ConcludeVerification, Proceed
  <2>3. QED
    BY <1>2, <1>3, <2>1, <2>2 DEF Targets, W!RepairTargets
<1>10. CASE ConcludeArbitration
  <2> DEFINE c == handler.candidate
  <2>1. c \in Candidates /\ (verdicts[c] # "Approved" => verdicts[c] \in Targets)
    BY <1>1, <1>10, HandlerFields DEF ConcludeArbitration, HandlerKnows, TypeOK, Verdicts
  <2>2. "Execution" \in Targets /\ RejectedTarget(c) \in Targets
    BY DEF Targets, W!RepairTargets, RejectedTarget
  <2>3. handler' = Idle \/ \E target \in Targets : RouteToRepair(c, target)
    BY <1>10, <2>1, <2>2 DEF ConcludeArbitration, Proceed
  <2>4. QED
    BY <1>2, <1>3, <2>1, <2>3
<1>11. CASE StartWorkflow
  <2>1. handler' \in {Idle, handler}
    BY <1>11 DEF StartWorkflow, Proceed
  <2>2. QED
    BY <1>2, <1>11, <2>1 DEF StartWorkflow
<1>12. CASE \/ AcceptArchitecture \/ SubmitCandidate \/ BeginRepair
            \/ ConcludeReview \/ Crash \/ StoreFails
  BY <1>2, <1>12
  DEF AcceptArchitecture, SubmitCandidate, BeginRepair, ConcludeReview, Crash, StoreFails,
      Proceed
<1>13. ASSUME NEW c \in Candidates, NEW role \in Reviewers, NEW verdict \in Verdicts,
              SubmitReview(c, role, verdict)
       PROVE  HandlerKnows'
  BY <1>2, <1>13 DEF SubmitReview, Proceed
<1>14. CASE SubmitRequest \/ \E a \in Plans : SubmitArchitecture(a)
  BY <1>2, <1>14 DEF SubmitRequest, SubmitArchitecture, Proceed
<1>15. CASE Free /\ UNCHANGED handler
  BY <1>2, <1>15 DEF Free
<1>16. CASE UNCHANGED <<handler, aggregate, frozen, verdicts, evidence>>
            /\ \A r \in Runs : runs[r].at = "done" => runs'[r] = runs[r]
  <2>1. handler.at = "evidence" => handler.run \in Runs
    BY <1>1, HandlerFields
  <2>2. QED
    BY <1>1, <1>16, <2>1 DEF HandlerKnows, aggregate, InForce, W!Place, HasEvidence
<1>17. QED
  <2>1. ASSUME NEW r \in Runs, RunGates(r) PROVE HandlerKnows'
    <3>1. \A s \in Runs : runs[s].at = "done" => runs'[s] = runs[s]
      BY <1>1, <2>1 DEF RunGates, TypeOK
    <3>2. QED
      BY <1>16, <2>1, <3>1 DEF RunGates, judgement
  <2>2. ASSUME NEW content \in Contents, Commit(content) PROVE HandlerKnows'
    BY <1>16, <2>2 DEF Commit, judgement
  <2>3. ASSUME NEW required \in BOOLEAN, PromotionFailed(required) PROVE HandlerKnows'
    BY <1>16, <2>3 DEF PromotionFailed, judgement
  <2>4. CASE UNCHANGED vars
    BY <1>16, <2>4 DEF vars, judgement, work
  <2>5. ASSUME NEW c \in Candidates, FreezeStored(c) \/ BeginFreeze(c) \/ BeginPromotion(c)
        PROVE  HandlerKnows'
    BY <1>15, <2>5 DEF FreezeStored, BeginFreeze, BeginPromotion
  <2>6. ASSUME NEW c \in Candidates, NEW r \in Runs, BeginVerification(r, c)
        PROVE HandlerKnows'
    BY <1>15, <2>6 DEF BeginVerification
  <2>7. CASE PlanVerification \/ Delivered \/ ReportBlocked \/ ReportPlanDefect \/ Operate
    BY <1>15, <2>7
    DEF PlanVerification, Delivered, ReportBlocked, ReportPlanDefect, Operate,
                       Pause, Resume, Cancel, Retry, Command
  <2>8. QED
    BY <1>5, <1>6, <1>7, <1>8, <1>9, <1>10, <1>11, <1>12, <1>13, <1>14,
       <2>1, <2>2, <2>3, <2>4, <2>5, <2>6, <2>7
    DEF Next, Continue, Orchestrate

(* Evidence stays whole while nothing fails. *)
LEMMA EvidenceStep == IInv /\ [Next]_vars => EvidenceIsWhole'
<1> SUFFICES ASSUME IInv, [Next]_vars, failures' = 0, NEW c \in Candidates
             PROVE  \/ evidence'[c] = NoEvidence
                    \/ \A g \in GateNames : evidence'[c][g] # None
                    \/ handler'.at = "evidence" /\ runs'[handler'.run].candidate = c
  BY DEF EvidenceIsWhole
<1> DEFINE Whole == evidence[c] = NoEvidence \/ \A g \in GateNames : evidence[c][g] # None
           Recording == handler.at = "evidence" /\ runs[handler.run].candidate = c
<1>1. TypeOK /\ HandlerKnows /\ EvidenceIsWhole
  BY DEF IInv
<1>2. ~Crash /\ ~StoreFails
  BY <1>1 DEF Crash, StoreFails, TypeOK
<1>3. failures = 0
  BY <1>2 DEF Next, Continue, Orchestrate, Operate, StartWorkflow, AcceptArchitecture,
      SubmitCandidate, BeginRepair, RecordEvidence, ConcludeVerification, ConcludeReview,
      ConcludeArbitration, SaveCandidate, RunGates, BeginRecording, SubmitRequest,
      PlanVerification, SubmitArchitecture, Commit, FreezeStored, BeginFreeze,
      BeginPromotion,
      BeginVerification, SubmitArbitration, SubmitReview, Delivered, PromotionFailed,
      ReportBlocked, ReportPlanDefect, Pause, Resume, Cancel, Retry, Command, vars
<1>4. Whole \/ Recording
  BY <1>1, <1>3 DEF EvidenceIsWhole
<1>5. CASE RecordEvidence
  <2>1. /\ handler.run \in Runs
        /\ handler = [at |-> "evidence", run |-> handler.run, next |-> handler.next]
        /\ handler' = [handler EXCEPT !.next = @ + 1] /\ runs' = runs
    BY <1>1, <1>5, HandlerFields DEF RecordEvidence, Proceed, work
  <2>2. handler'.at = "evidence" /\ handler'.run = handler.run
    BY <2>1
  <2>3. CASE Recording
    BY <2>1, <2>2, <2>3
  <2>4. CASE ~Recording
    <3>1. runs[handler.run].candidate # c
      BY <1>5, <2>4 DEF RecordEvidence
    <3>2. evidence'[c] = evidence[c]
      BY <1>1, <1>5, <3>1 DEF RecordEvidence, TypeOK
    <3>3. QED
      BY <1>4, <2>4, <3>2
  <2>5. QED
    BY <2>3, <2>4
<1>6. CASE ConcludeVerification
  <2>1. evidence' = evidence
    BY <1>6 DEF ConcludeVerification, judgement, RouteToRepair
  <2>2. CASE Recording
    <3>1. /\ handler.run \in Runs /\ handler.next = 4
          /\ runs[handler.run].outcome \in [GateNames -> Statuses]
      BY <1>1, <1>6, HandlerFields, RunFields DEF ConcludeVerification, HandlerKnows, Gates
    <3>2. \A i \in 1 .. 3 : evidence[c][Gates[i]] = runs[handler.run].outcome[Gates[i]]
      BY <1>1, <2>2, <3>1 DEF HandlerKnows
    <3>3. GateNames = {Gates[1], Gates[2], Gates[3]}
      BY DEF GateNames, Gates
    <3>4. None \notin Statuses
      BY DEF Statuses, None, W!None
    <3>5. QED
      BY <2>1, <3>1, <3>2, <3>3, <3>4
  <2>3. QED
    BY <1>4, <2>1, <2>2
<1>7. CASE ~RecordEvidence /\ ~ConcludeVerification
  <2>1. evidence' = evidence
    BY <1>7, RowFrames
  <2>2. ASSUME handler.at = "evidence"
        PROVE  handler' = handler /\ (UNCHANGED runs \/ \E r \in Runs : RunGates(r))
    <3>1. /\ ~Free
          /\ handler.at \notin {"start", "architecture", "candidate", "repair", "reviews", "verdict"}
      BY <2>2 DEF Free, Idle
    <3>2. CASE Continue
      BY <3>1, <3>2, <1>7, <2>2
      DEF Continue, StartWorkflow, AcceptArchitecture, SubmitCandidate, BeginRepair,
          ConcludeReview, ConcludeArbitration, SaveCandidate, BeginRecording, RunGates
    <3>3. CASE Orchestrate
      BY <3>1, <3>3
      DEF Orchestrate, SubmitRequest, PlanVerification, SubmitArchitecture, Commit,
          FreezeStored,
          BeginFreeze, BeginPromotion, BeginVerification, SubmitArbitration, SubmitReview,
          Delivered, PromotionFailed, ReportBlocked, ReportPlanDefect, Command
    <3>4. ~Operate
      BY <3>1 DEF Operate, Pause, Resume, Cancel, Retry, Command
    <3>5. QED
      BY <1>2, <3>2, <3>3, <3>4 DEF Next, vars, work
  <2>3. CASE Recording
    <3>1. handler.run \in Runs /\ runs[handler.run].at = "done"
      BY <1>1, <2>3, HandlerFields DEF HandlerKnows
    <3>2. ASSUME NEW r \in Runs, RunGates(r) PROVE runs'[handler.run] = runs[handler.run]
      BY <1>1, <3>1, <3>2 DEF RunGates, TypeOK
    <3>3. QED
      BY <2>2, <2>3, <3>2
  <2>4. QED
    BY <1>4, <2>1, <2>3
<1>8. QED
  BY <1>5, <1>6, <1>7

(* The invariant is inductive. *)
LEMMA StepPreserves == IInv /\ [Next]_vars => IInv'
  BY StepImplements, AggregateStep, TypeStep, HandlerStep, RunsStep, KeysStep, ReviewsStep,
     PastStep, RowsStep, ReservationStep, ApprovalStep, EvidenceStep, PTL DEF IInv

(* Every state the daemon can reach, through any interleaving of handlers, *)
(* verifications, promotions, controls, crashes and failing transactions,  *)
(* satisfies the inductive invariant.                                      *)
THEOREM Invariance == Spec => []IInv
  BY InitEstablishes, StepPreserves, PTL DEF Spec

(* The daemon changes a workflow only as the aggregate allows: the         *)
(* handlers over the store, with their duplicate and refused commands,     *)
(* crashes and partial transactions (WorkflowStore::execute), implement    *)
(* the aggregate.                                                          *)
THEOREM Implementation == Spec => W!Spec
<1>1. Init => W!Init
  BY DEF Init
<1>2. QED
  BY <1>1, StepImplements, Invariance, PTL DEF Spec, W!Spec

(* What Governance promises of the aggregate alone, the handlers keep      *)
(* under crashes, duplicates and suspensions: a candidate is delivered     *)
(* only by way of checks and an approval, every rejection is paid from an  *)
(* allowance, and a spent allowance stops the work (workflow.rs, apply).   *)
THEOREM HandlersAreGoverned == Spec => WP!Governed
<1>1. Init => WP!Init
  BY InitLinks DEF Init
<1>2. IInv /\ [Next]_vars => [WP!Next]_wf
  BY StepImplements, NextLinks
<1>3. Spec => WP!Spec
  BY <1>1, <1>2, Invariance, PTL DEF Spec, WP!Spec
<1>4. QED
  BY <1>3, AggregateAssumptions, WP!Refinement

(* Every row of the store, handler and process holds a value of its type. *)
THEOREM TypeCorrectness == Spec => []TypeOK
<1>1. IInv => TypeOK
  BY DEF IInv
<1>2. QED
  BY <1>1, Invariance, PTL

(* What awaits delivery or was delivered was approved by the arbiter, is   *)
(* allowed by the request and, in the full mode, was rejected by no        *)
(* reviewer; and full arbitration starts with both reviews of the          *)
(* candidate it judges (submit_arbitration, submit_review).                *)
THEOREM ApprovalSafety == Spec => []ApprovalIsEarned
<1>1. IInv => ApprovalIsEarned
  BY DEF IInv
<1>2. QED
  BY <1>1, Invariance, PTL

(* While a delivery is reserved the workflow stays approved, at the        *)
(* reserved candidate, not paused, blocked or cancelled, through crashes   *)
(* and failed promotions (begin_promotion, WorkflowStore::execute).        *)
THEOREM ReservationSafety == Spec => []ReservationHoldsWorkflow
<1>1. IInv => ReservationHoldsWorkflow
  BY DEF IInv
<1>2. QED
  BY <1>1, Invariance, PTL

(* The candidate that is judged is stored and was never rejected, and the  *)
(* command that moves it on is never taken for a duplicate of an earlier   *)
(* one (command_deduplication).                                            *)
THEOREM JudgementProceeds == Spec => []JudgedMayProceed
<1>1. IInv => JudgedMayProceed
  <2> SUFFICES ASSUME IInv PROVE JudgedMayProceed
    OBVIOUS
  <2> DEFINE c == wf.current_candidate
  <2>1. /\ W!Place \in W!Judged \cup {"Repair"} => c \in Candidates
        /\ wf.repair_cycles \in 0 .. MaxU8
    BY FactsLink
    DEF IInv, AggregateFacts, W!TypeOK, W!CandidateMatchesPlace, W!HasCandidate, W!Judged
  <2>2. c \in Candidates => KeysInOrder(c) /\ InForce(c)
    BY DEF IInv, KeysAreInOrder, InForce
  <2>3. W!Judged \cap {"Repair", "Blocked", "Cancelled"} = {}
    BY DEF W!Judged
  <2>4. {"Verification", "IndependentReviews", "Arbitration"} \subseteq W!Judged
    BY DEF W!Judged
  <2>5. QED
    BY <2>1, <2>2, <2>3, <2>4 DEF JudgedMayProceed, KeysInOrder
<1>2. QED
  BY <1>1, Invariance, PTL

(* The step formula of CyclesAreChargedInForce. *)
ChargeStep ==
  wf'.repair_cycles # wf.repair_cycles =>
    <<"reject", wf.current_candidate, wf'.repair_target>> \in dedup' \ dedup

(* A repair cycle is charged to the candidate in force, once               *)
(* (repair::route).                                                        *)
THEOREM ChargeSafety == Spec => CyclesAreChargedInForce
<1>1. IInv /\ [Next]_vars => [ChargeStep]_vars
  <2> SUFFICES ASSUME IInv, [Next]_vars, wf'.repair_cycles # wf.repair_cycles
      PROVE ChargeStep
    BY DEF ChargeStep
  <2>1. PICK c \in Candidates, target \in Targets : Rejects(c, target)
    BY StepMoves DEF Move, PlansOn, Stays, Delivers, Submits, PassesVerification,
                     OpensArbitration, Approves, Repairs, SameCycles, aggregate
  <2>2. QED
    BY <2>1 DEF Rejects, Moves, InForce, ChargeStep
<1>2. QED
  BY <1>1, Invariance, PTL DEF Spec, CyclesAreChargedInForce, ChargeStep

(* The step formula of ApprovedOverPassedGates. *)
ApprovalStepIsEarned ==
  wf.state = "Arbitration" /\ wf'.state = "Delivery" /\ failures = 0 =>
    GatesPassed(wf.current_candidate)

(* Until the first crash or failing transaction, an approval happens only  *)
(* over gates that passed in their latest attempt (arbitration::refusal).  *)
THEOREM EvidenceSafety == Spec => ApprovedOverPassedGates
<1>1. IInv /\ [Next]_vars => [ApprovalStepIsEarned]_vars
  <2> SUFFICES ASSUME IInv, [Next]_vars, wf.state = "Arbitration", wf'.state = "Delivery",
                      failures = 0
               PROVE  GatesPassed(wf.current_candidate)
    BY DEF ApprovalStepIsEarned
  <2>1. W!Place = "Arbitration" /\ W!Place' = "Delivery"
    BY DEF W!Place
  <2>2. PICK c \in Candidates : Approves(c)
    BY <2>1, StepMoves
    DEF Move, PlansOn, Stays, Delivers, Submits, PassesVerification, OpensArbitration,
        Rejects,
        Repairs, Moves, aggregate, W!Planning, W!Building, W!Place
  <2>3. /\ wf.current_candidate = c /\ evidence[c] # NoEvidence /\ handler.at # "evidence"
        /\ \A g \in GateNames : evidence[c][g] \in {"passed", None}
    BY <2>2 DEF Approves, InForce, HasEvidence, GatesPass
  <2>4. \A g \in GateNames : evidence[c][g] # None
    BY <2>3 DEF IInv, EvidenceIsWhole
  <2>5. QED
    BY <2>3, <2>4 DEF GatesPassed
<1>2. QED
  BY <1>1, Invariance, PTL DEF Spec, ApprovedOverPassedGates, ApprovalStepIsEarned

(* The step formula of MovesOnPassedGates. *)
PassStep ==
  wf.state = "Verification" /\ wf'.state \in {"IndependentReviews", "Arbitration"} =>
    LET c == runs[handler.run].candidate
    IN GatesPassed(c) /\ (InForce(c) \/ Rejected(c))

(* However many verifications are in flight, a candidate leaves            *)
(* verification only on recorded gates that all passed: its own, or those  *)
(* of an earlier candidate that was rejected while they ran (conclude of   *)
(* verify_candidate; ControlPlaneClaims shows the exception happen).       *)
THEOREM PassedGatesSafety == Spec => MovesOnPassedGates
<1>1. IInv /\ [Next]_vars => [PassStep]_vars
  <2> DEFINE c == runs[handler.run].candidate
  <2> SUFFICES ASSUME IInv, [Next]_vars, wf.state = "Verification",
                      wf'.state \in {"IndependentReviews", "Arbitration"}
               PROVE  GatesPassed(c) /\ (InForce(c) \/ Rejected(c))
    BY DEF PassStep
  <2>1. W!Place = "Verification" /\ W!Place' \in {"IndependentReviews", "Arbitration"}
    BY DEF W!Place
  <2>2. PICK d \in Candidates : PassesVerification(d)
    BY <2>1, StepMoves
    DEF Move, PlansOn, Stays, Delivers, Submits, OpensArbitration, Approves, Rejects,
        Repairs, Moves, aggregate, W!Planning, W!Building, W!Place
  <2>3. /\ handler.run \in Runs /\ handler.next = 4 /\ handler.at = "evidence"
        /\ c \in Candidates /\ <<"candidate", c>> \in dedup
        /\ AllPassed(runs[handler.run].outcome)
    BY <2>2, HandlerFields
    DEF PassesVerification, ConcludeVerification, IInv, HandlerKnows, Gates
  <2>4. InForce(c) \/ Rejected(c)
    BY <2>3 DEF IInv, PastIsRejected
  <2>5. \A i \in 1 .. 3 : evidence[c][Gates[i]] = runs[handler.run].outcome[Gates[i]]
    BY <2>3 DEF IInv, HandlerKnows
  <2>6. GateNames = {Gates[1], Gates[2], Gates[3]}
    BY DEF GateNames, Gates
  <2>7. QED
    BY <2>3, <2>4, <2>5, <2>6 DEF GatesPassed, AllPassed
<1>2. QED
  BY <1>1, Invariance, PTL DEF Spec, MovesOnPassedGates, PassStep

=============================================================================
