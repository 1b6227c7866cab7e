------------------------------ MODULE Workflow ------------------------------
(***************************************************************************)
(* The workflow aggregate of workflow-core: one record, changed only by    *)
(* Workflow::apply.  There is one action per WorkflowCommand; a command    *)
(* that the code refuses (InvalidTransition and the other errors of        *)
(* TransitionError) leaves the record alone, so refusing is a disabled     *)
(* action.  Nothing here says who issues a command: ControlPlane composes  *)
(* these actions into the daemon's handlers.                               *)
(***************************************************************************)
EXTENDS Integers

CONSTANTS
  Candidates,      \* frozen candidate identifiers
  NoCandidate,     \* current_candidate = None
  DefaultBudget,   \* max_repair_cycles of a new workflow (5 in the code)
  Extensions,      \* the values of additional_cycles a caller may ask for
  MaxU8            \* largest value of the u8 counters (255 in the code)

ASSUME CandidatesAssumption == NoCandidate \notin Candidates
ASSUME BudgetAssumption ==
  /\ MaxU8 \in Nat
  /\ DefaultBudget \in 1 .. MaxU8      \* NonZeroU8
  /\ Extensions \subseteq 0 .. MaxU8

VARIABLE wf

(* A value that is Option::None in the code, for modes, targets and states. *)
None == "None"

Modes == {"Quick", "Full"}
RepairTargets == {"Execution", "Architecture"}

Terminal == {"Completed", "Cancelled"}
Suspended == {"Paused", "Blocked"}
(* The states in which a role or the daemon works on the request. *)
Planning == {"Intake", "Routing", "Architecture"}
Building == {"QuickExecution", "Execution"}
Judged == {"Verification", "IndependentReviews", "Arbitration", "Delivery", "Completed"}
States == Planning \cup Building \cup Judged \cup {"Repair"} \cup Suspended \cup Terminal

Init ==
  wf = [state |-> "Intake", mode |-> None, current_candidate |-> NoCandidate,
        repair_target |-> None, repair_cycles |-> 0,
        max_repair_cycles |-> DefaultBudget,
        paused_from |-> None, infrastructure_blocked_from |-> None]

(***************************************************************************)
(* Guards and effects several commands share.                              *)
(***************************************************************************)
(* Slip: a workflow that is already blocked can be paused. *)
CanPauseBlocked ==
  wf.state \notin {"Paused", "Verification", "Delivery"} \cup Terminal

CanPause == wf.state \notin Suspended \cup {"Verification", "Delivery"} \cup Terminal
CanBlockInfrastructure == wf.state \notin Suspended \cup Terminal
HasCandidate == wf.current_candidate # NoCandidate

Become(state) == wf' = [wf EXCEPT !.state = state]

(* Slip: the cycle that reaches the budget still goes to repair. *)
ConsumeCycleLate(target) ==
  /\ HasCandidate
  /\ wf.repair_cycles < MaxU8
  /\ wf' = [wf EXCEPT
       !.repair_cycles = wf.repair_cycles + 1,
       !.repair_target = target,
       !.state = IF wf.repair_cycles + 1 > wf.max_repair_cycles
                 THEN "Blocked" ELSE "Repair"]

(* A rejection costs one repair cycle; the cycle that reaches the budget   *)
(* blocks the workflow instead of sending it to repair.                    *)
ConsumeCycle(target) ==
  /\ HasCandidate
  /\ wf.repair_cycles < MaxU8
  /\ wf' = [wf EXCEPT
       !.repair_cycles = wf.repair_cycles + 1,
       !.repair_target = target,
       !.state = IF wf.repair_cycles + 1 >= wf.max_repair_cycles
                 THEN "Blocked" ELSE "Repair"]

(***************************************************************************)
(* The commands.                                                           *)
(***************************************************************************)
CompleteIntake == wf.state = "Intake" /\ Become("Routing")

Route(mode) ==
  /\ wf.state = "Routing"
  /\ wf' = [wf EXCEPT !.mode = mode,
                      !.state = IF mode = "Quick" THEN "QuickExecution" ELSE "Architecture"]

ArchitectureAccepted == wf.state = "Architecture" /\ Become("Execution")

CandidateReady(c) ==
  /\ wf.state \in Building
  /\ wf' = [wf EXCEPT !.current_candidate = c, !.state = "Verification"]

VerificationPassed ==
  /\ wf.state = "Verification" /\ HasCandidate /\ wf.mode # None
  /\ Become(IF wf.mode = "Quick" THEN "Arbitration" ELSE "IndependentReviews")

VerificationFailed == wf.state = "Verification" /\ ConsumeCycle("Execution")

VerificationRejected(target) == wf.state = "Verification" /\ ConsumeCycle(target)

ReviewsReady == wf.state = "IndependentReviews" /\ Become("Arbitration")

(* Slip: an approval is accepted before the reviews are arbitrated. *)
ApproveEarly(mandatory_gates_passed) ==
  /\ wf.state \in {"IndependentReviews", "Arbitration"} /\ HasCandidate
  /\ mandatory_gates_passed
  /\ Become("Delivery")

Approve(mandatory_gates_passed) ==
  /\ wf.state = "Arbitration" /\ HasCandidate
  /\ mandatory_gates_passed
  /\ Become("Delivery")

Deliver == wf.state = "Delivery" /\ HasCandidate /\ Become("Completed")

Reject(target) == wf.state = "Arbitration" /\ ConsumeCycle(target)

(* Slip: a repair keeps the rejected candidate. *)
BeginRepairKeepingCandidate ==
  /\ wf.state = "Repair" /\ wf.repair_target # None
  /\ wf' = [wf EXCEPT !.state = wf.repair_target, !.repair_target = None]

BeginRepair ==
  /\ wf.state = "Repair" /\ wf.repair_target # None
  /\ wf' = [wf EXCEPT !.state = wf.repair_target,
                      !.repair_target = None,
                      !.current_candidate = NoCandidate]

Pause ==
  /\ CanPause
  /\ wf' = [wf EXCEPT !.paused_from = wf.state, !.state = "Paused"]

Resume ==
  /\ wf.state = "Paused" /\ wf.paused_from # None
  /\ wf' = [wf EXCEPT !.state = wf.paused_from, !.paused_from = None]

Cancel ==
  /\ wf.state \notin Terminal
  /\ wf' = [wf EXCEPT !.paused_from = None, !.state = "Cancelled"]

(* Accepted without effect: the record of the retry is an event only. *)
RetryInfrastructure == wf.state \notin Suspended \cup Terminal /\ UNCHANGED wf

(* Slips: the sum is not checked; any block counts as a spent budget. *)
ResumeBlockedUnchecked(additional) ==
  /\ wf.state = "Blocked" /\ wf.infrastructure_blocked_from = None
  /\ additional > 0
  /\ wf' = [wf EXCEPT !.max_repair_cycles = wf.max_repair_cycles + additional,
                      !.state = "Repair"]
ResumeAnyBlock(additional) ==
  /\ wf.state = "Blocked"
  /\ additional > 0
  /\ wf.max_repair_cycles + additional <= MaxU8
  /\ wf' = [wf EXCEPT !.max_repair_cycles = wf.max_repair_cycles + additional,
                      !.state = "Repair"]

ResumeBlocked(additional) ==
  /\ wf.state = "Blocked" /\ wf.infrastructure_blocked_from = None
  /\ additional > 0
  /\ wf.max_repair_cycles + additional <= MaxU8
  /\ wf' = [wf EXCEPT !.max_repair_cycles = wf.max_repair_cycles + additional,
                      !.state = "Repair"]

BlockInfrastructure ==
  /\ CanBlockInfrastructure
  /\ wf' = [wf EXCEPT !.infrastructure_blocked_from = wf.state, !.state = "Blocked"]

ResumeInfrastructure ==
  /\ wf.state = "Blocked" /\ wf.infrastructure_blocked_from # None
  /\ wf' = [wf EXCEPT !.state = wf.infrastructure_blocked_from,
                      !.infrastructure_blocked_from = None]

ReplanExecution == wf.state = "Execution" /\ Become("Architecture")

Next ==
  \/ CompleteIntake
  \/ \E mode \in Modes : Route(mode)
  \/ ArchitectureAccepted
  \/ \E c \in Candidates : CandidateReady(c)
  \/ VerificationPassed
  \/ VerificationFailed
  \/ \E target \in RepairTargets : VerificationRejected(target)
  \/ ReviewsReady
  \/ \E passed \in BOOLEAN : Approve(passed)
  \/ Deliver
  \/ \E target \in RepairTargets : Reject(target)
  \/ BeginRepair
  \/ Pause
  \/ Resume
  \/ Cancel
  \/ RetryInfrastructure
  \/ \E additional \in Extensions : ResumeBlocked(additional)
  \/ BlockInfrastructure
  \/ ResumeInfrastructure
  \/ ReplanExecution

Spec == Init /\ [][Next]_wf

(***************************************************************************)
(* What the record promises.  The place of a suspended workflow is the     *)
(* state it was suspended in.                                              *)
(***************************************************************************)
Place ==
  IF wf.state = "Paused" THEN wf.paused_from
  ELSE IF wf.state = "Blocked" /\ wf.infrastructure_blocked_from # None
       THEN wf.infrastructure_blocked_from
       ELSE wf.state

(* Everything about the work that suspending must not touch. *)
Work == <<Place, wf.mode, wf.current_candidate, wf.repair_target,
          wf.repair_cycles, wf.max_repair_cycles>>

(* Every field of the record holds a value of its Rust type. *)
TypeOK ==
  wf \in [state : States, mode : Modes \cup {None},
          current_candidate : Candidates \cup {NoCandidate},
          repair_target : RepairTargets \cup {None},
          repair_cycles : 0 .. MaxU8, max_repair_cycles : 1 .. MaxU8,
          paused_from : States \cup {None},
          infrastructure_blocked_from : States \cup {None}]

(* A place holds a candidate exactly when it judges one or repairs it, and *)
(* is routed exactly when it is past routing: a rejected candidate never   *)
(* reaches a later execution, and MissingCandidate is never what refuses   *)
(* an approval or a delivery.                                              *)
CandidateMatchesPlace ==
  Place # "Cancelled" =>
    /\ HasCandidate <=> Place \in Judged \cup {"Repair", "Blocked"}
    /\ wf.mode = None <=> Place \in {"Intake", "Routing"}

(* A workflow waiting for a repair (or blocked because the budget is       *)
(* spent) knows where the repair starts, so MissingRepairTarget is never   *)
(* returned; nothing else carries a target.                                *)
RepairHasTarget ==
  Place # "Cancelled" => ((wf.repair_target # None) <=> Place \in {"Repair", "Blocked"})

(* The candidate and the target of repairs that the record holds are those *)
(* of the place, through every pause, block and repair.                    *)
RecordFollowsPlace == CandidateMatchesPlace /\ RepairHasTarget

(* The budget is spent exactly when the workflow is blocked for it; no     *)
(* work goes on, under whatever pauses and extensions, on a spent budget.  *)
BudgetRespected ==
  /\ wf.repair_cycles <= wf.max_repair_cycles
  /\ Place # "Cancelled" =>
       ((wf.repair_cycles = wf.max_repair_cycles) <=> Place = "Blocked")

(* A suspended workflow remembers a state it can be resumed in, and only   *)
(* a suspended one remembers any: pausing and blocking never nest.         *)
SuspensionIsExact ==
  /\ wf.state = "Paused" <=> wf.paused_from # None
  /\ wf.paused_from \notin Suspended \cup Terminal \cup {"Verification", "Delivery"}
  /\ wf.infrastructure_blocked_from # None => wf.state \in {"Blocked", "Cancelled"}
  /\ wf.infrastructure_blocked_from \notin Suspended \cup Terminal

(* Pausing, blocking and resuming, in any number and order, leave the work *)
(* as it was; a suspended workflow changes its work only by being          *)
(* cancelled or by the extension of a spent budget.                        *)
SuspensionPreservesWork ==
  [][ (wf.state \in Suspended \/ wf'.state \in Suspended) =>
        \/ Work' = Work
        \/ wf'.state = "Cancelled"
        \/ wf'.repair_cycles = wf.repair_cycles + 1 /\ Place' = "Blocked"
        \/ Place = "Blocked" /\ Place' = "Repair"
           /\ wf'.max_repair_cycles > wf.max_repair_cycles ]_wf

=============================================================================
