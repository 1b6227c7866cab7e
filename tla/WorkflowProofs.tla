--------------------------- MODULE WorkflowProofs ---------------------------
(***************************************************************************)
(* Proofs about the workflow aggregate, for every set of candidates, every *)
(* budget and every extension: its invariants, that suspension preserves   *)
(* the work, and that the aggregate implements Governance.                 *)
(***************************************************************************)
EXTENDS WorkflowRefinement, TLAPS

(***************************************************************************)
(* The inductive invariant.  No conjunct is inductive alone: which state a *)
(* repair resumes in needs the target, the target needs the budget (a      *)
(* Blocked workflow without an infrastructure cause is one whose budget is *)
(* spent), and all of them are stated at the place of a suspended          *)
(* workflow, which the exactness of suspension makes well defined.         *)
(***************************************************************************)
IInv ==
  /\ TypeOK
  /\ CandidateMatchesPlace
  /\ RepairHasTarget
  /\ BudgetRespected
  /\ SuspensionIsExact

LEMMA InitEstablishes == Init => IInv
  BY CandidatesAssumption, BudgetAssumption
  DEF Init, IInv, TypeOK, CandidateMatchesPlace, RepairHasTarget, BudgetRespected,
      SuspensionIsExact, Place, HasCandidate, None, Modes, RepairTargets, Terminal,
      Suspended, Planning, Building, Judged, States

LEMMA StepPreserves == IInv /\ [Next]_wf => IInv'
<1> SUFFICES ASSUME IInv, [Next]_wf PROVE IInv'
  OBVIOUS
<1> USE CandidatesAssumption, BudgetAssumption
    DEF IInv, TypeOK, CandidateMatchesPlace, RepairHasTarget, BudgetRespected,
        SuspensionIsExact, Place, HasCandidate, None, Modes, RepairTargets, Terminal,
        Suspended, Planning, Building, Judged, States, Become
<1>1. CASE CompleteIntake
  BY <1>1 DEF CompleteIntake
<1>2. ASSUME NEW mode \in Modes, Route(mode) PROVE IInv'
  BY <1>2 DEF Route
<1>3. CASE ArchitectureAccepted
  BY <1>3 DEF ArchitectureAccepted
<1>4. ASSUME NEW c \in Candidates, CandidateReady(c) PROVE IInv'
  BY <1>4 DEF CandidateReady
<1>5. CASE VerificationPassed
  BY <1>5 DEF VerificationPassed
<1>6. ASSUME NEW target \in RepairTargets,
             wf.state \in {"Verification", "Arbitration"}, ConsumeCycle(target)
      PROVE IInv'
  <2> DEFINE spent == wf.repair_cycles + 1
             to == IF spent >= wf.max_repair_cycles THEN "Blocked" ELSE "Repair"
  <2>1. /\ Place = wf.state
        /\ wf.repair_cycles < wf.max_repair_cycles
        /\ spent \in 0 .. wf.max_repair_cycles
        /\ spent \in 0 .. MaxU8
        /\ spent = wf.max_repair_cycles <=> to = "Blocked"
    BY <1>6 DEF ConsumeCycle
  <2>2. wf' = [wf EXCEPT !.repair_cycles = spent, !.repair_target = target, !.state = to]
    BY <1>6 DEF ConsumeCycle
  <2>3. to \in {"Blocked", "Repair"}
    OBVIOUS
  <2> HIDE DEF spent, to
  <2>4. TypeOK'
    BY <2>1, <2>2, <2>3
  <2>5. Place' = to
    BY <1>6, <2>2, <2>3
  <2>6. CandidateMatchesPlace' /\ RepairHasTarget' /\ SuspensionIsExact'
    BY <1>6, <2>1, <2>2, <2>3, <2>5
  <2>7. BudgetRespected'
    BY <2>1, <2>2, <2>3, <2>5
  <2>8. QED
    BY <2>4, <2>6, <2>7
<1>7. CASE VerificationFailed
  BY <1>6, <1>7 DEF VerificationFailed
<1>8. ASSUME NEW target \in RepairTargets, VerificationRejected(target) PROVE IInv'
  BY <1>6, <1>8 DEF VerificationRejected
<1>9. CASE ReviewsReady
  BY <1>9 DEF ReviewsReady
<1>10. ASSUME NEW passed \in BOOLEAN, Approve(passed) PROVE IInv'
  BY <1>10 DEF Approve
<1>11. CASE Deliver
  BY <1>11 DEF Deliver
<1>12. ASSUME NEW target \in RepairTargets, Reject(target) PROVE IInv'
  BY <1>6, <1>12 DEF Reject
<1>13. CASE BeginRepair
  BY <1>13 DEF BeginRepair
<1>14. CASE Pause
  BY <1>14 DEF Pause, CanPause
<1>15. CASE Resume
  BY <1>15 DEF Resume
<1>16. CASE Cancel
  <2>1. wf' = [wf EXCEPT !.paused_from = None, !.state = "Cancelled"]
    BY <1>16 DEF Cancel
  <2>2. TypeOK' /\ Place' = "Cancelled"
    BY <2>1
  <2>3. SuspensionIsExact' /\ BudgetRespected'
    BY <1>16, <2>1, <2>2 DEF Cancel
  <2>4. QED
    BY <2>2, <2>3
<1>17. CASE RetryInfrastructure
  BY <1>17 DEF RetryInfrastructure
<1>18. ASSUME NEW additional \in Extensions, ResumeBlocked(additional) PROVE IInv'
  <2>1. /\ Place = "Blocked"
        /\ wf.max_repair_cycles + additional \in 1 .. MaxU8
        /\ wf.repair_cycles < wf.max_repair_cycles + additional
    BY <1>18 DEF ResumeBlocked
  <2>2. wf' = [wf EXCEPT !.max_repair_cycles = wf.max_repair_cycles + additional,
                         !.state = "Repair"]
    BY <1>18 DEF ResumeBlocked
  <2>3. TypeOK' /\ Place' = "Repair"
    BY <2>1, <2>2
  <2>4. CandidateMatchesPlace' /\ RepairHasTarget' /\ SuspensionIsExact'
    BY <1>18, <2>1, <2>2, <2>3 DEF ResumeBlocked
  <2>5. BudgetRespected'
    BY <2>1, <2>2, <2>3
  <2>6. QED
    BY <2>3, <2>4, <2>5
<1>19. CASE BlockInfrastructure
  BY <1>19 DEF BlockInfrastructure, CanBlockInfrastructure
<1>20. CASE ResumeInfrastructure
  BY <1>20 DEF ResumeInfrastructure
<1>21. CASE ReplanExecution
  BY <1>21 DEF ReplanExecution
<1>22. CASE UNCHANGED wf
  BY <1>22
<1>23. QED
  BY <1>1, <1>2, <1>3, <1>4, <1>5, <1>7, <1>8, <1>9, <1>10, <1>11, <1>12, <1>13,
     <1>14, <1>15, <1>16, <1>17, <1>18, <1>19, <1>20, <1>21, <1>22 DEF Next

(* Every reachable record of the aggregate satisfies the whole invariant. *)
THEOREM Invariance == Spec => []IInv
  BY InitEstablishes, StepPreserves, PTL DEF Spec

(* Every field keeps the type its Rust declaration gives it: no counter    *)
(* leaves u8, whatever is rejected and extended (workflow.rs:285).          *)
THEOREM TypeCorrectness == Spec => []TypeOK
<1>1. IInv => TypeOK
  BY DEF IInv
<1>2. QED
  BY <1>1, Invariance, PTL

(* A candidate is current exactly where one is judged or repaired, and     *)
(* begin_repair never finds the repair target missing, through every       *)
(* pause, block and repair.                                                *)
THEOREM RecordCorrectness == Spec => []RecordFollowsPlace
<1>1. IInv => RecordFollowsPlace
  BY DEF IInv, RecordFollowsPlace
<1>2. QED
  BY <1>1, Invariance, PTL

(* Work goes on only on an unspent budget, for every budget and extension. *)
THEOREM BudgetSafety == Spec => []BudgetRespected
<1>1. IInv => BudgetRespected
  BY DEF IInv
<1>2. QED
  BY <1>1, Invariance, PTL

(* No sequence of pauses and blocks forgets, nests or invents the state a  *)
(* suspended workflow is resumed in.                                       *)
THEOREM SuspensionCorrectness == Spec => []SuspensionIsExact
<1>1. IInv => SuspensionIsExact
  BY DEF IInv
<1>2. QED
  BY <1>1, Invariance, PTL

(***************************************************************************)
(* Suspension and the work.                                                *)
(***************************************************************************)
SuspensionStep ==
  (wf.state \in Suspended \/ wf'.state \in Suspended) =>
    \/ Work' = Work
    \/ wf'.state = "Cancelled"
    \/ wf'.repair_cycles = wf.repair_cycles + 1 /\ Place' = "Blocked"
    \/ Place = "Blocked" /\ Place' = "Repair"
       /\ wf'.max_repair_cycles > wf.max_repair_cycles

LEMMA SuspendingKeepsWork ==
  IInv /\ (Pause \/ Resume \/ BlockInfrastructure \/ ResumeInfrastructure) => Work' = Work
<1> SUFFICES ASSUME IInv, Pause \/ Resume \/ BlockInfrastructure \/ ResumeInfrastructure
             PROVE Work' = Work
  OBVIOUS
<1> USE DEF IInv, TypeOK, SuspensionIsExact, None, Terminal, Suspended, Planning,
            Building, Judged, States
<1>1. Place' = Place
  <2>1. CASE Pause
    BY <2>1 DEF Pause, CanPause, Place
  <2>2. CASE Resume
    BY <2>2 DEF Resume, Place
  <2>3. CASE BlockInfrastructure
    BY <2>3 DEF BlockInfrastructure, CanBlockInfrastructure, Place
  <2>4. CASE ResumeInfrastructure
    BY <2>4 DEF ResumeInfrastructure, Place
  <2>5. QED
    BY <2>1, <2>2, <2>3, <2>4
<1>2. /\ wf'.mode = wf.mode /\ wf'.current_candidate = wf.current_candidate
      /\ wf'.repair_target = wf.repair_target
      /\ wf'.repair_cycles = wf.repair_cycles
      /\ wf'.max_repair_cycles = wf.max_repair_cycles
  <2>1. CASE Pause
    BY <2>1 DEF Pause
  <2>2. CASE Resume
    BY <2>2 DEF Resume
  <2>3. CASE BlockInfrastructure
    BY <2>3 DEF BlockInfrastructure
  <2>4. CASE ResumeInfrastructure
    BY <2>4 DEF ResumeInfrastructure
  <2>5. QED
    BY <2>1, <2>2, <2>3, <2>4
<1>3. QED
  BY <1>1, <1>2 DEF Work

LEMMA StepKeepsWork == IInv /\ Next => SuspensionStep
<1> SUFFICES ASSUME IInv, Next PROVE SuspensionStep
  OBVIOUS
<1> USE DEF IInv, TypeOK, SuspensionIsExact, Place, None, Modes, RepairTargets,
            Terminal, Suspended, Planning, Building, Judged, States, Become
<1>1. CASE wf.state \notin Suspended /\ wf'.state \notin Suspended
  BY <1>1 DEF SuspensionStep
<1>2. ASSUME NEW target \in RepairTargets,
             wf.state \in {"Verification", "Arbitration"}, ConsumeCycle(target),
             wf'.state = "Blocked"
      PROVE SuspensionStep
  <2>1. wf'.repair_cycles = wf.repair_cycles + 1
    BY <1>2 DEF ConsumeCycle
  <2>2. Place' = "Blocked"
    BY <1>2 DEF ConsumeCycle
  <2>3. QED
    BY <2>1, <2>2 DEF SuspensionStep
<1>3. CASE Pause \/ Resume \/ BlockInfrastructure \/ ResumeInfrastructure
  BY <1>3, SuspendingKeepsWork DEF SuspensionStep
<1>4. CASE Cancel
  BY <1>4 DEF Cancel, SuspensionStep
<1>5. ASSUME NEW additional \in Extensions, ResumeBlocked(additional)
      PROVE SuspensionStep
  <2>1. Place = "Blocked" /\ Place' = "Repair"
    BY <1>5 DEF ResumeBlocked
  <2>2. wf'.max_repair_cycles > wf.max_repair_cycles
    BY <1>5, BudgetAssumption DEF ResumeBlocked
  <2>3. QED
    BY <2>1, <2>2 DEF SuspensionStep
<1>6. CASE wf.state \in Suspended \/ wf'.state \in Suspended
  <2>1. ASSUME NEW mode \in Modes PROVE ~Route(mode)
    BY <1>6 DEF Route
  <2>2. ASSUME NEW c \in Candidates PROVE ~CandidateReady(c)
    BY <1>6 DEF CandidateReady
  <2>3. ASSUME NEW passed \in BOOLEAN PROVE ~Approve(passed)
    BY <1>6 DEF Approve
  <2>4. ~CompleteIntake /\ ~ArchitectureAccepted /\ ~VerificationPassed /\ ~ReviewsReady
        /\ ~Deliver /\ ~RetryInfrastructure /\ ~ReplanExecution
    BY <1>6 DEF CompleteIntake, ArchitectureAccepted, VerificationPassed, ReviewsReady,
                Deliver, RetryInfrastructure, ReplanExecution
  <2>5. ~BeginRepair
    BY <1>6 DEF BeginRepair
  <2>6. ASSUME NEW target \in RepairTargets,
               VerificationRejected(target) \/ Reject(target) \/ VerificationFailed
        PROVE SuspensionStep
    <3>1. PICK t \in RepairTargets : ConsumeCycle(t)
      BY <2>6 DEF VerificationRejected, Reject, VerificationFailed
    <3>2. wf.state \in {"Verification", "Arbitration"}
      BY <2>6 DEF VerificationRejected, Reject, VerificationFailed
    <3>3. wf'.state = "Blocked"
      BY <1>6, <3>1, <3>2 DEF ConsumeCycle
    <3>4. QED
      BY <1>2, <3>1, <3>2, <3>3
  <2>7. "Execution" \in RepairTargets
    OBVIOUS
  <2>8. QED
    BY <1>3, <1>4, <1>5, <2>1, <2>2, <2>3, <2>4, <2>5, <2>6, <2>7 DEF Next
<1>7. QED
  BY <1>1, <1>6

(* However often a workflow is paused, blocked and resumed, its candidate, *)
(* target, mode, budget and place are those it was suspended with.         *)
THEOREM SuspensionSafety == Spec => SuspensionPreservesWork
<1>1. IInv /\ [Next]_wf => [SuspensionStep]_wf
  BY StepKeepsWork
<1>2. Spec => [][SuspensionStep]_wf
  BY <1>1, Invariance, PTL DEF Spec
<1>3. QED
  BY <1>2 DEF SuspensionPreservesWork, SuspensionStep

(***************************************************************************)
(* The aggregate implements Governance.                                    *)
(***************************************************************************)
(* The mapping as equations: the states of the code are disjoint, so each  *)
(* place has one stage.                                                    *)
StageEquations ==
  /\ Place \in Planning => Stage = "planning"
  /\ Place \in Building => Stage = "building"
  /\ Place = "Verification" => Stage = "checking"
  /\ Place = "IndependentReviews" => Stage = "reviewing"
  /\ Place = "Arbitration" => Stage = "judging"
  /\ Place = "Delivery" => Stage = "delivering"
  /\ Place = "Completed" => Stage = "done"
  /\ Place = "Cancelled" => Stage = "cancelled"
  /\ Place \in {"Repair", "Blocked"} => Stage = "repairing"

LEMMA StageByPlace == StageEquations
  BY DEF StageEquations, Stage, Planning, Building

LEMMA NextStageByPlace == StageEquations'
  BY StageByPlace, PTL

LEMMA InitMaps == Init => Gov!Init
<1> SUFFICES ASSUME Init PROVE Gov!Init
  OBVIOUS
<1>1. Place = "Intake"
  BY DEF Init, Place
<1>2. Stage = "planning"
  BY <1>1, StageByPlace DEF StageEquations, Planning
<1>3. QED
  BY <1>2 DEF Init, Gov!Init

LEMMA StepMaps == IInv /\ IInv' /\ [Next]_wf => [Gov!Next]_(Gov!gvars)
<1> SUFFICES ASSUME IInv, IInv', [Next]_wf PROVE [Gov!Next]_(Gov!gvars)
  OBVIOUS
<1> DEFINE Kept == /\ wf'.current_candidate = wf.current_candidate
                   /\ wf'.repair_cycles = wf.repair_cycles
                   /\ wf'.max_repair_cycles = wf.max_repair_cycles
<1> USE StageByPlace, NextStageByPlace
    DEF IInv, TypeOK, StageEquations, None, Modes, RepairTargets, Terminal, Suspended,
        Planning, Building, Judged, States
<1>1. ASSUME NEW s \in States \ Suspended, wf.state \notin Suspended, Become(s)
      PROVE Place = wf.state /\ Place' = s /\ Kept
  BY <1>1 DEF Place, Become
<1>2. CASE CompleteIntake
  <2>1. Place \in Planning /\ Place' \in Planning /\ Kept
    BY <1>1, <1>2 DEF CompleteIntake
  <2>2. QED
    BY <2>1 DEF Gov!gvars
<1>3. ASSUME NEW mode \in Modes, Route(mode) PROVE [Gov!Next]_(Gov!gvars)
  <2>1. Place = "Routing" /\ Kept
    BY <1>3 DEF Route, Place
  <2>2. Place' \in {"QuickExecution", "Architecture"}
    BY <1>3 DEF Route, Place
  <2>3. CASE Place' = "Architecture"
    BY <2>1, <2>3 DEF Gov!gvars
  <2>4. CASE Place' = "QuickExecution"
    BY <2>1, <2>4 DEF Gov!Next, Gov!Plan, Gov!Move
  <2>5. QED
    BY <2>2, <2>3, <2>4
<1>4. CASE ArchitectureAccepted \/ ReplanExecution
  <2>1. Kept /\ \/ Place = "Architecture" /\ Place' = "Execution"
                \/ Place = "Execution" /\ Place' = "Architecture"
    BY <1>1, <1>4 DEF ArchitectureAccepted, ReplanExecution
  <2>2. QED
    BY <2>1 DEF Gov!Next, Gov!Plan, Gov!Move
<1>5. ASSUME NEW c \in Candidates, CandidateReady(c) PROVE [Gov!Next]_(Gov!gvars)
  <2>1. /\ Place \in Building /\ Place' = "Verification"
        /\ wf'.current_candidate = c
        /\ wf'.repair_cycles = wf.repair_cycles
        /\ wf'.max_repair_cycles = wf.max_repair_cycles
    BY <1>5 DEF CandidateReady, Place
  <2>2. Gov!Present(c)
    BY <2>1 DEF Gov!Present
  <2>3. QED
    BY <2>2 DEF Gov!Next
<1>6. CASE VerificationPassed \/ ReviewsReady
  <2>1. Kept /\ \/ Place = "Verification" /\ Place' \in {"IndependentReviews", "Arbitration"}
                \/ Place = "IndependentReviews" /\ Place' = "Arbitration"
    BY <1>1, <1>6 DEF VerificationPassed, ReviewsReady
  <2>2. QED
    BY <2>1 DEF Gov!Next, Gov!Judge, Gov!Move
<1>7. ASSUME NEW passed \in BOOLEAN, Approve(passed) PROVE [Gov!Next]_(Gov!gvars)
  <2>1. Kept /\ Place = "Arbitration" /\ Place' = "Delivery"
    BY <1>1, <1>7 DEF Approve
  <2>2. QED
    BY <2>1 DEF Gov!Next, Gov!Approve, Gov!Move
<1>8. CASE Deliver
  <2>1. Kept /\ Place = "Delivery" /\ Place' = "Completed"
    BY <1>1, <1>8 DEF Deliver
  <2>2. QED
    BY <2>1 DEF Gov!Next, Gov!Deliver, Gov!Move
<1>9. ASSUME NEW target \in RepairTargets,
             VerificationRejected(target) \/ Reject(target) \/ VerificationFailed
      PROVE [Gov!Next]_(Gov!gvars)
  <2>1. PICK t \in RepairTargets : ConsumeCycle(t)
    BY <1>9 DEF VerificationRejected, Reject, VerificationFailed
  <2>2. wf.state \in {"Verification", "Arbitration"}
    BY <1>9 DEF VerificationRejected, Reject, VerificationFailed
  <2>3. Place = wf.state /\ wf.repair_cycles < wf.max_repair_cycles
    BY <2>2 DEF Place, BudgetRespected
  <2>4. Place' \in {"Repair", "Blocked"}
    BY <2>1, <2>2 DEF ConsumeCycle, Place, SuspensionIsExact
  <2>5. /\ wf'.repair_cycles = wf.repair_cycles + 1
        /\ wf'.current_candidate = wf.current_candidate
        /\ wf'.max_repair_cycles = wf.max_repair_cycles
    BY <2>1 DEF ConsumeCycle
  <2>6. QED
    BY <2>2, <2>3, <2>4, <2>5 DEF Gov!Next, Gov!Reject
<1>10. CASE BeginRepair
  <2>1. Place = "Repair" /\ Place' = wf.repair_target /\ wf.repair_target \in RepairTargets
    BY <1>10 DEF BeginRepair, Place
  <2>2. wf.repair_cycles < wf.max_repair_cycles
    BY <2>1 DEF BudgetRespected
  <2>3. /\ wf'.current_candidate = NoCandidate
        /\ wf'.repair_cycles = wf.repair_cycles
        /\ wf'.max_repair_cycles = wf.max_repair_cycles
    BY <1>10 DEF BeginRepair
  <2>4. QED
    BY <2>1, <2>2, <2>3 DEF Gov!Next, Gov!Rework
<1>11. CASE Pause \/ Resume \/ BlockInfrastructure \/ ResumeInfrastructure
  <2>1. Work' = Work
    BY <1>11, SuspendingKeepsWork
  <2>2. Place' = Place /\ Kept
    BY <2>1 DEF Work
  <2>3. Stage' = Stage
    BY <2>2 DEF Stage
  <2>4. QED
    BY <2>2, <2>3 DEF Gov!gvars
<1>12. CASE Cancel
  <2>1. Place' = "Cancelled" /\ Kept
    BY <1>12 DEF Cancel, Place
  <2>2. Place \in Planning \cup Building \cup (Judged \ {"Completed"}) \cup {"Repair", "Blocked"}
    BY <1>12 DEF Cancel, Place, SuspensionIsExact
  <2>3. QED
    BY <2>1, <2>2 DEF Gov!Next, Gov!Cancel
<1>13. CASE RetryInfrastructure \/ UNCHANGED wf
  <2>1. wf' = wf
    BY <1>13 DEF RetryInfrastructure
  <2>2. Stage' = Stage
    BY <2>1 DEF Stage, Place
  <2>3. QED
    BY <2>1, <2>2 DEF Gov!gvars
<1>14. ASSUME NEW additional \in Extensions, ResumeBlocked(additional)
       PROVE [Gov!Next]_(Gov!gvars)
  <2>1. Place = "Blocked" /\ Place' = "Repair"
    BY <1>14 DEF ResumeBlocked, Place
  <2>2. /\ wf.repair_cycles = wf.max_repair_cycles
        /\ wf'.max_repair_cycles \in (wf.max_repair_cycles + 1) .. MaxU8
        /\ wf'.current_candidate = wf.current_candidate
        /\ wf'.repair_cycles = wf.repair_cycles
    BY <1>14, <2>1, BudgetAssumption DEF ResumeBlocked, BudgetRespected
  <2>3. QED
    BY <2>1, <2>2 DEF Gov!Next, Gov!Extend
<1>15. "Execution" \in RepairTargets
  OBVIOUS
<1>16. QED
  BY <1>2, <1>3, <1>4, <1>5, <1>6, <1>7, <1>8, <1>9, <1>10, <1>11, <1>12, <1>13,
     <1>14, <1>15 DEF Next

(* Without its suspensions the aggregate is Governance: only a checked and *)
(* judged candidate is delivered, and rejections are paid from an          *)
(* allowance that stops the work when it is spent.                         *)
THEOREM Refinement == Spec => Governed
<1>1. Spec => Gov!Init /\ [][Gov!Next]_(Gov!gvars)
  BY InitMaps, StepMaps, Invariance, PTL DEF Spec
<1>2. QED
  BY <1>1 DEF Governed, Gov!Spec

=============================================================================
