-------------------------- MODULE ArchitecturePlan --------------------------
(***************************************************************************)
(* validateArchitecturePlan (mcp/src/architecture-plan.ts): what the MCP   *)
(* server asks of a plan before it forwards it.  Texts are abstracted to   *)
(* whether all of them are acceptable; a write scope to its segments.      *)
(***************************************************************************)
EXTENDS Integers, Sequences, FiniteSets, SequencesExt, Functions

CONSTANT MaxItems   \* MAX_ITEMS of every array

ASSUME ItemsAssumption == MaxItems \in Nat \ {0}

Bounded(seq) == Len(seq) <= MaxItems
NonEmpty(seq) == Bounded(seq) /\ Len(seq) > 0
Distinct(seq) == Cardinality(Range(seq)) = Len(seq)

SafeRelative(scope) ==
  ~scope.rooted /\ \A i \in DOMAIN scope.segments : scope.segments[i] = "name"

(* The depth-first search: the outcome of a visit is a cycle, or all that *)
(* has been visited so far.                                               *)
Cyclic == [cycle |-> TRUE, visited |-> {}]

Dependencies(plan) == [t \in {plan.tasks[i].id : i \in DOMAIN plan.tasks} |->
  plan.tasks[CHOOSE i \in DOMAIN plan.tasks : plan.tasks[i].id = t].dependencies]

Acyclic(plan) ==
  LET needs == Dependencies(plan)
      ids == DOMAIN needs
      visit[id \in ids, visiting \in SUBSET ids, visited \in SUBSET ids] ==
        LET below == FoldLeft(
              LAMBDA found, d : IF found.cycle THEN found
                                ELSE visit[d, visiting \cup {id}, found.visited],
              [cycle |-> FALSE, visited |-> visited], needs[id])
        IN CASE id \in visiting -> Cyclic
             [] id \in visited -> [cycle |-> FALSE, visited |-> visited]
             [] OTHER -> [below EXCEPT !.visited = @ \cup {id}]
  IN ~FoldLeft(LAMBDA found, t : IF found.cycle THEN found ELSE visit[t.id, {}, found.visited],
               [cycle |-> FALSE, visited |-> {}], plan.tasks).cycle

CoversAll(plan) ==
  Range(plan.requirements) \subseteq
    UNION {Range(plan.tasks[i].requirements) : i \in DOMAIN plan.tasks}

TaskIsValid(plan, task) ==
  /\ NonEmpty(task.requirements) /\ Distinct(task.requirements)
  /\ Range(task.requirements) \subseteq Range(plan.requirements)
  /\ NonEmpty(task.scopes) /\ \A i \in DOMAIN task.scopes : SafeRelative(task.scopes[i])
  /\ Bounded(task.dependencies) /\ Distinct(task.dependencies)
  /\ Range(task.dependencies) \subseteq {plan.tasks[i].id : i \in DOMAIN plan.tasks} \ {task.id}

ValidateArchitecturePlan(plan) ==
  /\ plan.texts
  /\ NonEmpty(plan.requirements) /\ Distinct(plan.requirements)
  /\ NonEmpty(plan.tasks) /\ Distinct([i \in DOMAIN plan.tasks |-> plan.tasks[i].id])
  /\ \A i \in DOMAIN plan.tasks : TaskIsValid(plan, plan.tasks[i])
  /\ Acyclic(plan)
  /\ CoversAll(plan)

(***************************************************************************)
(* What the plan is for, stated without the search: its tasks can be done  *)
(* one after the other, every requirement is met by one of them, and no    *)
(* scope leads out of the worktree.                                        *)
(***************************************************************************)
HasAnOrder(plan) ==
  \E order \in [DOMAIN plan.tasks -> DOMAIN plan.tasks] :
    /\ IsInjective(order)
    /\ \A k \in DOMAIN order : \A d \in Range(plan.tasks[order[k]].dependencies) :
         \E j \in 1..(k - 1) : plan.tasks[order[j]].id = d

(* How far below the root a path is after its first k segments. *)
Depth(segments, k) ==
  FoldLeft(LAMBDA depth, s : CASE s = "name" -> depth + 1
                               [] s = ".." -> depth - 1
                               [] OTHER -> depth, 0, SubSeq(segments, 1, k))

StaysInside(scope) ==
  ~scope.rooted /\ \A k \in DOMAIN scope.segments : Depth(scope.segments, k) >= 0

Executable(plan) ==
  /\ HasAnOrder(plan)
  /\ \A r \in Range(plan.requirements) : \E i \in DOMAIN plan.tasks :
       r \in Range(plan.tasks[i].requirements)
  /\ \A i \in DOMAIN plan.tasks : \A s \in Range(plan.tasks[i].scopes) : StaysInside(s)
=============================================================================
