---------------------------- MODULE RoleRegistry ----------------------------
(***************************************************************************)
(* One content of runtime/role-sessions.json: the locks of workflows and   *)
(* the role sessions registered against them (mcp/src/role-registry.ts),   *)
(* and what the PreToolUse hook (hooks/pre-tool-use.js) decides from it.   *)
(***************************************************************************)
EXTENDS Integers, FiniteSets

CONSTANTS Projects, Workflows, Sessions, None

ASSUME NoneAssumption == None \notin Workflows \cup Sessions \cup Projects

ReadOnlyRoles == {"architect", "functional_reviewer", "security_reviewer", "arbiter"}
Roles == ReadOnlyRoles \cup {"executor"}

Lock == [project : Projects, tree : BOOLEAN]
Registration == [role : Roles, project : Projects, workflow : Workflows \cup {None}]
Contents == [locks : [Workflows -> Lock \cup {None}],
             roles : [Sessions -> Registration \cup {None}]]

ASSUME AbsenceAssumption == None \notin Roles /\ None \notin Lock /\ None \notin Registration

Nothing == [locks |-> [w \in Workflows |-> None], roles |-> [s \in Sessions |-> None]]

IsWorkflowLock(c, w) == c.locks[w] # None
IsRoleRegistration(c, s) == c.roles[s] # None

(* Slip: a lock that says nothing of a worktree. *)
WithBareLock(c, w, p) == [c EXCEPT !.locks[w] = [project |-> p]]

WithLock(c, w, p) == [c EXCEPT !.locks[w] = [project |-> p, tree |-> FALSE]]
WithWorktree(c, w) == [c EXCEPT !.locks[w].tree = TRUE]
WithRole(c, s, r) == [c EXCEPT !.roles[s] = r]
WithoutRoles(c, S) == [c EXCEPT !.roles = [s \in Sessions |-> IF s \in S THEN None ELSE c.roles[s]]]

RolesOf(c, w) == {s \in Sessions : IsRoleRegistration(c, s) /\ c.roles[s].workflow = w}

(* Slip: the registrations of the workflow are left behind. *)
WithoutLock(c, w) == [c EXCEPT !.locks[w] = None]

WithoutWorkflow(c, w) == [WithoutRoles(c, RolesOf(c, w)) EXCEPT !.locks[w] = None]

(* orphanedRegistrationKeys: those of one workflow, or, when none is named, *)
(* those whose workflow has no lock.                                        *)
Orphans(c, w) ==
  IF w # None THEN RolesOf(c, w)
  ELSE {s \in Sessions : /\ IsRoleRegistration(c, s)
                         /\ c.roles[s].workflow # None
                         /\ ~IsWorkflowLock(c, c.roles[s].workflow)}

(***************************************************************************)
(* The hook.  A tool call carries a session, the role the host says it is  *)
(* for, the kind of tool, the role it would dispatch, where it writes or   *)
(* runs, and whether a git command in it is forbidden.                     *)
(***************************************************************************)
ToolCalls == [session : Sessions \cup {None}, host : Roles \cup {None}, project : Projects,
              tool : {"delegate", "edit", "shell", "other"}, requested : Roles \cup {None},
              where : {"inside", "outside", "unnamed"}, forbidden : BOOLEAN]

Changes(e) == e.tool \in {"edit", "shell"}

RegistrationsForHostRole(c, role, p) ==
  {s \in Sessions : IsRoleRegistration(c, s) /\ c.roles[s].role = role /\ c.roles[s].project = p}

WorkflowLocksForProject(c, p) ==
  {w \in Workflows : IsWorkflowLock(c, w) /\ c.locks[w].project = p}

Direct(c, e) == IF e.session = None THEN None ELSE c.roles[e.session]

RegistrationOf(c, e) ==
  LET candidates == RegistrationsForHostRole(c, e.host, e.project)
  IN CASE Direct(c, e) # None -> Direct(c, e)
       [] Direct(c, e) = None /\ e.host # None /\ Cardinality(candidates) = 1 ->
            c.roles[CHOOSE s \in candidates : TRUE]
       [] OTHER -> None

RoleOf(c, e) == IF Direct(c, e) # None THEN Direct(c, e).role ELSE e.host

IdentityIsClear(c, e) ==
  /\ Direct(c, e) # None /\ e.host # None => Direct(c, e).role = e.host
  /\ Direct(c, e) = None /\ e.host # None =>
       Cardinality(RegistrationsForHostRole(c, e.host, e.project)) <= 1

(* worktreeForWorkflow, of the workflow the registration names. *)
HasWorktree(c, r) == r.workflow # None /\ IsWorkflowLock(c, r.workflow) /\ c.locks[r.workflow].tree

MainSessionMay(c, e) ==
  /\ e.tool = "delegate" /\ e.requested # None =>
       Cardinality(RegistrationsForHostRole(c, e.requested, e.project)) = 1
  /\ WorkflowLocksForProject(c, e.project) # {} =>
       /\ ~Changes(e)
       /\ e.tool = "delegate" => e.requested # None

ExecutorMay(c, e, r) ==
  /\ r = None => ~Changes(e)
  /\ e.tool = "shell" => ~e.forbidden
  /\ r # None /\ Changes(e) => ~(HasWorktree(c, r) /\ e.where = "outside")

RoleMay(c, e) ==
  LET role == RoleOf(c, e)
  IN /\ e.tool # "delegate"
     /\ role \in ReadOnlyRoles => ~Changes(e)
     /\ role = "executor" => ExecutorMay(c, e, RegistrationOf(c, e))

HookAllows(c, e) ==
  /\ IdentityIsClear(c, e)
  /\ IF RoleOf(c, e) = None THEN MainSessionMay(c, e) ELSE RoleMay(c, e)
=============================================================================
