---------------------------- MODULE RoleSessions ----------------------------
(***************************************************************************)
(* The MCP servers of one data directory (mcp/src/server.ts) and the role  *)
(* registry they share, which the hooks read.  A server reads the file,    *)
(* changes its copy and writes the whole back: to a temporary file of a    *)
(* fixed name, which then takes the place of the old file.  Nothing locks  *)
(* it, so writes of two servers interleave.  A server here runs one call   *)
(* at a time; calls of one process that overlap are those of two servers.  *)
(*                                                                         *)
(* A file is known by its inode: a server that has opened the temporary    *)
(* file goes on writing to it after another renamed it to the registry.    *)
(***************************************************************************)
EXTENDS RoleRegistry, ArchitecturePlan

CONSTANTS
  Servers, ProjectOf,
  Missing, Empty, Torn, \* no file; one cut to nothing; one that does not parse
  Registrable,     \* the roles registered in this instance
  Plans,           \* the plans an architect submits
  MaxCalls,        \* tool calls in a behaviour
  MaxFaults        \* exits, failing writes and lost answers in a behaviour

ASSUME ServersAssumption ==
  /\ ProjectOf \in [Servers -> Projects] /\ Registrable \subseteq Roles
  /\ MaxCalls \in Nat /\ MaxFaults \in Nat

ASSUME FilesAssumption ==
  /\ \A file \in {Missing, Empty, Torn} : file \notin Contents
  /\ Missing # Empty /\ Missing # Torn /\ Empty # Torn

VARIABLES
  registry, temporary, \* role-sessions.json and role-sessions.json.tmp
  call,                \* the call a server is in
  workflow,            \* the workflow in the daemon
  history,             \* what calls have brought about, or left undone
  granted,             \* the sessions ever registered, with role and workflow
  submissions,         \* what the daemon was handed for a role: kind, session, workflow
  executable,          \* whether every plan handed to the daemon can be carried out
  calm,                \* no call has read the registry while another was writing it, and
                       \* no write has failed with the file away
  calls, faults

vars == <<registry, temporary, call, workflow, history, granted, submissions, executable,
          calm, calls, faults>>

Idle == [pc |-> "idle", tool |-> "none", write |-> "none", workflow |-> None, session |-> None,
         role |-> None, result |-> "none", at |-> "nowhere", copy |-> Nothing]

Init ==
  /\ registry = Missing /\ temporary = Missing
  /\ call = [s \in Servers |-> Idle]
  /\ workflow = [w \in Workflows |-> [state |-> "none", project |-> None]]
  /\ history = [recorded |-> {}, ended |-> {}, swept |-> {}, astray |-> {}]
  /\ granted = {} /\ submissions = {} /\ executable = TRUE
  /\ calm = TRUE /\ calls = 0 /\ faults = 0

Parsed(file) == IF file \in {Missing, Empty, Torn} THEN Nothing ELSE file

InWrite(s) == call[s].pc \in {"open", "write", "remove", "rename"}

(***************************************************************************)
(* callTool: the arguments, and the first thing the tool waits for.        *)
(***************************************************************************)
Begin(s, next) ==
  /\ call[s].pc = "idle" /\ calls < MaxCalls
  /\ call' = [call EXCEPT ![s] = next]
  /\ calls' = calls + 1
  /\ UNCHANGED <<registry, temporary, workflow, history, granted, submissions, executable,
                 calm, faults>>

Started == {w \in Workflows : workflow[w].state # "none"}

(* The workflows whose start is still under way. *)
Starting == {call[t].workflow : t \in {t \in Servers : call[t].tool = "start"}}

CycleStart(s) == Begin(s, [Idle EXCEPT !.pc = "daemon", !.tool = "start"])

CycleControl(s) ==
  \E op \in {"status", "cancel", "recovery"}, w \in Started \cup {None} :
    Begin(s, [Idle EXCEPT !.pc = "daemon", !.tool = op, !.workflow = w])

(* prepare_worktree and promote_candidate: of a workflow that has got as far *)
(* as that, which takes an architect registered against its lock.            *)
CycleWork(s) ==
  \E tool \in {"prepare", "promote"}, w \in Started \ Starting :
    Begin(s, [Idle EXCEPT !.pc = "daemon", !.tool = tool, !.workflow = w])

CycleRoleRegister(s) ==
  \E session \in Sessions, role \in Registrable, w \in Started \cup {None} :
    Begin(s, [Idle EXCEPT !.pc = "read", !.tool = "register", !.write = "register",
                             !.workflow = w, !.session = session, !.role = role])

CycleRoleRevoke(s) ==
  \E session \in Sessions :
    Begin(s, [Idle EXCEPT !.pc = "read", !.tool = "revoke", !.write = "revoke", !.session = session])

(* Slip: any role may submit anything. *)
AnyRole(kind) == Roles

ExpectedRoles(kind) ==
  CASE kind = "architecture" -> {"architect"}
    [] kind = "review" -> {"functional_reviewer", "security_reviewer"}
    [] kind = "arbitration" -> {"arbiter"}

CycleSubmit(s) ==
  \E kind \in {"architecture", "review", "arbitration"}, session \in Sessions, w \in Started :
    /\ ExpectedRoles(kind) \cap Registrable # {}
    /\ Begin(s, [Idle EXCEPT !.pc = "check", !.tool = kind, !.workflow = w, !.session = session])

(* requireRoleSession, of a registry that is read once. *)
RequireRoleSession(s) ==
  LET c == call[s]
      r == Parsed(registry).roles[c.session]
      active == /\ r # None
                /\ r.role \in ExpectedRoles(c.tool)
                /\ r.project = ProjectOf[s] /\ r.workflow = c.workflow
  IN /\ c.pc = "check"
     /\ call' = [call EXCEPT ![s] = IF active THEN [c EXCEPT !.pc = "daemon"] ELSE Idle]
     /\ UNCHANGED <<registry, temporary, workflow, history, granted, submissions, executable,
                    calm, calls, faults>>

(***************************************************************************)
(* How a call goes on: c is the call, as it is when it has got that far.   *)
(***************************************************************************)
(* Slip: recovery sweeps only after the daemon agreed. *)
ThrowNow(c) == Idle

(* The call fails; the sweep of a recovery sits in a finally. *)
Throw(c) ==
  IF c.tool = "recovery" /\ c.write # "sweep"
  THEN [c EXCEPT !.pc = "read", !.write = "sweep", !.result = "refused"]
  ELSE Idle

(* A recovery that is over has released the workflow it named. *)
Over(s) == IF call[s].tool = "recovery" /\ call'[s].pc = "idle" THEN {call[s].workflow} ELSE {}

Finish(s, c, others) ==
  LET sweeps == c.tool = "recovery" /\ c.write # "sweep"
      ended == c.result = "ended" /\ c.workflow # None /\ ~sweeps
  IN /\ call' = [others EXCEPT ![s] =
                   IF sweeps THEN [c EXCEPT !.pc = "read", !.write = "sweep"] ELSE Idle]
     /\ history' = [history EXCEPT
          !.recorded = IF c.tool = "prepare" THEN @ \cup {c.workflow} ELSE @,
          !.ended = IF ended THEN @ \cup {c.workflow} ELSE @,
          !.swept = IF c.write = "register" THEN @ \ {c.workflow} ELSE @ \cup Over(s)]

(***************************************************************************)
(* What the daemon answers.  It may refuse anything; an answer may be lost *)
(* after the daemon acted.                                                 *)
(***************************************************************************)
Answered(s, c) ==
  /\ IF c.pc = "done" THEN Finish(s, c, call)
     ELSE call' = [call EXCEPT ![s] = c] /\ UNCHANGED history
  /\ UNCHANGED <<registry, temporary, granted, calm, calls, faults>>

AnswerLost(s, astray) ==
  /\ faults < MaxFaults /\ faults' = faults + 1
  /\ call' = [call EXCEPT ![s] = Throw(call[s])]
  /\ history' = [history EXCEPT !.astray = @ \cup astray, !.swept = @ \cup Over(s)]
  /\ UNCHANGED <<registry, temporary, granted, calm, calls>>

DaemonRefuses(s) ==
  /\ call[s].pc = "daemon"
  /\ call' = [call EXCEPT ![s] = Throw(call[s])]
  /\ history' = [history EXCEPT !.swept = @ \cup Over(s)]
  /\ UNCHANGED <<registry, temporary, workflow, granted, submissions, executable,
                 calm, calls, faults>>

Mine(s, w) == workflow[w].project = ProjectOf[s]

StartWorkflow(s) ==
  \E w \in Workflows :
    /\ call[s].pc = "daemon" /\ call[s].tool = "start"
    /\ workflow[w].state = "none"
    /\ workflow' = [workflow EXCEPT ![w] = [state |-> "active", project |-> ProjectOf[s]]]
    /\ \/ Answered(s, [call[s] EXCEPT !.pc = "read", !.write = "lock", !.workflow = w,
                                      !.result = "active"])
       \/ AnswerLost(s, {w})
    /\ UNCHANGED <<submissions, executable>>

(* unlockWorkflow follows when the caller named the workflow and it ended. *)
Outcome(c, state) ==
  IF state = "ended" /\ c.workflow # None
  THEN [c EXCEPT !.pc = "read", !.write = "unlock", !.result = state]
  ELSE [c EXCEPT !.pc = "done", !.result = state]

(* The states a request can leave the workflow in. *)
After(tool, state) ==
  CASE tool = "status" -> {state}
    [] tool = "cancel" -> IF state = "active" THEN {"ended"} ELSE {}
    [] tool \in {"recovery", "promote"} -> IF state = "active" THEN {"active", "ended"} ELSE {state}

Control(s) ==
  \E w \in Workflows :
    /\ call[s].pc = "daemon" /\ call[s].tool \in {"status", "cancel", "recovery", "promote"}
    /\ call[s].workflow \in {None, w} /\ Mine(s, w) /\ workflow[w].state # "none"
    /\ \E state \in After(call[s].tool, workflow[w].state) :
         /\ workflow' = [workflow EXCEPT ![w].state = state]
         /\ \/ Answered(s, Outcome(call[s], state))
            \/ AnswerLost(s, {})
    /\ UNCHANGED <<submissions, executable>>

PrepareWorktree(s) ==
  /\ call[s].pc = "daemon" /\ call[s].tool = "prepare"
  /\ Mine(s, call[s].workflow) /\ workflow[call[s].workflow].state = "active"
  /\ \/ Answered(s, [call[s] EXCEPT !.pc = "read", !.write = "tree", !.result = "active"])
     \/ AnswerLost(s, {})
  /\ UNCHANGED <<workflow, submissions, executable>>

(* Only what validateArchitecturePlan lets through is forwarded. *)
Forwarded == {plan \in Plans : ValidateArchitecturePlan(plan)}

Submit(s) ==
  LET c == call[s]
  IN /\ c.pc = "daemon" /\ c.tool \in {"architecture", "review", "arbitration"}
     /\ Mine(s, c.workflow) /\ workflow[c.workflow].state = "active"
     /\ submissions' = submissions \cup {[kind |-> c.tool, session |-> c.session,
                                          workflow |-> c.workflow]}
     /\ IF c.tool # "architecture" THEN UNCHANGED executable
        ELSE \E plan \in Forwarded : executable' = (executable /\ Executable(plan))
     /\ Answered(s, [c EXCEPT !.pc = "done", !.result = "active"]) \/ AnswerLost(s, {})
     /\ UNCHANGED workflow

(***************************************************************************)
(* readRegistry and writeRegistry.                                         *)
(***************************************************************************)
(* cycle_role_register asks for a lock of the same project. *)
MayRegister(s, c, old) ==
  c.workflow # None => /\ IsWorkflowLock(old, c.workflow)
                       /\ old.locks[c.workflow].project = ProjectOf[s]

(* recordWorktree and the sweep write only if there is something to write. *)
IsWritten(c, old) ==
  CASE c.write = "tree" -> IsWorkflowLock(old, c.workflow)
    [] c.write = "sweep" -> Orphans(old, c.workflow) # {}
    [] OTHER -> TRUE

Changed(s, c, old) ==
  CASE c.write = "lock" -> WithLock(old, c.workflow, ProjectOf[s])
    [] c.write = "tree" -> WithWorktree(old, c.workflow)
    [] c.write = "unlock" -> WithoutWorkflow(old, c.workflow)
    [] c.write = "sweep" -> WithoutRoles(old, Orphans(old, c.workflow))
    [] c.write = "revoke" -> WithoutRoles(old, {c.session})
    [] c.write = "register" ->
         WithRole(old, c.session, [role |-> c.role, project |-> ProjectOf[s],
                                   workflow |-> c.workflow])

(* A workflow another call ended before its start came to lock it. *)
LateLock(c) ==
  IF c.write = "lock" /\ workflow[c.workflow].state = "ended" THEN {c.workflow} ELSE {}

ReadRegistry(s) ==
  LET c == call[s]
      old == Parsed(registry)
      denied == c.write = "register" /\ ~MayRegister(s, c, old)
      writes == ~denied /\ IsWritten(c, old)
  IN /\ c.pc = "read"
     /\ CASE denied -> call' = [call EXCEPT ![s] = Idle] /\ UNCHANGED history
          [] writes -> /\ call' = [call EXCEPT ![s] = [c EXCEPT !.pc = "open",
                                                               !.copy = Changed(s, c, old)]]
                       /\ history' = [history EXCEPT !.astray = @ \cup LateLock(c)]
          [] OTHER -> Finish(s, c, call)
     /\ calm' = (calm /\ \A t \in Servers \ {s} : ~InWrite(t))
     /\ UNCHANGED <<registry, temporary, workflow, granted, submissions, executable, calls, faults>>

(* The temporary file is created, or cut to nothing. *)
OpenTemporary(s) ==
  /\ call[s].pc = "open"
  /\ temporary' = Empty
  /\ call' = [call EXCEPT ![s].pc = "write", ![s].at = "temporary"]
  /\ UNCHANGED <<registry, workflow, history, granted, submissions, executable, calm, calls, faults>>

(* Over what another server wrote in the meantime a shorter text leaves a *)
(* tail that does not parse.                                              *)
Written(file, copy) == IF file = Empty THEN {copy} ELSE {copy, Torn}

WriteTemporary(s) ==
  LET c == call[s]
  IN /\ c.pc = "write"
     /\ call' = [call EXCEPT ![s].pc = "remove", ![s].at = "nowhere"]
     /\ CASE c.at = "temporary" -> temporary' \in Written(temporary, c.copy) /\ UNCHANGED registry
          [] c.at = "registry" -> registry' \in Written(registry, c.copy) /\ UNCHANGED temporary
          [] OTHER -> UNCHANGED <<registry, temporary>>
     /\ granted' = IF c.write # "register" THEN granted
                   ELSE granted \cup {[session |-> c.session, role |-> c.role,
                                       workflow |-> c.workflow]}
     /\ UNCHANGED <<workflow, history, submissions, executable, calm, calls, faults>>

RemoveRegistry(s) ==
  /\ call[s].pc = "remove"
  /\ registry' = Missing
  /\ call' = [t \in Servers |->
       CASE t = s -> [call[t] EXCEPT !.pc = "rename"]
         [] t # s /\ call[t].at = "registry" -> [call[t] EXCEPT !.at = "nowhere"]
         [] OTHER -> call[t]]
  /\ UNCHANGED <<temporary, workflow, history, granted, submissions, executable, calm, calls, faults>>

(* Who has the temporary file open has the registry open from now on. *)
RenameTemporary(s) ==
  LET c == call[s]
      renamed == [t \in Servers |->
        [call[t] EXCEPT !.at = CASE @ = "temporary" -> "registry" [] OTHER -> "nowhere"]]
  IN /\ c.pc = "rename" /\ temporary # Missing
     /\ registry' = temporary /\ temporary' = Missing
     /\ Finish(s, c, renamed)
     /\ UNCHANGED <<workflow, granted, submissions, executable, calm, calls, faults>>

(* Slip: the workflow goes on without its lock. *)
FailedWriteGoesOn(s) ==
  /\ call' = [call EXCEPT ![s] = Throw(call[s])]
  /\ calm' = (calm /\ call[s].pc # "rename")
  /\ UNCHANGED <<registry, temporary, workflow, history, granted, submissions, executable, calls>>

(* A write fails; without a lock the workflow it is for is not to go on. *)
FailedWrite(s) ==
  /\ call' = [call EXCEPT ![s] = IF call[s].write = "lock" THEN [call[s] EXCEPT !.pc = "cancel"]
                                 ELSE Throw(call[s])]
  /\ calm' = (calm /\ call[s].pc # "rename")
  /\ UNCHANGED <<registry, temporary, workflow, history, granted, submissions, executable, calls>>

NothingToRename(s) ==
  /\ call[s].pc = "rename" /\ temporary = Missing
  /\ FailedWrite(s)
  /\ UNCHANGED faults

WriteFails(s) ==
  /\ InWrite(s) /\ faults < MaxFaults
  /\ FailedWrite(s)
  /\ faults' = faults + 1

(* The cancel of cycle_start; what comes of it is not looked at. *)
CancelStarted(s) ==
  /\ call[s].pc = "cancel"
  /\ call' = [call EXCEPT ![s] = Idle]
  /\ \/ /\ workflow' = [workflow EXCEPT ![call[s].workflow].state = "ended"]
        /\ UNCHANGED <<history, faults>>
     \/ /\ faults < MaxFaults /\ faults' = faults + 1
        /\ history' = [history EXCEPT !.astray = @ \cup {call[s].workflow}]
        /\ UNCHANGED workflow
  /\ UNCHANGED <<registry, temporary, granted, submissions, executable, calm, calls>>

(* stdin closes, or the process is killed: whatever it was doing ends. *)
Exit(s) ==
  /\ call[s].pc # "idle" /\ faults < MaxFaults
  /\ call' = [call EXCEPT ![s] = Idle]
  /\ calm' = (calm /\ call[s].pc # "rename")
  /\ faults' = faults + 1
  /\ history' = [history EXCEPT !.astray =
                   @ \cup (Starting \cap {call[s].workflow})]
  /\ UNCHANGED <<registry, temporary, workflow, granted, submissions, executable, calls>>

Next ==
  \E s \in Servers :
    \/ CycleStart(s) \/ CycleControl(s) \/ CycleWork(s) \/ CycleRoleRegister(s)
    \/ CycleRoleRevoke(s) \/ CycleSubmit(s) \/ RequireRoleSession(s)
    \/ DaemonRefuses(s) \/ StartWorkflow(s) \/ Control(s) \/ PrepareWorktree(s) \/ Submit(s)
    \/ ReadRegistry(s) \/ OpenTemporary(s) \/ WriteTemporary(s) \/ RemoveRegistry(s)
    \/ RenameTemporary(s) \/ NothingToRename(s) \/ WriteFails(s) \/ CancelStarted(s) \/ Exit(s)

Spec == Init /\ [][Next]_vars

-----------------------------------------------------------------------------
(***************************************************************************)
(* Properties.                                                             *)
(***************************************************************************)
Files == Contents \cup {Missing, Empty, Torn}

Pcs == {"idle", "check", "daemon", "read", "open", "write", "remove", "rename", "cancel"}

(* The shape of the state. *)
TypeOK ==
  /\ registry \in Files /\ temporary \in Files
  /\ \A s \in Servers : /\ call[s].pc \in Pcs
                        /\ call[s].copy \in Contents
                        /\ call[s].at \in {"nowhere", "temporary", "registry"}
  /\ \A w \in Workflows : /\ workflow[w].state \in {"none", "active", "ended"}
                          /\ workflow[w].project = None <=> workflow[w].state = "none"
  /\ calm \in BOOLEAN /\ executable \in BOOLEAN
  /\ calls \in 0..MaxCalls /\ faults \in 0..MaxFaults

(* A registration that names a workflow never outlives the workflow's     *)
(* lock, in no file and no copy, however the writes of servers overlap,   *)
(* fail or are cut off (server.ts 123-130, 305-309): the sweep of a        *)
(* recovery of the whole project finds nothing.                            *)
RegistrationsHaveLocks ==
  \A c \in {Parsed(registry), Parsed(temporary)} \cup {call[s].copy : s \in Servers} :
    Orphans(c, None) = {}

(* The file is where it belongs, and no write has undone another's. *)
Undisturbed == calm /\ \A s \in Servers : call[s].pc # "rename"

MainSession(p, tool) ==
  [session |-> None, host |-> None, project |-> p, tool |-> tool, requested |-> None,
   where |-> "outside", forbidden |-> FALSE]

(* While a workflow that was started is active, the hook, where the host   *)
(* consults it (not inside dispatched roles, pre-tool-use.js 4-17), lets   *)
(* the main session change nothing, and an executor of the workflow        *)
(* nothing outside the worktree that its caller was given (server.ts       *)
(* 201-228, 354-363, pre-tool-use.js 420-560; "locks main-session mutation *)
(* until terminal cleanup", server.ts 609).                                *)
ActiveIsGuarded ==
  Undisturbed => \A w \in Workflows \ (history.astray \cup Starting) :
    workflow[w].state = "active" =>
      LET c == Parsed(registry)
          p == workflow[w].project
      IN \A tool \in {"edit", "shell"} :
           /\ ~HookAllows(c, MainSession(p, tool))
           /\ w \in history.recorded =>
                \A s \in RolesOf(c, w), host \in {None, "executor"} :
                  c.roles[s].role = "executor" =>
                    ~HookAllows(c, [MainSession(p, tool) EXCEPT !.session = s, !.host = host])

(* What a call has released stays released: after a caller has been told   *)
(* of the end of the workflow it named, neither lock nor registration is   *)
(* left of it; after a recovery that named it, no registration but newer   *)
(* ones, whatever the daemon answered (server.ts 231-251, 463-475).        *)
ReleasedStaysReleased ==
  Undisturbed => \A w \in Workflows \ history.astray :
    /\ w \in history.ended => /\ ~IsWorkflowLock(Parsed(registry), w)
                              /\ RolesOf(Parsed(registry), w) = {}
    /\ w \in history.swept => RolesOf(Parsed(registry), w) = {}

Submitters ==
  [architecture |-> {"architect"}, review |-> {"functional_reviewer", "security_reviewer"},
   arbitration |-> {"arbiter"}]

(* The daemon is handed a plan, a review or an arbitration only for a      *)
(* session that was registered in that role for that very workflow, and a  *)
(* plan only if it can be carried out inside the worktree.                 *)
SubmissionsAreSound ==
  /\ executable
  /\ \A x \in submissions : \E g \in granted :
       g.session = x.session /\ g.workflow = x.workflow /\ g.role \in Submitters[x.kind]
=============================================================================
