------------------------- MODULE RoleSessionsProofs -------------------------
(***************************************************************************)
(* Proofs about the role registry and the servers that share it, for every *)
(* number of servers, projects, workflows, sessions, calls and failures.   *)
(*                                                                         *)
(* The argument: a call is only ever where its tool takes it (CallsMatch); *)
(* what a file or a copy holds was put there by the operators of the       *)
(* registry, each of which keeps registrations behind locks; and as long   *)
(* as no two writes overlapped and none failed with the file away (calm),  *)
(* the copy a call writes back is the registry with its own change made,   *)
(* so that what earlier calls put in order stays in order.                 *)
(***************************************************************************)
EXTENDS RoleSessions, TLAPS

(* The values a call takes; the type of the state. *)
Tools == {"none", "start", "status", "cancel", "recovery", "prepare", "promote", "register",
          "revoke", "architecture", "review", "arbitration"}
Controls == {"status", "cancel", "recovery", "promote"}
Submitting == {"architecture", "review", "arbitration"}
Writes == {"none", "lock", "tree", "unlock", "sweep", "revoke", "register"}
Results == {"none", "active", "ended", "refused"}
Places == {"nowhere", "temporary", "registry"}

CallType ==
  [pc : Pcs, tool : Tools, write : Writes, workflow : Workflows \cup {None},
   session : Sessions \cup {None}, role : Roles \cup {None}, result : Results, at : Places,
   copy : Contents]

HistoryType ==
  [recorded : SUBSET (Workflows \cup {None}), ended : SUBSET (Workflows \cup {None}),
   swept : SUBSET (Workflows \cup {None}), astray : SUBSET (Workflows \cup {None})]

WorkflowType == [state : {"none", "active", "ended"}, project : Projects \cup {None}]

StateOK ==
  /\ registry \in Files /\ temporary \in Files
  /\ call \in [Servers -> CallType]
  /\ workflow \in [Workflows -> WorkflowType]
  /\ \A w \in Workflows : workflow[w].project = None <=> workflow[w].state = "none"
  /\ history \in HistoryType
  /\ calm \in BOOLEAN /\ executable \in BOOLEAN
  /\ calls \in 0..MaxCalls /\ faults \in 0..MaxFaults

(* The workflow was started, or ended, in the daemon wf describes. *)
Knows(wf, w) == w \in Workflows /\ wf[w].state # "none"
Ends(wf, w) == w \in Workflows /\ wf[w].state = "ended"
Known(w) == Knows(workflow, w)
Ended(w) == Ends(workflow, w)

(* The call c of server s is one that its tool can be in: which write goes *)
(* with which tool, and what is known of the workflow it names.            *)
WritePcs == {"open", "write", "remove", "rename"}

Matches(c, s, wf, starting) ==
  /\ c.pc = "idle" => c = Idle
  /\ c.pc # "idle" => c.tool # "none"
  /\ c.pc = "check" => /\ c.tool \in Submitting /\ c.session \in Sessions
                       /\ c.write = "none" /\ c.result = "none"
  /\ c.pc = "daemon" => /\ c.write = "none" /\ c.result = "none"
                        /\ c.tool = "start" => c.workflow = None
                        /\ c.tool \notin {"register", "revoke"}
                        /\ c.tool \in Submitting => c.session \in Sessions
  /\ c.pc = "cancel" => c.write = "lock"
  /\ c.pc \in {"read"} \cup WritePcs => c.write # "none"
  /\ c.write = "lock" => c.tool = "start" /\ Knows(wf, c.workflow) /\
                         wf[c.workflow].project = ProjectOf[s]
  /\ c.tool = "start" => c.write = "lock" \/ c.pc = "daemon"
  /\ c.write = "tree" <=> c.tool = "prepare" /\ c.pc # "daemon"
  /\ c.write = "unlock" => c.tool \in Controls /\ Ends(wf, c.workflow) /\ c.result = "ended"
  /\ c.write = "sweep" => /\ c.tool = "recovery"
                          /\ c.result = "ended" /\ c.workflow # None => Ends(wf, c.workflow)
  /\ c.result = "ended" => c.write \in {"unlock", "sweep"}
  /\ c.write = "register" <=> c.tool = "register"
  /\ c.write = "register" => c.session \in Sessions /\ c.role \in Roles
  /\ c.write = "revoke" <=> c.tool = "revoke"
  /\ c.write = "revoke" => c.session \in Sessions
  /\ c.tool \in Submitting => c.pc \in {"check", "daemon"} /\ c.workflow \in Workflows
  /\ c.tool = "prepare" => Knows(wf, c.workflow) /\ c.workflow \notin starting
ToolMatches(s) == Matches(call[s], s, workflow, Starting)
CallsMatch == \A s \in Servers : ToolMatches(s)

(* Every registration a content holds was made by cycle_role_register;     *)
(* that of a register call counts from the time it is written.             *)
GrantedIn(content, grants) ==
  \A x \in Sessions : IsRoleRegistration(content, x) =>
    [session |-> x, role |-> content.roles[x].role, workflow |-> content.roles[x].workflow]
      \in grants
New(s) ==
  IF call[s].write = "register" /\ call[s].pc \in {"open", "write"}
  THEN {[session |-> call[s].session, role |-> call[s].role, workflow |-> call[s].workflow]}
  ELSE {}
RegistrationsWereGranted ==
  /\ GrantedIn(Parsed(registry), granted) /\ GrantedIn(Parsed(temporary), granted)
  /\ \A s \in Servers : GrantedIn(call[s].copy, granted \cup New(s))

(* A submission that was let through names a session that held the role. *)
CheckedWereGranted ==
  \A s \in Servers : call[s].tool \in Submitting /\ call[s].pc = "daemon" =>
    \E g \in granted : /\ g.session = call[s].session /\ g.workflow = call[s].workflow
                       /\ g.role \in Submitters[call[s].tool]

(* While calm: one call writes at a time, and the temporary file is what   *)
(* it has written so far.                                                  *)
OneWriter == \A s, t \in Servers : InWrite(s) /\ InWrite(t) => s = t
TemporaryFollows ==
  \A s \in Servers :
    /\ call[s].pc = "write" => call[s].at = "temporary" /\ temporary = Empty
    /\ call[s].pc \in {"remove", "rename"} => temporary = call[s].copy

(* A content that guards, or has released, a workflow. *)
LockedIn(content, w, wf, recorded) ==
  /\ IsWorkflowLock(content, w) /\ content.locks[w].project = wf[w].project
  /\ w \in recorded => content.locks[w].tree
Locked(content, w) == LockedIn(content, w, workflow, history.recorded)
Released(content, w) == ~IsWorkflowLock(content, w) /\ RolesOf(content, w) = {}

(* Somebody was told of the end of w, or is a recovery that was. *)
Told(w) ==
  \/ w \in history.ended
  \/ \E s \in Servers : call[s].write = "sweep" /\ call[s].result = "ended" /\ call[s].workflow = w

Renaming == \E s \in Servers : call[s].pc = "rename"

(* The registry says of w what the calls that are over brought about. *)
RegistryInOrder(w) ==
  LET content == Parsed(registry)
  IN /\ workflow[w].state = "active" /\ w \notin Starting => Locked(content, w)
     /\ Told(w) => Released(content, w)
     /\ w \in history.swept => RolesOf(content, w) = {}

(* So does the copy a call is writing, and it has made its own change. *)
CopyInOrder(s, w) ==
  LET c == call[s]
  IN /\ workflow[w].state = "active" /\ (w \notin Starting \/ (c.write = "lock" /\ c.workflow = w)) =>
          Locked(c.copy, w) 
     /\ c.write = "tree" /\ c.workflow = w => c.copy.locks[w].tree
     /\ (c.write = "unlock" /\ c.workflow = w) \/ Told(w) => Released(c.copy, w)
     /\ c.write = "sweep" /\ c.workflow = w => RolesOf(c.copy, w) = {}
     /\ w \in history.swept => RolesOf(c.copy, w) = {} \/ (c.write = "register" /\ c.workflow = w)

ContentsInOrder ==
  \A w \in Workflows \ history.astray :
    /\ ~Renaming => RegistryInOrder(w)
    /\ \A s \in Servers : InWrite(s) => CopyInOrder(s, w)

(* Only workflows whose start is over have a worktree recorded. *)
RecordedIsOver ==
  /\ history.recorded \cap Starting \subseteq {None}
  /\ \A w \in history.recorded \cap Workflows : Known(w)
ToldIsEnded == \A w \in Workflows : Told(w) => Ended(w)

(* The inductive invariant. *)
InOrder == OneWriter /\ TemporaryFollows /\ ContentsInOrder
Calm == calm => InOrder
IInv ==
  /\ StateOK /\ CallsMatch
  /\ RegistrationsHaveLocks /\ RegistrationsWereGranted /\ CheckedWereGranted
  /\ RecordedIsOver /\ ToldIsEnded /\ Calm

(* A file that parses holds what it parses to. *)
LEMMA ContentsAreFiles ==
  ASSUME NEW file \in Files
  PROVE  Parsed(file) \in Contents /\ (file \in Contents => Parsed(file) = file)
  BY FilesAssumption DEF Files, Parsed, Nothing, Contents

(* The operators of role-registry.ts make contents of contents. *)
LEMMA RegistryOperators ==
  ASSUME NEW c \in Contents, NEW w \in Workflows
  PROVE  /\ \A p \in Projects : WithLock(c, w, p) \in Contents
         /\ IsWorkflowLock(c, w) => WithWorktree(c, w) \in Contents
         /\ \A s \in Sessions : \A r \in Registration : WithRole(c, s, r) \in Contents
         /\ \A S : WithoutRoles(c, S) \in Contents
         /\ WithoutWorkflow(c, w) \in Contents
<1>1. ASSUME NEW p \in Projects PROVE WithLock(c, w, p) \in Contents
  BY DEF WithLock, Contents, Lock
<1>2. ASSUME IsWorkflowLock(c, w) PROVE WithWorktree(c, w) \in Contents
  BY <1>2 DEF WithWorktree, IsWorkflowLock, Contents, Lock
<1>3. ASSUME NEW s \in Sessions, NEW r \in Registration PROVE WithRole(c, s, r) \in Contents
  BY DEF WithRole, Contents
<1>4. ASSUME NEW S PROVE WithoutRoles(c, S) \in Contents
  BY DEF WithoutRoles, Contents
<1>5. WithoutWorkflow(c, w) \in Contents
  BY <1>4 DEF WithoutWorkflow, Contents
<1>6. QED
  BY <1>1, <1>2, <1>3, <1>4, <1>5

(* The names of the steps, tools, writes, results and places. *)
LEMMA Names ==
  /\ \A p \in {"idle", "check", "daemon", "read", "open", "write", "remove", "rename", "cancel"} :
       p \in Pcs
  /\ "done" \notin Pcs
  /\ \A w \in {"none", "lock", "tree", "unlock", "sweep", "revoke", "register"} : w \in Writes
  /\ \A r \in {"none", "active", "ended", "refused"} : r \in Results
  /\ \A p \in {"nowhere", "temporary", "registry"} : p \in Places
  /\ \A t \in {"none", "start", "register", "revoke"} \cup Submitting : t \in Tools
  /\ \A t \in {"status", "cancel", "recovery", "prepare", "promote"} : t \in Tools
  BY DEF Pcs, Writes, Results, Places, Tools, Submitting

(* A server that is in no call, and all that are so to begin with. *)
LEMMA IdleIsACall == Idle \in CallType
  BY Names DEF Idle, CallType, Nothing, Contents

LEMMA InitialState == Init => StateOK
  BY ServersAssumption, IdleIsACall DEF Init, StateOK, Files, WorkflowType, HistoryType

(* A call as the code has it in hand before it waits or returns. *)
Going ==
  [pc : Pcs \cup {"done"}, tool : Tools, write : Writes, workflow : Workflows \cup {None},
   session : Sessions \cup {None}, role : Roles \cup {None}, result : Results, at : Places,
   copy : Contents]

(* The calls and the history have their types; so they have after a call   *)
(* finishes or throws.                                                     *)
CallsOK == call \in [Servers -> CallType]
HistoryOK == history \in HistoryType

LEMMA FinishTypes ==
  ASSUME CallsOK, HistoryOK, NEW s \in Servers, NEW c \in Going,
         NEW others \in [Servers -> CallType], Finish(s, c, others)
  PROVE  CallsOK' /\ HistoryOK'
<1>1. call' \in [Servers -> CallType]
  <2>1. [c EXCEPT !.pc = "read", !.write = "sweep"] \in CallType
    BY Names DEF Going, CallType
  <2>2. QED
    BY <2>1, IdleIsACall DEF Finish
<1>2. Over(s) \subseteq Workflows \cup {None} /\ c.workflow \in Workflows \cup {None}
  BY DEF CallsOK, Over, CallType, Going
<1>3. QED
  BY <1>1, <1>2 DEF Finish, HistoryOK, CallsOK, HistoryType

LEMMA ThrowIsACall ==
  ASSUME NEW c \in CallType PROVE Throw(c) \in CallType
  BY IdleIsACall, Names DEF Throw, CallType

(* Every step keeps the types of the whole state. *)
LEMMA StateStep == StateOK /\ CallsMatch /\ [Next]_vars => StateOK'
<1> SUFFICES ASSUME StateOK, CallsMatch, [Next]_vars PROVE StateOK'
  OBVIOUS
<1>1. CallsOK /\ HistoryOK
  BY DEF StateOK, CallsOK, HistoryOK
<1>2. ASSUME NEW s \in Servers, NEW next \in CallType, Begin(s, next) PROVE StateOK'
  <2>1. calls' \in 0..MaxCalls
    BY <1>2, ServersAssumption DEF StateOK, Begin
  <2>2. QED
    BY <1>2, <2>1 DEF StateOK, Begin
<1>3. ASSUME NEW s \in Servers,
             \/ CycleStart(s) \/ CycleControl(s) \/ CycleWork(s) \/ CycleRoleRegister(s)
             \/ CycleRoleRevoke(s) \/ CycleSubmit(s)
      PROVE  StateOK'
  <2>1. CASE CycleStart(s)
    <3>1. [Idle EXCEPT !.pc = "daemon", !.tool = "start"] \in CallType
      BY IdleIsACall, Names DEF CallType
    <3>2. QED
      BY <1>2, <2>1, <3>1 DEF CycleStart
  <2>2. ASSUME NEW tool \in {"status", "cancel", "recovery", "prepare", "promote"},
               NEW w \in Workflows \cup {None},
               Begin(s, [Idle EXCEPT !.pc = "daemon", !.tool = tool, !.workflow = w])
        PROVE  StateOK'
    <3>1. [Idle EXCEPT !.pc = "daemon", !.tool = tool, !.workflow = w] \in CallType
      BY IdleIsACall, Names DEF CallType
    <3>2. QED
      BY <1>2, <2>2, <3>1
  <2>3. ASSUME NEW session \in Sessions, NEW role \in Registrable, NEW w \in Started \cup {None},
               Begin(s, [Idle EXCEPT !.pc = "read", !.tool = "register", !.write = "register",
                             !.workflow = w, !.session = session, !.role = role])
        PROVE  StateOK'
    <3>1. [Idle EXCEPT !.pc = "read", !.tool = "register", !.write = "register",
                             !.workflow = w, !.session = session, !.role = role] \in CallType
      BY IdleIsACall, Names, ServersAssumption DEF CallType, Started
    <3>2. QED
      BY <1>2, <2>3, <3>1
  <2>4. CASE CycleRoleRevoke(s)
    <3>1. ASSUME NEW session \in Sessions
          PROVE  [Idle EXCEPT !.pc = "read", !.tool = "revoke", !.write = "revoke",
                              !.session = session] \in CallType
      BY IdleIsACall, Names DEF CallType
    <3>2. QED
      BY <1>2, <2>4, <3>1 DEF CycleRoleRevoke
  <2>5. CASE CycleSubmit(s)
    <3>1. ASSUME NEW kind \in Submitting, NEW session \in Sessions, NEW w \in Started
          PROVE  [Idle EXCEPT !.pc = "check", !.tool = kind, !.workflow = w,
                              !.session = session] \in CallType
      BY IdleIsACall, Names DEF CallType, Started
    <3>2. QED
      BY <1>2, <2>5, <3>1 DEF CycleSubmit, Submitting
  <2>6. QED
    BY <1>3, <2>1, <2>2, <2>3, <2>4, <2>5
    DEF CycleControl, CycleWork, CycleRoleRegister, Started
<1>4. ASSUME NEW s \in Servers, RequireRoleSession(s) PROVE StateOK'
  BY <1>4, IdleIsACall, Names DEF StateOK, RequireRoleSession, CallType
<1>5. ASSUME NEW s \in Servers, DaemonRefuses(s) PROVE StateOK'
  <2>1. Throw(call[s]) \in CallType /\ Over(s) \subseteq Workflows \cup {None}
    BY <1>1, ThrowIsACall DEF CallsOK, Over, CallType
  <2>2. QED
    BY <1>5, <2>1 DEF StateOK, DaemonRefuses, HistoryType
<1>6. ASSUME NEW s \in Servers, NEW c \in Going, Answered(s, c) PROVE CallsOK' /\ HistoryOK'
  <2>1. c.pc # "done" => c \in CallType
    BY DEF Going, CallType
  <2>2. CASE c.pc = "done"
    BY <1>1, <1>6, <2>2, FinishTypes DEF Answered, CallsOK
  <2>3. CASE c.pc # "done"
    BY <1>1, <1>6, <2>1, <2>3 DEF Answered, CallsOK, HistoryOK
  <2>4. QED
    BY <2>2, <2>3
<1>7. ASSUME NEW s \in Servers, NEW astray \in SUBSET Workflows, AnswerLost(s, astray)
      PROVE  CallsOK' /\ HistoryOK'
  <2>1. Throw(call[s]) \in CallType /\ Over(s) \subseteq Workflows \cup {None}
    BY <1>1, ThrowIsACall DEF CallsOK, Over, CallType
  <2>2. QED
    BY <1>1, <1>7, <2>1 DEF AnswerLost, CallsOK, HistoryOK, HistoryType
<1>8. ASSUME NEW s \in Servers, NEW c \in Going, NEW astray \in SUBSET Workflows,
             Answered(s, c) \/ AnswerLost(s, astray)
      PROVE  /\ CallsOK' /\ HistoryOK' /\ UNCHANGED <<registry, temporary, calm, calls>>
             /\ faults' \in 0..MaxFaults
  <2>1. faults' \in 0..MaxFaults
    BY <1>8, ServersAssumption DEF Answered, AnswerLost, StateOK
  <2>2. QED
    BY <1>6, <1>7, <1>8, <2>1 DEF Answered, AnswerLost
<1>9. ASSUME NEW s \in Servers, StartWorkflow(s) PROVE StateOK'
  <2>1. PICK w \in Workflows :
          /\ call[s].pc = "daemon" /\ call[s].tool = "start" /\ workflow[w].state = "none"
          /\ workflow' = [workflow EXCEPT ![w] = [state |-> "active", project |-> ProjectOf[s]]]
          /\ \/ Answered(s, [call[s] EXCEPT !.pc = "read", !.write = "lock", !.workflow = w,
                                      !.result = "active"])
             \/ AnswerLost(s, {w})
          /\ UNCHANGED <<submissions, executable>>
    BY <1>9 DEF StartWorkflow
  <2>2. [call[s] EXCEPT !.pc = "read", !.write = "lock", !.workflow = w, !.result = "active"] \in Going
    BY <1>1, Names DEF CallsOK, CallType, Going
  <2>3. /\ workflow' \in [Workflows -> WorkflowType]
        /\ \A v \in Workflows : workflow'[v].project = None <=> workflow'[v].state = "none"
    BY <2>1, ServersAssumption, NoneAssumption DEF StateOK, WorkflowType
  <2>4. QED
    BY <1>8, <2>1, <2>2, <2>3 DEF StateOK, CallsOK, HistoryOK
<1>10. ASSUME NEW s \in Servers, Control(s) PROVE StateOK'
  <2>1. PICK w \in Workflows : \E state \in After(call[s].tool, workflow[w].state) :
          /\ call[s].pc = "daemon" /\ call[s].tool \in Controls /\ workflow[w].state # "none"
          /\ workflow' = [workflow EXCEPT ![w].state = state]
          /\ Answered(s, Outcome(call[s], state)) \/ AnswerLost(s, {})
          /\ UNCHANGED <<submissions, executable>>
    BY <1>10 DEF Control, Controls
  <2>0. PICK state \in After(call[s].tool, workflow[w].state) :
          /\ workflow' = [workflow EXCEPT ![w].state = state]
          /\ Answered(s, Outcome(call[s], state)) \/ AnswerLost(s, {})
          /\ UNCHANGED <<submissions, executable>>
    BY <2>1
  <2>2. state \in {"active", "ended"}
    BY <2>1, <2>0 DEF After, StateOK, Controls, WorkflowType
  <2>3. Outcome(call[s], state) \in Going
    BY <1>1, <2>2, Names DEF Outcome, CallsOK, CallType, Going
  <2>4. /\ workflow' \in [Workflows -> WorkflowType]
        /\ \A v \in Workflows : workflow'[v].project = None <=> workflow'[v].state = "none"
    BY <2>1, <2>0, <2>2 DEF StateOK, WorkflowType
  <2>5. QED
    BY <1>8, <2>0, <2>1, <2>3, <2>4 DEF StateOK, CallsOK, HistoryOK
<1>11. ASSUME NEW s \in Servers, PrepareWorktree(s) PROVE StateOK'
  <2>1. [call[s] EXCEPT !.pc = "read", !.write = "tree", !.result = "active"] \in Going
    BY <1>1, Names DEF CallsOK, CallType, Going
  <2>2. QED
    BY <1>8, <1>11, <2>1 DEF PrepareWorktree, StateOK, CallsOK, HistoryOK
<1>12. ASSUME NEW s \in Servers, Submit(s) PROVE StateOK'
  <2>1. [call[s] EXCEPT !.pc = "done", !.result = "active"] \in Going
    BY <1>1, Names DEF CallsOK, CallType, Going
  <2>2. executable' \in BOOLEAN
    BY <1>12 DEF Submit, StateOK
  <2>3. /\ Answered(s, [call[s] EXCEPT !.pc = "done", !.result = "active"]) \/ AnswerLost(s, {})
        /\ UNCHANGED workflow
    BY <1>12 DEF Submit
  <2>4. QED
    BY <1>8, <2>1, <2>2, <2>3 DEF StateOK, CallsOK, HistoryOK
<1>13. ASSUME NEW s \in Servers, ReadRegistry(s) PROVE StateOK'
  <2> DEFINE c == call[s]
             old == Parsed(registry)
  <2>1. /\ c \in CallType /\ old \in Contents /\ c.pc = "read" /\ ToolMatches(s)
        /\ ProjectOf[s] \in Projects
    BY <1>13, ContentsAreFiles, ServersAssumption DEF StateOK, ReadRegistry, CallsMatch
  <2>2. ASSUME IsWritten(c, old) PROVE Changed(s, c, old) \in Contents
    <3>1. CASE c.write \in {"lock", "unlock"}
      <4>1. c.workflow \in Workflows
        BY <2>1, <3>1 DEF ToolMatches, Matches, Known, Knows, Ended, Ends
      <4>2. QED
        BY <2>1, <3>1, <4>1, RegistryOperators DEF Changed
    <3>2. CASE c.write = "tree"
      <4>1. c.workflow \in Workflows
        BY <2>1, <3>2 DEF ToolMatches, Matches, Known, Knows
      <4>2. QED
        BY <2>1, <2>2, <3>2, <4>1, RegistryOperators DEF Changed, IsWritten
    <3>3. CASE c.write \in {"sweep", "revoke"}
      BY <2>1, <3>3, RegistryOperators DEF Changed, WithoutRoles, Contents
    <3>4. CASE c.write = "register"
      <4>1. c.session \in Sessions /\ c.role \in Roles
        BY <2>1, <3>4 DEF ToolMatches, Matches
      <4>2. QED
        BY <2>1, <3>4, <4>1, RegistryOperators
        DEF Changed, WithRole, Registration, CallType, Contents
    <3>5. QED
      BY <2>1, <3>1, <3>2, <3>3, <3>4 DEF ToolMatches, Matches, CallType, Writes
  <2>3. LateLock(c) \subseteq Workflows
    BY <2>1 DEF LateLock, ToolMatches, Matches, Known, Knows
  <2>4. \/ call' = [call EXCEPT ![s] = Idle] /\ UNCHANGED history
        \/ /\ IsWritten(c, old)
           /\ call' = [call EXCEPT ![s] = [c EXCEPT !.pc = "open", !.copy = Changed(s, c, old)]]
           /\ history' = [history EXCEPT !.astray = @ \cup LateLock(c)]
        \/ Finish(s, c, call)
    BY <1>13 DEF ReadRegistry
  <2>5. CallsOK' /\ HistoryOK'
    <3>1. c \in Going
      BY <2>1 DEF CallType, Going
    <3>2. CASE Finish(s, c, call)
      BY <1>1, <3>1, <3>2, FinishTypes DEF CallsOK
    <3>3. CASE call' = [call EXCEPT ![s] = Idle] /\ UNCHANGED history
      BY <1>1, <3>3, IdleIsACall DEF CallsOK, HistoryOK
    <3>4. CASE /\ IsWritten(c, old)
               /\ call' = [call EXCEPT ![s] = [c EXCEPT !.pc = "open", !.copy = Changed(s, c, old)]]
               /\ history' = [history EXCEPT !.astray = @ \cup LateLock(c)]
      <4>1. [c EXCEPT !.pc = "open", !.copy = Changed(s, c, old)] \in CallType
        BY <2>1, <2>2, <3>4, Names DEF CallType
      <4>2. QED
        BY <1>1, <2>3, <3>4, <4>1 DEF CallsOK, HistoryOK, HistoryType
    <3>5. QED
      BY <2>4, <3>2, <3>3, <3>4
  <2>6. calm' \in BOOLEAN
    BY <1>13 DEF ReadRegistry
  <2>7. QED
    BY <1>13, <2>5, <2>6 DEF ReadRegistry, StateOK, CallsOK, HistoryOK
<1>14. ASSUME NEW s \in Servers, OpenTemporary(s) PROVE StateOK'
  <2>1. call' \in [Servers -> CallType]
    <3>1. call' = [call EXCEPT ![s] = [@ EXCEPT !.pc = "write", !.at = "temporary"]]
      BY <1>14 DEF OpenTemporary, StateOK
    <3>2. [call[s] EXCEPT !.pc = "write", !.at = "temporary"] \in CallType
      BY Names DEF StateOK, CallType
    <3>3. QED
      BY <3>1, <3>2 DEF StateOK
  <2>2. QED
    BY <1>14, <2>1 DEF OpenTemporary, StateOK, Files
<1>15. ASSUME NEW s \in Servers, WriteTemporary(s) PROVE StateOK'
  <2>1. call[s] \in CallType
    BY DEF StateOK
  <2>2. call' \in [Servers -> CallType]
    BY <1>15, <2>1, Names DEF WriteTemporary, StateOK, CallType
  <2>3. \A file : Written(file, call[s].copy) \subseteq Files
    BY <2>1 DEF Written, Files, CallType
  <2>4. registry' \in Files /\ temporary' \in Files
    BY <1>15, <2>3 DEF WriteTemporary, StateOK
  <2>5. QED
    BY <1>15, <2>2, <2>4 DEF WriteTemporary, StateOK
<1>16. ASSUME NEW s \in Servers, RemoveRegistry(s) PROVE StateOK'
  <2>1. call' \in [Servers -> CallType]
    BY <1>16, Names DEF RemoveRegistry, StateOK, CallType
  <2>2. QED
    BY <1>16, <2>1 DEF RemoveRegistry, StateOK, Files
<1>17. ASSUME NEW s \in Servers, RenameTemporary(s) PROVE StateOK'
  <2> DEFINE renamed == [t \in Servers |->
        [call[t] EXCEPT !.at = CASE @ = "temporary" -> "registry" [] OTHER -> "nowhere"]]
  <2>1. renamed \in [Servers -> CallType] /\ call[s] \in Going
    <3>1. ASSUME NEW t \in Servers PROVE renamed[t] \in CallType
      BY Names DEF StateOK, CallType
    <3>2. QED
      BY <3>1 DEF StateOK, CallType, Going
  <2>2. Finish(s, call[s], renamed)
    BY <1>17 DEF RenameTemporary
  <2>3. CallsOK' /\ HistoryOK'
    BY <1>1, <2>1, <2>2, FinishTypes
  <2>4. QED
    BY <1>17, <2>3 DEF RenameTemporary, StateOK, CallsOK, HistoryOK, Files
<1>18. ASSUME NEW s \in Servers, NothingToRename(s) \/ WriteFails(s) PROVE StateOK'
  <2>1. [call[s] EXCEPT !.pc = "cancel"] \in CallType /\ Throw(call[s]) \in CallType
    BY ThrowIsACall, Names DEF StateOK, CallType
  <2>2. call' \in [Servers -> CallType]
    BY <1>18, <2>1 DEF StateOK, NothingToRename, WriteFails, FailedWrite
  <2>3. faults' \in 0..MaxFaults
    BY <1>18, ServersAssumption DEF StateOK, NothingToRename, WriteFails
  <2>4. calm' \in BOOLEAN
    BY <1>18 DEF StateOK, NothingToRename, WriteFails, FailedWrite
  <2>5. QED
    BY <1>18, <2>2, <2>3, <2>4 DEF NothingToRename, WriteFails, FailedWrite, StateOK
<1>19. ASSUME NEW s \in Servers, CancelStarted(s) PROVE StateOK'
  <2>1. Known(call[s].workflow)
    BY <1>19 DEF CallsMatch, ToolMatches, Matches, Known, CancelStarted
  <2>2. /\ workflow' \in [Workflows -> WorkflowType]
        /\ \A v \in Workflows : workflow'[v].project = None <=> workflow'[v].state = "none"
    BY <1>19, <2>1 DEF StateOK, CancelStarted, Known, Knows, WorkflowType
  <2>3. CallsOK' /\ HistoryOK'
    BY <1>1, <1>19, <2>1, IdleIsACall
    DEF CancelStarted, CallsOK, HistoryOK, Known, Knows, HistoryType
  <2>4. faults' \in 0..MaxFaults
    BY <1>19, ServersAssumption DEF CancelStarted, StateOK
  <2>5. QED
    BY <1>19, <2>2, <2>3, <2>4 DEF CancelStarted, StateOK, CallsOK, HistoryOK
<1>20. ASSUME NEW s \in Servers, Exit(s) PROVE StateOK'
  <2>1. CallsOK' /\ HistoryOK'
    BY <1>1, <1>20, IdleIsACall DEF Exit, CallsOK, HistoryOK, CallType, HistoryType
  <2>2. calm' \in BOOLEAN /\ faults' \in 0..MaxFaults
    BY <1>20, ServersAssumption DEF Exit, StateOK
  <2>3. QED
    BY <1>20, <2>1, <2>2 DEF Exit, StateOK, CallsOK, HistoryOK
<1>21. CASE UNCHANGED vars
  BY <1>21 DEF StateOK, vars
<1>22. QED
  BY <1>3, <1>4, <1>5, <1>9, <1>10, <1>11, <1>12, <1>13, <1>14, <1>15, <1>16, <1>17, <1>18,
     <1>19, <1>20, <1>21
  DEF Next

(* The steps of a server, grouped. *)
Begins(s) ==
  \/ CycleStart(s) \/ CycleControl(s) \/ CycleWork(s) \/ CycleRoleRegister(s)
  \/ CycleRoleRevoke(s) \/ CycleSubmit(s)
Asks(s) == StartWorkflow(s) \/ Control(s) \/ PrepareWorktree(s) \/ Submit(s)
Fails(s) == NothingToRename(s) \/ WriteFails(s)
Step(s) ==
  \/ Begins(s) \/ RequireRoleSession(s) \/ DaemonRefuses(s) \/ Asks(s)
  \/ ReadRegistry(s) \/ OpenTemporary(s) \/ WriteTemporary(s) \/ RemoveRegistry(s)
  \/ RenameTemporary(s) \/ Fails(s) \/ CancelStarted(s) \/ Exit(s)

LEMMA StepsAreOfServers == Next <=> \E s \in Servers : Step(s)
  BY DEF Next, Step, Begins, Asks, Fails

(* A call as it begins. *)
Fresh(n) ==
  /\ n \in CallType /\ n.result = "none" /\ n.at = "nowhere" /\ n.copy = Nothing
  /\ \/ n.pc = "daemon" /\ n.tool = "start" /\ n.write = "none" /\ n.workflow = None
     \/ /\ n.pc = "daemon" /\ n.tool \in Controls /\ n.write = "none"
        /\ n.workflow \in Started \cup {None}
     \/ /\ n.pc = "daemon" /\ n.tool \in {"prepare", "promote"} /\ n.write = "none"
        /\ n.workflow \in Started \ Starting
     \/ /\ n.pc = "read" /\ n.tool = "register" /\ n.write = "register"
        /\ n.session \in Sessions /\ n.role \in Roles /\ n.workflow \in Started \cup {None}
     \/ /\ n.pc = "read" /\ n.tool = "revoke" /\ n.write = "revoke" /\ n.session \in Sessions
     \/ /\ n.pc = "check" /\ n.tool \in Submitting /\ n.write = "none" /\ n.session \in Sessions
        /\ n.workflow \in Started

(* A call begins where no other was, and touches nothing else. *)
LEMMA BeginsFresh ==
  ASSUME StateOK, NEW s \in Servers, Begins(s)
  PROVE  /\ Fresh(call'[s]) /\ call[s].pc = "idle"
         /\ call' = [call EXCEPT ![s] = call'[s]]
         /\ UNCHANGED <<registry, temporary, workflow, history, granted, submissions, executable,
                        calm, faults>>
<1>1. ASSUME NEW n, Fresh(n), Begin(s, n) 
      PROVE  Fresh(call'[s]) /\ call[s].pc = "idle" /\ call' = [call EXCEPT ![s] = call'[s]]
  BY <1>1 DEF Begin, StateOK
<1>2. UNCHANGED <<registry, temporary, workflow, history, granted, submissions, executable,
                  calm, faults>>
  BY DEF Begins, CycleStart, CycleControl, CycleWork, CycleRoleRegister, CycleRoleRevoke,
         CycleSubmit, Begin
<1>3. CASE CycleStart(s)
  <2> DEFINE n == [Idle EXCEPT !.pc = "daemon", !.tool = "start"]
  <2>1. Fresh(n)
    BY IdleIsACall, Names DEF Fresh, Idle, CallType
  <2>2. Begin(s, n)
    BY <1>3 DEF CycleStart
  <2> HIDE DEF n
  <2>3. QED
    BY <1>1, <1>2, <2>1, <2>2
<1>4. CASE CycleControl(s)
  <2>1. PICK op \in {"status", "cancel", "recovery"} : \E w \in Started \cup {None} :
         Begin(s, [Idle EXCEPT !.pc = "daemon", !.tool = op, !.workflow = w])
    BY <1>4 DEF CycleControl
  <2>2. PICK w \in Started \cup {None} :
         Begin(s, [Idle EXCEPT !.pc = "daemon", !.tool = op, !.workflow = w])
    BY <2>1
  <2> DEFINE n == [Idle EXCEPT !.pc = "daemon", !.tool = op, !.workflow = w]
  <2>3. Fresh(n)
    BY IdleIsACall, Names DEF Fresh, Idle, CallType, Controls, Started
  <2> HIDE DEF n
  <2>4. QED
    BY <1>1, <1>2, <2>2, <2>3 DEF n
<1>5. CASE CycleWork(s)
  <2>1. PICK op \in {"prepare", "promote"} : \E w \in Started \ Starting :
         Begin(s, [Idle EXCEPT !.pc = "daemon", !.tool = op, !.workflow = w])
    BY <1>5 DEF CycleWork
  <2>2. PICK w \in Started \ Starting :
         Begin(s, [Idle EXCEPT !.pc = "daemon", !.tool = op, !.workflow = w])
    BY <2>1
  <2> DEFINE n == [Idle EXCEPT !.pc = "daemon", !.tool = op, !.workflow = w]
  <2>3. Fresh(n)
    BY IdleIsACall, Names DEF Fresh, Idle, CallType, Started
  <2> HIDE DEF n
  <2>4. QED
    BY <1>1, <1>2, <2>2, <2>3 DEF n
<1>6. CASE CycleRoleRegister(s)
  <2>1. PICK session \in Sessions : \E role \in Registrable, w \in Started \cup {None} :
          Begin(s, [Idle EXCEPT !.pc = "read", !.tool = "register", !.write = "register",
                             !.workflow = w, !.session = session, !.role = role])
    BY <1>6 DEF CycleRoleRegister
  <2>2. PICK role \in Registrable : \E w \in Started \cup {None} :
          Begin(s, [Idle EXCEPT !.pc = "read", !.tool = "register", !.write = "register",
                             !.workflow = w, !.session = session, !.role = role])
    BY <2>1
  <2>3. PICK w \in Started \cup {None} :
          Begin(s, [Idle EXCEPT !.pc = "read", !.tool = "register", !.write = "register",
                             !.workflow = w, !.session = session, !.role = role])
    BY <2>2
  <2> DEFINE n == [Idle EXCEPT !.pc = "read", !.tool = "register", !.write = "register",
                             !.workflow = w, !.session = session, !.role = role]
  <2>4. Fresh(n)
    BY IdleIsACall, Names, ServersAssumption DEF Fresh, Idle, CallType, Started
  <2> HIDE DEF n
  <2>5. QED
    BY <1>1, <1>2, <2>3, <2>4 DEF n
<1>7. CASE CycleRoleRevoke(s)
  <2>1. PICK session \in Sessions :
          Begin(s, [Idle EXCEPT !.pc = "read", !.tool = "revoke", !.write = "revoke", !.session = session])
    BY <1>7 DEF CycleRoleRevoke
  <2> DEFINE n == [Idle EXCEPT !.pc = "read", !.tool = "revoke", !.write = "revoke", !.session = session]
  <2>2. Fresh(n)
    BY IdleIsACall, Names DEF Fresh, Idle, CallType
  <2> HIDE DEF n
  <2>3. QED
    BY <1>1, <1>2, <2>1, <2>2 DEF n
<1>8. CASE CycleSubmit(s)
  <2>1. PICK kind \in Submitting : \E session \in Sessions, w \in Started :
          Begin(s, [Idle EXCEPT !.pc = "check", !.tool = kind, !.workflow = w, !.session = session])
    BY <1>8 DEF CycleSubmit, Submitting
  <2>2. PICK session \in Sessions : \E w \in Started :
          Begin(s, [Idle EXCEPT !.pc = "check", !.tool = kind, !.workflow = w, !.session = session])
    BY <2>1
  <2>3. PICK w \in Started :
          Begin(s, [Idle EXCEPT !.pc = "check", !.tool = kind, !.workflow = w, !.session = session])
    BY <2>2
  <2> DEFINE n == [Idle EXCEPT !.pc = "check", !.tool = kind, !.workflow = w, !.session = session]
  <2>4. Fresh(n)
    BY IdleIsACall, Names DEF Fresh, Idle, CallType, Started
  <2> HIDE DEF n
  <2>5. QED
    BY <1>1, <1>2, <2>3, <2>4 DEF n
<1>9. QED
  BY <1>3, <1>4, <1>5, <1>6, <1>7, <1>8 DEF Begins

(* The call c, which is handed on, is the one server s made. *)
SameCall(c, s) ==
  /\ c \in Going /\ c.pc \in {"read", "done"}
  /\ c.pc = "done" =>
       /\ c.tool # "prepare" /\ c.write = call[s].write
       /\ (c.result = "ended" => c.workflow = None)
  /\ c.result = "ended" => c.workflow = None \/ c.write = "unlock"
  /\ c.tool = call[s].tool /\ c.session = call[s].session /\ c.role = call[s].role
  /\ c.copy = call[s].copy /\ c.at = call[s].at
  /\ c.workflow = call[s].workflow \/ StartWorkflow(s)

(* The daemon answered with such a call, or the answer was lost. *)
Handed(s) == \E c, astray : (Answered(s, c) \/ AnswerLost(s, astray)) /\ SameCall(c, s)

(* The daemon answers with the call c in hand, or the answer is lost. *)
LEMMA AskedCalls ==
  ASSUME StateOK, NEW s \in Servers, Asks(s)
  PROVE  call[s].pc = "daemon" /\ Handed(s) /\ UNCHANGED <<registry, temporary, granted, calm>>
<1>1. call[s] \in CallType
  BY DEF StateOK
<1>2. ASSUME NEW c, NEW astray, Answered(s, c) \/ AnswerLost(s, astray), SameCall(c, s)
      PROVE  Handed(s) /\ UNCHANGED <<registry, temporary, granted, calm>>
  <2>1. UNCHANGED <<registry, temporary, granted, calm>>
    BY <1>2 DEF Answered, AnswerLost
  <2>2. QED
    BY <1>2, <2>1 DEF Handed
<1>3. CASE StartWorkflow(s)
  <2>1. PICK w \in Workflows :
          /\ call[s].pc = "daemon"
          /\ \/ Answered(s, [call[s] EXCEPT !.pc = "read", !.write = "lock", !.workflow = w,
                                            !.result = "active"])
             \/ AnswerLost(s, {w})
    BY <1>3 DEF StartWorkflow
  <2> DEFINE c == [call[s] EXCEPT !.pc = "read", !.write = "lock", !.workflow = w,
                                  !.result = "active"]
  <2>2. SameCall(c, s)
    BY <1>1, <1>3, Names DEF SameCall, CallType, Going
  <2>3. Answered(s, c) \/ AnswerLost(s, {w})
    BY <2>1
  <2> HIDE DEF c
  <2>4. QED
    BY <1>2, <2>1, <2>2, <2>3
<1>4. CASE Control(s)
  <2>1. PICK w \in Workflows : \E state \in After(call[s].tool, workflow[w].state) :
          /\ call[s].pc = "daemon" /\ call[s].tool \in Controls /\ workflow[w].state # "none"
          /\ Answered(s, Outcome(call[s], state)) \/ AnswerLost(s, {})
    BY <1>4 DEF Control, Controls
  <2>2. PICK state \in After(call[s].tool, workflow[w].state) :
          Answered(s, Outcome(call[s], state)) \/ AnswerLost(s, {})
    BY <2>1
  <2>4. state \in {"active", "ended"}
    BY <2>1, <2>2 DEF After, StateOK, Controls, WorkflowType
  <2>5. SameCall(Outcome(call[s], state), s)
    BY <1>1, <2>1, <2>4, Names DEF SameCall, CallType, Outcome, Going, Controls
  <2>3. QED
    BY <1>2, <2>1, <2>2, <2>5
<1>5. CASE PrepareWorktree(s)
  <2> DEFINE c == [call[s] EXCEPT !.pc = "read", !.write = "tree", !.result = "active"]
  <2>1. call[s].pc = "daemon" /\ (Answered(s, c) \/ AnswerLost(s, {}))
    BY <1>5 DEF PrepareWorktree
  <2>2. SameCall(c, s)
    BY <1>1, Names DEF SameCall, CallType, Going
  <2> HIDE DEF c
  <2>3. QED
    BY <1>2, <2>1, <2>2
<1>6. CASE Submit(s)
  <2> DEFINE c == [call[s] EXCEPT !.pc = "done", !.result = "active"]
  <2>1. /\ call[s].pc = "daemon" /\ call[s].tool # "prepare"
        /\ Answered(s, c) \/ AnswerLost(s, {})
    BY <1>6 DEF Submit
  <2>2. SameCall(c, s)
    BY <1>1, <2>1, Names DEF SameCall, CallType, Going
  <2> HIDE DEF c
  <2>3. QED
    BY <1>2, <2>1, <2>2
<1>7. QED
  BY <1>3, <1>4, <1>5, <1>6 DEF Asks

(* A step of one server leaves the calls of the others as they are, but    *)
(* for the file they hold open.                                            *)
LEMMA OthersStay ==
  ASSUME StateOK, NEW s \in Servers, Step(s), NEW t \in Servers, t # s
  PROVE  /\ call'[t] = [call[t] EXCEPT !.at = call'[t].at]
         /\ call[t].at = "nowhere" => call'[t].at = "nowhere"
<1>1. call[t] \in CallType /\ call \in [Servers -> CallType]
  BY DEF StateOK
<1>2. ASSUME call'[t] = call[t]
      PROVE  /\ call'[t] = [call[t] EXCEPT !.at = call'[t].at]
             /\ call[t].at = "nowhere" => call'[t].at = "nowhere"
  BY <1>1, <1>2 DEF CallType
<1>3. CASE Begins(s)
  BY <1>1, <1>2, <1>3
  DEF Begins, CycleStart, CycleControl, CycleWork, CycleRoleRegister, CycleRoleRevoke,
      CycleSubmit, Begin
<1>4. CASE Asks(s)
  BY <1>1, <1>2, <1>4, AskedCalls DEF Handed, Answered, AnswerLost, Finish
<1>5. CASE RequireRoleSession(s) \/ DaemonRefuses(s) \/ OpenTemporary(s) \/ WriteTemporary(s)
           \/ Fails(s) \/ CancelStarted(s) \/ Exit(s)
  BY <1>1, <1>2, <1>5
  DEF RequireRoleSession, DaemonRefuses, OpenTemporary, WriteTemporary, Fails,
      NothingToRename,
      WriteFails, FailedWrite, CancelStarted, Exit
<1>6. CASE ReadRegistry(s)
  BY <1>1, <1>2, <1>6 DEF ReadRegistry, Finish
<1>7. CASE RemoveRegistry(s)
  BY <1>1, <1>7 DEF RemoveRegistry, CallType
<1>8. CASE RenameTemporary(s)
  BY <1>1, <1>8 DEF RenameTemporary, Finish, CallType
<1>9. QED
  BY <1>3, <1>4, <1>5, <1>6, <1>7, <1>8 DEF Step

(* A call goes on as what it is, until it is over. *)
GoesOn(s, c) ==
  /\ c.tool = call[s].tool /\ c.session = call[s].session /\ c.role = call[s].role
  /\ c.workflow = call[s].workflow \/ StartWorkflow(s)

LEMMA Thrown ==
  ASSUME NEW s \in Servers, call[s] \in CallType
  PROVE  Throw(call[s]) = Idle \/ GoesOn(s, Throw(call[s]))
  BY DEF Throw, CallType, GoesOn

LEMMA OwnCall ==
  ASSUME StateOK, NEW s \in Servers, Step(s)
  PROVE  call'[s] = Idle \/ Begins(s) \/ GoesOn(s, call'[s])
<1>1. call[s] \in CallType /\ call \in [Servers -> CallType]
  BY DEF StateOK
<1>2. CASE Asks(s)
  <2>1. PICK c, astray : (Answered(s, c) \/ AnswerLost(s, astray)) /\ SameCall(c, s)
    BY <1>2, AskedCalls DEF Handed
  <2>2. CASE AnswerLost(s, astray)
    BY <1>1, <2>2, Thrown DEF AnswerLost
  <2>3. CASE Answered(s, c)
    <3>1. call'[s] \in {Idle, c, [c EXCEPT !.pc = "read", !.write = "sweep"]}
      BY <1>1, <2>3 DEF Answered, Finish
    <3>2. CASE call'[s] = [c EXCEPT !.pc = "read", !.write = "sweep"]
      BY <2>1, <3>2 DEF SameCall, GoesOn, Going
    <3>3. QED
      BY <2>1, <3>1, <3>2 DEF SameCall, GoesOn
  <2>4. QED
    BY <2>1, <2>2, <2>3
<1>3. CASE DaemonRefuses(s) \/ Fails(s)
  <2>1. call'[s] \in {Throw(call[s]), [call[s] EXCEPT !.pc = "cancel"]}
    BY <1>1, <1>3 DEF DaemonRefuses, Fails, NothingToRename, WriteFails, FailedWrite
  <2>2. QED
    BY <1>1, <2>1, Thrown DEF GoesOn, CallType
<1>4. CASE RequireRoleSession(s) \/ CancelStarted(s) \/ Exit(s)
  <2>1. call'[s] \in {Idle, [call[s] EXCEPT !.pc = "daemon"]}
    BY <1>1, <1>4 DEF RequireRoleSession, CancelStarted, Exit
  <2>2. QED
    BY <1>1, <2>1 DEF GoesOn, CallType
<1>5. CASE OpenTemporary(s) \/ WriteTemporary(s)
  BY <1>1, <1>5 DEF OpenTemporary, WriteTemporary, GoesOn, CallType
<1>6. CASE ReadRegistry(s)
  <2>1. PICK copy : call'[s] \in {Idle, [call[s] EXCEPT !.pc = "open", !.copy = copy],
                                  [call[s] EXCEPT !.pc = "read", !.write = "sweep"]}
    BY <1>1, <1>6 DEF ReadRegistry, Finish
  <2>2. QED
    BY <1>1, <2>1 DEF GoesOn, CallType
<1>7. CASE RemoveRegistry(s)
  BY <1>1, <1>7 DEF RemoveRegistry, CallType, GoesOn
<1>8. CASE RenameTemporary(s)
  <2>1. call'[s] \in {Idle, [call[s] EXCEPT !.pc = "read", !.write = "sweep"]}
    BY <1>1, <1>8 DEF RenameTemporary, Finish
  <2>2. QED
    BY <1>1, <2>1 DEF GoesOn, CallType
<1>9. QED
  BY <1>2, <1>3, <1>4, <1>5, <1>6, <1>7, <1>8 DEF Step

(* What is started stays started, what has ended stays ended. *)
LEMMA WorkflowsGoOn ==
  ASSUME StateOK, CallsMatch, NEW s \in Servers, Step(s), NEW w \in Workflows
  PROVE  /\ Known(w) => Known(w)' /\ workflow'[w].project = workflow[w].project
         /\ Ended(w) => Ended(w)'
         /\ workflow'[w].state = "active" => workflow[w].state = "active" \/ StartWorkflow(s)
<1>1. workflow[w] \in WorkflowType /\ workflow \in [Workflows -> WorkflowType]
  BY DEF StateOK
<1>2. CASE StartWorkflow(s)
  BY <1>1, <1>2 DEF StartWorkflow, Known, Knows, Ended, Ends
<1>3. CASE Control(s)
  <2>1. PICK v \in Workflows : \E state \in After(call[s].tool, workflow[v].state) :
          /\ workflow' = [workflow EXCEPT ![v].state = state] /\ workflow[v].state # "none"
          /\ call[s].tool \in {"status", "cancel", "recovery", "promote"}
    BY <1>3 DEF Control
  <2>2. PICK state \in After(call[s].tool, workflow[v].state) :
          workflow' = [workflow EXCEPT ![v].state = state]
    BY <2>1
  <2>3. workflow[v].state \in {"active", "ended"}
    BY <2>1 DEF StateOK, WorkflowType
  <2>4. /\ state \in {"active", "ended"}
        /\ workflow[v].state = "ended" => state = "ended"
    BY <2>1, <2>2, <2>3 DEF After
  <2>5. QED
    BY <1>1, <2>1, <2>2, <2>4 DEF Known, Knows, Ended, Ends, WorkflowType
<1>4. CASE CancelStarted(s)
  BY <1>1, <1>4 DEF CancelStarted, Known, Knows, Ended, Ends, WorkflowType
<1>5. CASE UNCHANGED workflow
  BY <1>5 DEF Known, Knows, Ended, Ends
<1>6. QED
  BY <1>2, <1>3, <1>4, <1>5
  DEF Step, Begins, CycleStart, CycleControl, CycleWork, CycleRoleRegister, CycleRoleRevoke,
      CycleSubmit, Begin, RequireRoleSession, DaemonRefuses, Asks, PrepareWorktree, Submit,
      ReadRegistry, OpenTemporary, WriteTemporary, RemoveRegistry, RenameTemporary, Fails,
      NothingToRename, WriteFails, FailedWrite, Exit

(* Nothing that is started is being started again. *)
LEMMA StartingIsNew ==
  ASSUME StateOK, CallsMatch, NEW s \in Servers, Step(s), NEW w \in Starting', Known(w)
  PROVE  w \in Starting
<1>1. PICK t \in Servers : call'[t].tool = "start" /\ call'[t].workflow = w
  BY DEF Starting
<1>2. CASE t # s
  <2>1. call'[t] = [call[t] EXCEPT !.at = call'[t].at] /\ call[t] \in CallType
    BY <1>2, OthersStay DEF StateOK
  <2>2. call[t].tool = "start" /\ call[t].workflow = w
    BY <1>1, <2>1 DEF CallType
  <2>3. QED
    BY <2>2 DEF Starting
<1>3. CASE t = s
  <2>1. call'[s] # Idle
    BY <1>1, <1>3 DEF Idle
  <2>2. CASE Begins(s)
    <3>1. call'[s].tool = "start" => call'[s].workflow = None
      BY <2>2, BeginsFresh DEF Fresh, Controls, Submitting
    <3>2. QED
      BY <1>1, <1>3, <3>1, NoneAssumption DEF Known, Knows
  <2>3. CASE StartWorkflow(s)
    <3>1. call[s].workflow = None /\ call[s] \in CallType /\ call \in [Servers -> CallType]
      BY <2>3 DEF StartWorkflow, CallsMatch, ToolMatches, Matches, StateOK
    <3>2. PICK v \in Workflows : workflow[v].state = "none" /\
         (\/ Answered(s, [call[s] EXCEPT !.pc = "read", !.write = "lock", !.workflow = v,
                                      !.result = "active"])
         \/ AnswerLost(s, {v}))
      BY <2>3 DEF StartWorkflow
    <3>3. call'[s].workflow \in {None, v}
      <4> DEFINE c == [call[s] EXCEPT !.pc = "read", !.write = "lock", !.workflow = v,
                                      !.result = "active"]
      <4>1. c.workflow = v /\ c.pc = "read"
        BY <3>1 DEF CallType
      <4>2. CASE Answered(s, c)
        <5> HIDE DEF c
        <5>1. call'[s] = c
          BY <3>1, <4>1, <4>2 DEF Answered
        <5>2. QED
          BY <4>1, <5>1
      <4>3. CASE AnswerLost(s, {v})
        <5>1. call'[s] = Throw(call[s])
          BY <3>1, <4>3 DEF AnswerLost
        <5>2. QED
          BY <3>1, <5>1 DEF Throw, CallType, Idle
      <4>4. QED
        BY <3>2, <4>2, <4>3
    <3>4. QED
      BY <1>1, <1>3, <3>2, <3>3, NoneAssumption DEF Known, Knows
  <2>4. CASE call'[s].tool = call[s].tool /\ call'[s].workflow = call[s].workflow
    BY <1>1, <1>3, <2>4 DEF Starting
  <2>5. QED
    BY <2>1, <2>2, <2>3, <2>4, OwnCall DEF GoesOn
<1>4. QED
  BY <1>2, <1>3

-----------------------------------------------------------------------------
(* Calls match when they are idle, when a recovery goes on to its sweep,   *)
(* when they fail and when they finish.                                    *)
LEMMA IdleMatches ==
  ASSUME NEW s, NEW wf, NEW starting PROVE Matches(Idle, s, wf, starting)
  BY DEF Matches, Idle, WritePcs, Submitting

LEMMA SweepMatches ==
  ASSUME NEW s, NEW wf, NEW starting, NEW c \in Going, c.tool = "recovery",
         c.result = "ended" /\ c.workflow # None => Ends(wf, c.workflow)
  PROVE  Matches([c EXCEPT !.pc = "read", !.write = "sweep"], s, wf, starting)
<1> DEFINE n == [c EXCEPT !.pc = "read", !.write = "sweep"]
<1>1. /\ n.pc = "read" /\ n.write = "sweep" /\ n.tool = "recovery"
      /\ n.result = c.result /\ n.workflow = c.workflow
  BY DEF Going
<1> HIDE DEF n
<1>2. Matches(n, s, wf, starting)
  BY <1>1 DEF Matches, WritePcs, Submitting
<1>3. QED
  BY <1>2 DEF n

LEMMA ThrowMatches ==
  ASSUME NEW s, NEW wf, NEW starting, NEW c \in CallType, Matches(c, s, wf, starting)
  PROVE  Matches(Throw(c), s, wf, starting)
<1>1. CASE c.tool = "recovery" /\ c.write # "sweep"
  <2> DEFINE n == [c EXCEPT !.pc = "read", !.write = "sweep", !.result = "refused"]
  <2>1. n.pc = "read" /\ n.write = "sweep" /\ n.tool = "recovery" /\ n.result = "refused"
    BY <1>1 DEF CallType
  <2>2. Throw(c) = n
    BY <1>1 DEF Throw
  <2> HIDE DEF n
  <2>3. QED
    BY <2>1, <2>2 DEF Matches, WritePcs, Submitting
<1>2. CASE ~(c.tool = "recovery" /\ c.write # "sweep")
  BY <1>2, IdleMatches DEF Throw
<1>3. QED
  BY <1>1, <1>2

LEMMA FinishMatches ==
  ASSUME NEW s \in Servers, NEW wf, NEW starting, NEW c \in Going,
         NEW others \in [Servers -> CallType], Finish(s, c, others),
         c.tool = "recovery" /\ c.result = "ended" /\ c.workflow # None => Ends(wf, c.workflow)
  PROVE  Matches(call'[s], s, wf, starting)
<1>1. \/ call'[s] = Idle
      \/ c.tool = "recovery" /\ call'[s] = [c EXCEPT !.pc = "read", !.write = "sweep"]
  BY DEF Finish
<1>2. CASE call'[s] = Idle
  BY <1>2, IdleMatches
<1>3. CASE c.tool = "recovery" /\ call'[s] = [c EXCEPT !.pc = "read", !.write = "sweep"]
  <2>1. Matches([c EXCEPT !.pc = "read", !.write = "sweep"], s, wf, starting)
    BY <1>3, SweepMatches
  <2>2. QED
    BY <1>3, <2>1
<1>4. QED
  BY <1>1, <1>2, <1>3

(* A call that does not move goes on matching, as the workflows go on. *)
LEMMA OthersMatch ==
  ASSUME StateOK, CallsMatch, NEW s \in Servers, Step(s), NEW c \in CallType, NEW t \in Servers,
         Matches(c, t, workflow, Starting)
  PROVE  Matches(c, t, workflow', Starting')
<1>1. ASSUME Knows(workflow, c.workflow)
      PROVE  /\ Knows(workflow', c.workflow)
             /\ workflow'[c.workflow].project = workflow[c.workflow].project
             /\ c.workflow \in Starting' => c.workflow \in Starting
  <2>1. c.workflow \in Workflows
    BY <1>1 DEF Knows
  <2>2. QED
    BY <1>1, <2>1, WorkflowsGoOn, StartingIsNew DEF Known
<1>2. ASSUME Ends(workflow, c.workflow) PROVE Ends(workflow', c.workflow)
  BY <1>2, WorkflowsGoOn DEF Ended, Ends
<1>3. QED
  BY <1>1, <1>2 DEF Matches

(* A call stays one that its tool can be in. *)
LEMMA CallsStep ==
  ASSUME StateOK, CallsMatch, NEW s \in Servers, Step(s)
  PROVE  CallsMatch'
<1> DEFINE Fits(c) == Matches(c, s, workflow', Starting')
<1>1. /\ call[s] \in CallType /\ call \in [Servers -> CallType] /\ call[s] \in Going
      /\ Matches(call[s], s, workflow, Starting)
      /\ Fits(call[s])
  <2>1. /\ call[s] \in CallType /\ call \in [Servers -> CallType]
        /\ Matches(call[s], s, workflow, Starting)
    BY DEF StateOK, CallsMatch, ToolMatches
  <2>2. QED
    BY <2>1, OthersMatch DEF CallType, Going
<1>2. ASSUME NEW t \in Servers, t # s PROVE Matches(call'[t], t, workflow', Starting')
  <2>1. /\ call'[t] = [call[t] EXCEPT !.at = call'[t].at]
        /\ call[t].at = "nowhere" => call'[t].at = "nowhere"
    BY <1>2, OthersStay
  <2>2. call[t] \in CallType /\ Matches(call[t], t, workflow, Starting)
    BY DEF StateOK, CallsMatch, ToolMatches
  <2>3. Matches(call[t], t, workflow', Starting')
    BY <2>2, OthersMatch
  <2>4. CASE call[t].pc = "idle"
    <3>1. call[t] = Idle
      BY <2>2, <2>4 DEF Matches
    <3>2. call'[t] = Idle
      BY <2>1, <3>1 DEF Idle
    <3>3. QED
      BY <3>2, IdleMatches
  <2>5. CASE call[t].pc # "idle"
    <3> DEFINE n == call'[t]
    <3>1. /\ n.pc = call[t].pc /\ n.tool = call[t].tool /\ n.write = call[t].write
          /\ n.workflow = call[t].workflow /\ n.session = call[t].session
          /\ n.role = call[t].role /\ n.result = call[t].result
      BY <2>1, <2>2 DEF CallType
    <3> HIDE DEF n
    <3>2. Matches(n, t, workflow', Starting')
      BY <2>3, <2>5, <3>1 DEF Matches
    <3>3. QED
      BY <3>2 DEF n
  <2>6. QED
    BY <2>4, <2>5
<1>3. ASSUME NEW p \in WritePcs \cup {"cancel"}, NEW c \in CallType, c.pc = p,
             c.write # "none", p = "cancel" => c.write = "lock",
             c.tool = call[s].tool, c.write = call[s].write, c.workflow = call[s].workflow,
             c.session = call[s].session, c.role = call[s].role, c.result = call[s].result,
             call[s].pc \notin {"idle", "check", "daemon"}
      PROVE  Fits(c)
  <2>1. c.pc \notin {"idle", "check", "daemon"} /\ c.tool # "none"
    BY <1>1, <1>3 DEF WritePcs, Matches
  <2>2. QED
    BY <1>1, <1>3, <2>1 DEF Matches
<1>4. CASE Begins(s)
  <2>1. Fresh(call'[s]) /\ workflow' = workflow
    BY <1>4, BeginsFresh
  <2>2. \A w \in Started : Knows(workflow, w)
    BY DEF Started, Knows
  <2>3. call'[s].tool = "prepare" => call'[s].workflow \notin Starting'
    BY <2>1, <2>2, StartingIsNew DEF Fresh, Known, Controls, Submitting
  <2> DEFINE n == call'[s]
  <2> HIDE DEF n
  <2>4. Fresh(n) /\ (n.tool = "prepare" => n.workflow \notin Starting')
    BY <2>1, <2>3 DEF n
  <2>5. Matches(n, s, workflow, Starting')
    <3>1. CASE n.pc = "daemon"
      BY <2>2, <2>4, <3>1 DEF Fresh, Matches, WritePcs, Submitting, Controls, Started
    <3>2. CASE n.pc # "daemon"
      BY <2>2, <2>4, <3>2 DEF Fresh, Matches, WritePcs, Submitting, Controls, Started
    <3>3. QED
      BY <3>1, <3>2
  <2>6. QED
    BY <1>2, <2>1, <2>5 DEF n, CallsMatch, ToolMatches
<1>5. SUFFICES ASSUME ~Begins(s) PROVE Fits(call'[s])
  BY <1>2, <1>4 DEF CallsMatch, ToolMatches
<1>6. CASE DaemonRefuses(s)
  <2>1. call'[s] = Throw(call[s])
    BY <1>1, <1>6 DEF DaemonRefuses
  <2>2. QED
    BY <1>1, <2>1, ThrowMatches
<1>7. ASSUME NEW astray, AnswerLost(s, astray) PROVE Fits(call'[s])
  <2>1. call'[s] = Throw(call[s])
    BY <1>1, <1>7 DEF AnswerLost
  <2>2. QED
    BY <1>1, <2>1, ThrowMatches
<1>8. ASSUME NEW c \in Going, Answered(s, c), c.pc = "done",
             c.tool = "recovery" /\ c.result = "ended" /\ c.workflow # None =>
               Ends(workflow', c.workflow)
      PROVE  Fits(call'[s])
  <2>1. Finish(s, c, call)
    BY <1>8 DEF Answered
  <2>2. QED
    BY <1>1, <1>8, <2>1, FinishMatches
<1>9. CASE StartWorkflow(s)
  <2>1. PICK w \in Workflows :
          /\ call[s].pc = "daemon" /\ call[s].tool = "start" /\ workflow[w].state = "none"
          /\ workflow' = [workflow EXCEPT ![w] = [state |-> "active", project |-> ProjectOf[s]]]
          /\ \/ Answered(s, [call[s] EXCEPT !.pc = "read", !.write = "lock", !.workflow = w,
                                      !.result = "active"])
             \/ AnswerLost(s, {w})
    BY <1>9 DEF StartWorkflow
  <2> DEFINE c == [call[s] EXCEPT !.pc = "read", !.write = "lock", !.workflow = w, !.result = "active"]
  <2>2. /\ c.pc = "read" /\ c.tool = "start" /\ c.write = "lock" /\ c.workflow = w
        /\ c.result = "active"
    BY <1>1, <2>1 DEF CallType
  <2>3. Knows(workflow', w) /\ workflow'[w].project = ProjectOf[s]
    BY <2>1 DEF Knows, StateOK
  <2>4. Answered(s, c) \/ AnswerLost(s, {w})
    BY <2>1
  <2> HIDE DEF c
  <2>5. Fits(c)
    BY <2>2, <2>3 DEF Matches, WritePcs, Submitting
  <2>6. Answered(s, c) => call'[s] = c
    BY <1>1, <2>2 DEF Answered
  <2>7. QED
    BY <1>7, <2>4, <2>5, <2>6
<1>10. CASE Control(s)
  <2>1. PICK w \in Workflows : \E state \in After(call[s].tool, workflow[w].state) :
          /\ call[s].pc = "daemon" /\ call[s].tool \in Controls /\ workflow[w].state # "none"
          /\ call[s].workflow \in {None, w}
          /\ workflow' = [workflow EXCEPT ![w].state = state]
          /\ Answered(s, Outcome(call[s], state)) \/ AnswerLost(s, {})
    BY <1>10 DEF Control, Controls
  <2>2. PICK state \in After(call[s].tool, workflow[w].state) :
          /\ workflow' = [workflow EXCEPT ![w].state = state]
          /\ Answered(s, Outcome(call[s], state)) \/ AnswerLost(s, {})
    BY <2>1
  <2>3. state \in {"active", "ended"}
    BY <2>1, <2>2 DEF After, StateOK, Controls, WorkflowType
  <2>4. state = "ended" => Ends(workflow', w)
    BY <2>1, <2>2 DEF Ends, StateOK, WorkflowType
  <2> DEFINE c == Outcome(call[s], state)
  <2>5. /\ c \in Going /\ c.tool = call[s].tool /\ c.result = state
        /\ c.workflow = call[s].workflow
        /\ \/ state = "ended" /\ c.workflow = w /\ c.pc = "read" /\ c.write = "unlock"
           \/ c.pc = "done"
    BY <1>1, <2>1, <2>3, Names, NoneAssumption DEF Outcome, CallType, Going
  <2>6. Answered(s, c) \/ AnswerLost(s, {})
    BY <2>2
  <2> HIDE DEF c
  <2>7. CASE c.pc = "done" /\ Answered(s, c)
    BY <1>8, <2>1, <2>4, <2>5, <2>7
  <2>8. CASE c.pc # "done" /\ Answered(s, c)
    <3>1. call'[s] = c
      BY <1>1, <2>8 DEF Answered
    <3>2. Fits(c)
      BY <2>1, <2>4, <2>5, <2>8 DEF Matches, WritePcs, Submitting, Controls
    <3>3. QED
      BY <3>1, <3>2
  <2>9. QED
    BY <1>7, <2>6, <2>7, <2>8
<1>11. CASE PrepareWorktree(s)
  <2> DEFINE c == [call[s] EXCEPT !.pc = "read", !.write = "tree", !.result = "active"]
  <2>1. call[s].pc = "daemon" /\ call[s].tool = "prepare" /\ (Answered(s, c) \/ AnswerLost(s, {}))
    BY <1>11 DEF PrepareWorktree
  <2>2. /\ c.pc = "read" /\ c.tool = "prepare" /\ c.write = "tree" /\ c.result = "active"
        /\ c.workflow = call[s].workflow
    BY <1>1, <2>1 DEF CallType
  <2> HIDE DEF c
  <2>3. Fits(c)
    BY <1>1, <2>1, <2>2 DEF Matches, WritePcs, Submitting
  <2>4. Answered(s, c) => call'[s] = c
    BY <1>1, <2>2 DEF Answered
  <2>5. QED
    BY <1>7, <2>1, <2>3, <2>4
<1>12. CASE Submit(s)
  <2> DEFINE c == [call[s] EXCEPT !.pc = "done", !.result = "active"]
  <2>1. call[s].tool \in Submitting /\ (Answered(s, c) \/ AnswerLost(s, {}))
    BY <1>12 DEF Submit, Submitting
  <2>2. c \in Going /\ c.pc = "done" /\ c.tool # "recovery"
    BY <1>1, <2>1, Names DEF CallType, Going, Submitting
  <2> HIDE DEF c
  <2>3. QED
    BY <1>7, <1>8, <2>1, <2>2
<1>13. CASE RequireRoleSession(s)
  <2>1. call[s].pc = "check" /\ call'[s] \in {Idle, [call[s] EXCEPT !.pc = "daemon"]}
    BY <1>1, <1>13 DEF RequireRoleSession
  <2> DEFINE c == [call[s] EXCEPT !.pc = "daemon"]
  <2>2. /\ c.pc = "daemon" /\ c.tool = call[s].tool /\ c.write = call[s].write
        /\ c.workflow = call[s].workflow
        /\ c.session = call[s].session /\ c.role = call[s].role /\ c.result = call[s].result
    BY <1>1 DEF CallType
  <2> HIDE DEF c
  <2>3. Fits(c)
    BY <1>1, <2>1, <2>2 DEF Matches, Submitting, WritePcs, Controls
  <2>4. QED
    BY <2>1, <2>3, IdleMatches DEF c
<1>14. CASE ReadRegistry(s)
  <2>1. PICK copy : /\ call[s].pc = "read"
                    /\ \/ call'[s] \in {Idle, [call[s] EXCEPT !.pc = "open", !.copy = copy]}
                       \/ Finish(s, call[s], call)
    BY <1>1, <1>14 DEF ReadRegistry
  <2>2. CASE call'[s] = [call[s] EXCEPT !.pc = "open", !.copy = copy]
    <3> DEFINE c == call'[s]
    <3>1. /\ c.pc = "open" /\ c.tool = call[s].tool /\ c.write = call[s].write
          /\ c.workflow = call[s].workflow
          /\ c.session = call[s].session /\ c.role = call[s].role /\ c.result = call[s].result
      BY <1>1, <2>2 DEF CallType
    <3>2. c \in CallType
      <4>1. StateOK'
        BY StateStep, StepsAreOfServers
      <4>2. QED
        BY <4>1 DEF StateOK
    <3>3. c.write # "none"
      BY <1>1, <2>1, <3>1 DEF Matches
    <3> HIDE DEF c
    <3>4. Fits(c)
      BY <1>3, <2>1, <3>1, <3>2, <3>3 DEF WritePcs
    <3>5. QED
      BY <3>4 DEF c
  <2>3. CASE Finish(s, call[s], call)
    <3>1. call[s].tool = "recovery" /\ call[s].result = "ended" /\ call[s].workflow # None =>
            Ends(workflow', call[s].workflow)
      <4>1. call[s].tool = "recovery" => call[s].write \in {"unlock", "sweep"}
        BY <1>1, <2>1 DEF Matches, CallType, Writes
      <4>2. QED
        BY <1>1, <4>1 DEF Matches
    <3>2. QED
      BY <1>1, <2>3, <3>1, FinishMatches
  <2>4. QED
    BY <2>1, <2>2, <2>3, IdleMatches
<1>15. CASE OpenTemporary(s) \/ WriteTemporary(s) \/ RemoveRegistry(s)
  <2> DEFINE c == call'[s]
  <2>1. /\ c.tool = call[s].tool /\ c.write = call[s].write /\ c.workflow = call[s].workflow
        /\ c.session = call[s].session /\ c.role = call[s].role /\ c.result = call[s].result
        /\ c.pc \in WritePcs /\ call[s].pc \in WritePcs
    BY <1>1, <1>15 DEF OpenTemporary, WriteTemporary, RemoveRegistry, CallType, WritePcs
  <2>2. c \in CallType
    <3>1. StateOK'
      BY StateStep, StepsAreOfServers
    <3>2. QED
      BY <3>1 DEF StateOK
  <2> HIDE DEF c
  <2>3. c.write # "none" /\ call[s].pc \notin {"idle", "check", "daemon"} /\ c.pc # "cancel"
    BY <1>1, <2>1 DEF Matches, WritePcs
  <2>4. Fits(c)
    BY <1>3, <2>1, <2>2, <2>3
  <2>5. QED
    BY <2>4 DEF c
<1>16. CASE RenameTemporary(s)
  <2> DEFINE renamed == [t \in Servers |->
        [call[t] EXCEPT !.at = CASE @ = "temporary" -> "registry" [] OTHER -> "nowhere"]]
  <2>1. \/ call'[s] = Idle
        \/ call[s].tool = "recovery" /\ call'[s] = [call[s] EXCEPT !.pc = "read", !.write = "sweep"]
    BY <1>16 DEF RenameTemporary, Finish
  <2>2. call[s].tool = "recovery" /\ call[s].result = "ended" /\ call[s].workflow # None =>
            Ends(workflow', call[s].workflow)
    <3>1. call[s].pc = "rename"
      BY <1>16 DEF RenameTemporary
    <3>2. call[s].tool = "recovery" => call[s].write \in {"unlock", "sweep"}
      BY <1>1, <3>1 DEF Matches, CallType, Writes, WritePcs
    <3>3. QED
      BY <1>1, <3>2 DEF Matches
  <2>3. CASE call[s].tool = "recovery"
    <3>1. Fits([call[s] EXCEPT !.pc = "read", !.write = "sweep"])
      BY <1>1, <2>2, <2>3, SweepMatches
    <3>2. QED
      BY <2>1, <3>1, IdleMatches
  <2>4. QED
    BY <2>1, <2>3, IdleMatches
<1>17. CASE Fails(s)
  <2>1. /\ call[s].pc \in WritePcs
        /\ \/ call[s].write = "lock" /\ call'[s] = [call[s] EXCEPT !.pc = "cancel"]
           \/ call'[s] = Throw(call[s])
    BY <1>1, <1>17 DEF Fails, NothingToRename, WriteFails, FailedWrite, InWrite, WritePcs
  <2>2. CASE call[s].write = "lock" /\ call'[s] = [call[s] EXCEPT !.pc = "cancel"]
    <3>1. [call[s] EXCEPT !.pc = "cancel"] \in CallType
      BY <1>1, Names DEF CallType
    <3>2. QED
      BY <1>1, <1>3, <2>1, <2>2, <3>1 DEF CallType, WritePcs
  <2>3. QED
    BY <1>1, <2>1, <2>2, ThrowMatches
<1>18. CASE CancelStarted(s) \/ Exit(s)
  <2>1. call'[s] = Idle
    BY <1>1, <1>18 DEF CancelStarted, Exit
  <2>2. QED
    BY <2>1, IdleMatches
<1>19. QED
  BY <1>5, <1>6, <1>9, <1>10, <1>11, <1>12, <1>13, <1>14, <1>15, <1>16, <1>17, <1>18
  DEF Step, Asks

-----------------------------------------------------------------------------
(* The read that s makes goes on to write. *)
WillWrite(s) ==
  /\ ReadRegistry(s)
  /\ IsWritten(call[s], Parsed(registry))
  /\ call[s].write = "register" => MayRegister(s, call[s], Parsed(registry))
  /\ call'[s] = [call[s] EXCEPT !.pc = "open", !.copy = Changed(s, call[s], Parsed(registry))]

(* Where the files and the copies come from: each other, or what a read    *)
(* makes of the registry.                                                  *)
LEMMA FilesStep ==
  ASSUME StateOK, CallsMatch, NEW s \in Servers, Step(s)
  PROVE  /\ \/ registry' \in {registry, temporary, Missing, Torn}
            \/ WriteTemporary(s) /\ registry' = call[s].copy
         /\ \/ temporary' \in {temporary, Missing, Empty, Torn}
            \/ WriteTemporary(s) /\ temporary' = call[s].copy
         /\ call'[s].copy \in {call[s].copy, Nothing} \/ WillWrite(s)
         /\ \A t \in Servers \ {s} : call'[t].copy = call[t].copy
         /\ granted \subseteq granted'
         /\ granted' = granted \/ (WriteTemporary(s) /\ New(s) \subseteq granted')
<1>1. call[s] \in CallType /\ call \in [Servers -> CallType]
  BY DEF StateOK
<1>2. \A t \in Servers \ {s} : call'[t].copy = call[t].copy
  BY OthersStay DEF StateOK, CallType
<1>3. Throw(call[s]).copy \in {call[s].copy, Nothing} /\ Idle.copy = Nothing
  BY <1>1 DEF Throw, Idle, CallType
<1>4. ASSUME NEW c \in Going, NEW others \in [Servers -> CallType], Finish(s, c, others)
      PROVE  call'[s].copy \in {c.copy, Nothing}
  BY <1>3, <1>4 DEF Finish, Going
<1>5. CASE Begins(s)
  <2>1. call'[s].copy = Nothing
    BY <1>5, BeginsFresh DEF Fresh
  <2>2. UNCHANGED <<registry, temporary, granted>>
    BY <1>5, BeginsFresh
  <2>3. QED
    BY <1>2, <2>1, <2>2
<1>6. CASE Asks(s)
  <2>1. PICK c, astray : (Answered(s, c) \/ AnswerLost(s, astray)) /\ SameCall(c, s)
    BY <1>6, AskedCalls DEF Handed
  <2>2. UNCHANGED <<registry, temporary, granted>>
    BY <1>6, AskedCalls
  <2>3. CASE AnswerLost(s, astray)
    BY <1>1, <1>2, <1>3, <2>2, <2>3 DEF AnswerLost
  <2>4. CASE Answered(s, c) /\ c.pc = "done"
    <3>1. c \in Going /\ c.copy = call[s].copy
      BY <2>1 DEF SameCall
    <3>2. QED
      BY <1>1, <1>2, <1>4, <2>2, <2>4, <3>1 DEF Answered
  <2>5. CASE Answered(s, c) /\ c.pc # "done"
    BY <1>1, <1>2, <2>1, <2>2, <2>5 DEF Answered, SameCall
  <2>6. QED
    BY <2>1, <2>3, <2>4, <2>5
<1>7. CASE RequireRoleSession(s) \/ DaemonRefuses(s) \/ Fails(s) \/ CancelStarted(s) \/ Exit(s)
  <2>1. call'[s] \in {Idle, Throw(call[s]), [call[s] EXCEPT !.pc = "daemon"], [call[s] EXCEPT !.pc = "cancel"]}
    BY <1>1, <1>7 DEF RequireRoleSession, DaemonRefuses, Fails, NothingToRename, WriteFails,
       FailedWrite, CancelStarted, Exit
  <2>2. call'[s].copy \in {call[s].copy, Nothing}
    BY <1>1, <1>3, <2>1 DEF CallType
  <2>3. UNCHANGED <<registry, temporary, granted>>
    BY <1>7 DEF RequireRoleSession, DaemonRefuses, Fails, NothingToRename, WriteFails,
       FailedWrite, CancelStarted, Exit
  <2>4. QED
    BY <1>2, <2>2, <2>3
<1>8. CASE ReadRegistry(s)
  <2>1. UNCHANGED <<registry, temporary, granted>>
    BY <1>8 DEF ReadRegistry
  <2>2. CASE Finish(s, call[s], call)
    <3>1. call[s] \in Going
      BY <1>1 DEF CallType, Going
    <3>2. QED
      BY <1>1, <1>2, <1>4, <2>1, <2>2, <3>1
  <2>3. CASE call'[s] = Idle
    BY <1>2, <1>3, <2>1, <2>3
  <2>4. CASE ~Finish(s, call[s], call) /\ call'[s] # Idle
    <3>1. WillWrite(s)
      BY <1>1, <1>8, <2>4 DEF ReadRegistry, WillWrite
    <3>2. QED
      BY <1>2, <2>1, <3>1
  <2>5. QED
    BY <2>2, <2>3, <2>4
<1>9. CASE OpenTemporary(s) \/ RemoveRegistry(s)
  BY <1>1, <1>2, <1>9 DEF OpenTemporary, RemoveRegistry, CallType
<1>10. CASE WriteTemporary(s)
  <2>1. call'[s].copy = call[s].copy
    BY <1>1, <1>10 DEF WriteTemporary, CallType
  <2>2. granted \subseteq granted' /\ New(s) \subseteq granted'
    BY <1>10 DEF WriteTemporary, New
  <2>3. QED
    BY <1>2, <1>10, <2>1, <2>2 DEF WriteTemporary, Written
<1>11. CASE RenameTemporary(s)
  <2> DEFINE renamed == [t \in Servers |->
        [call[t] EXCEPT !.at = CASE @ = "temporary" -> "registry" [] OTHER -> "nowhere"]]
  <2>1. renamed \in [Servers -> CallType] /\ call[s] \in Going
    <3>1. ASSUME NEW t \in Servers PROVE renamed[t] \in CallType
      BY Names DEF StateOK, CallType
    <3>2. QED
      BY <3>1 DEF StateOK, CallType, Going
  <2>2. /\ Finish(s, call[s], renamed) /\ registry' = temporary /\ temporary' = Missing
        /\ granted' = granted
    BY <1>11 DEF RenameTemporary
  <2>3. QED
    BY <1>2, <1>4, <2>1, <2>2
<1>12. QED
  BY <1>5, <1>6, <1>7, <1>8, <1>9, <1>10, <1>11 DEF Step

(* No write leaves a registration behind without its lock. *)
LEMMA LocksStep ==
  ASSUME StateOK, CallsMatch, RegistrationsHaveLocks, NEW s \in Servers, Step(s)
  PROVE  RegistrationsHaveLocks'
<1> DEFINE Kept(c) == Orphans(c, None) = {}
<1>1. /\ Kept(Parsed(registry)) /\ Kept(Parsed(temporary)) /\ \A t \in Servers : Kept(call[t].copy)
      /\ \A t \in Servers : call[t].copy \in Contents
      /\ registry \in Files /\ temporary \in Files
  BY DEF RegistrationsHaveLocks, StateOK, CallType
<1>2. Kept(Nothing) /\ Kept(Parsed(Missing)) /\ Kept(Parsed(Torn)) /\ Kept(Parsed(Empty))
  BY DEF Orphans, Nothing, IsRoleRegistration, Parsed
<1>3. \A t \in Servers : Kept(Parsed(call[t].copy))
  BY <1>1, ContentsAreFiles DEF Files
<1>4. ASSUME WillWrite(s) PROVE Kept(call'[s].copy)
  <2> DEFINE old == Parsed(registry)
             c == call[s]
  <2>1. /\ old \in Contents /\ Kept(old) /\ c \in CallType
        /\ Matches(c, s, workflow, Starting) /\ c.write # "none"
    BY <1>1, <1>4, ContentsAreFiles
    DEF StateOK, CallsMatch, ToolMatches, WillWrite, ReadRegistry, Matches
  <2>2. call'[s].copy = Changed(s, c, old)
    BY <1>4, <2>1 DEF WillWrite, CallType
  <2> HIDE DEF c, old
  <2>3. \A x \in Sessions : old.roles[x] # None /\ old.roles[x].workflow # None => old.locks[old.roles[x].workflow] # None
    BY <2>1 DEF Orphans, IsRoleRegistration, IsWorkflowLock
  <2>4. ASSUME NEW S PROVE Kept(WithoutRoles(old, S))
    BY <2>1, <2>3 DEF WithoutRoles, Orphans, IsRoleRegistration, IsWorkflowLock, Contents
  <2>5. CASE c.write \in {"sweep", "revoke"}
    BY <2>2, <2>4, <2>5 DEF Changed
  <2>6. CASE c.write = "unlock"
    <3>1. c.workflow \in Workflows
      BY <2>1, <2>6 DEF Matches, Ends
    <3>2. Kept(WithoutWorkflow(old, c.workflow))
      BY <2>1, <2>3, <3>1
      DEF WithoutWorkflow, WithoutRoles, RolesOf, Orphans, IsRoleRegistration,
         IsWorkflowLock, Contents
    <3>3. QED
      BY <2>2, <2>6, <3>2 DEF Changed
  <2>7. CASE c.write = "lock"
    <3>1. c.workflow \in Workflows
      BY <2>1, <2>7 DEF Matches, Knows
    <3>2. Kept(WithLock(old, c.workflow, ProjectOf[s]))
      <4>1. [project |-> ProjectOf[s], tree |-> FALSE] # None
        <5>1. ProjectOf[s] \in Projects
          BY ServersAssumption
        <5>2. [project |-> ProjectOf[s], tree |-> FALSE] \in Lock
          BY <5>1 DEF Lock
        <5>3. QED
          BY <5>2, AbsenceAssumption
      <4>2. QED
        BY <2>1, <2>3, <3>1, <4>1
        DEF WithLock, Orphans, IsRoleRegistration, IsWorkflowLock, Contents
    <3>3. QED
      BY <2>2, <2>7, <3>2 DEF Changed
  <2>8. CASE c.write = "tree"
    <3>1. c.workflow \in Workflows
      BY <2>1, <2>8 DEF Matches, Knows, CallType
    <3>2. old.locks[c.workflow] \in Lock
      BY <1>4, <2>1, <2>8, <3>1 DEF WillWrite, IsWritten, IsWorkflowLock, Contents, c, old
    <3>3. [old.locks[c.workflow] EXCEPT !.tree = TRUE] # None
      BY <3>2, AbsenceAssumption DEF Lock
    <3>4. Kept(WithWorktree(old, c.workflow))
      BY <2>1, <2>3, <3>1, <3>3
      DEF WithWorktree, Orphans, IsRoleRegistration, IsWorkflowLock, Contents
    <3>5. QED
      BY <2>2, <2>8, <3>4 DEF Changed
  <2>9. CASE c.write = "register"
    <3> DEFINE r == [role |-> c.role, project |-> ProjectOf[s], workflow |-> c.workflow]
    <3>1. c.session \in Sessions
      BY <2>1, <2>9 DEF Matches
    <3>2. c.workflow # None => old.locks[c.workflow] # None
      BY <1>4, <2>9 DEF WillWrite, MayRegister, IsWorkflowLock, c, old
    <3>3. r.workflow = c.workflow
      OBVIOUS
    <3> HIDE DEF r
    <3>4. Kept(WithRole(old, c.session, r))
      BY <2>1, <2>3, <3>1, <3>2, <3>3
      DEF WithRole, Orphans, IsRoleRegistration, IsWorkflowLock, Contents
    <3>5. QED
      BY <2>2, <2>9, <3>4 DEF Changed, r
  <2>10. QED
    BY <2>1, <2>5, <2>6, <2>7, <2>8, <2>9 DEF CallType, Writes
<1>5. Kept(Parsed(registry')) /\ Kept(Parsed(temporary'))
  BY <1>1, <1>2, <1>3, FilesStep
<1>6. ASSUME NEW t \in Servers PROVE Kept(call'[t].copy)
  BY <1>1, <1>2, <1>4, FilesStep
<1>7. QED
  BY <1>5, <1>6 DEF RegistrationsHaveLocks, Parsed

-----------------------------------------------------------------------------
(* No step brings in a registration that was not asked for. *)
LEMMA GrantsStep ==
  ASSUME StateOK, CallsMatch, RegistrationsWereGranted, NEW s \in Servers, Step(s)
  PROVE  RegistrationsWereGranted'
<1>1. /\ GrantedIn(Parsed(registry), granted) /\ GrantedIn(Parsed(temporary), granted)
      /\ \A t \in Servers : GrantedIn(call[t].copy, granted \cup New(t))
      /\ \A t \in Servers : call[t].copy \in Contents
      /\ registry \in Files /\ temporary \in Files
  BY DEF RegistrationsWereGranted, StateOK, CallType, GrantedIn
<1>2. ASSUME NEW c, NEW g, NEW h, GrantedIn(c, g), g \subseteq h PROVE GrantedIn(c, h)
  BY <1>2 DEF GrantedIn
<1>3. \A g : /\ GrantedIn(Nothing, g) /\ GrantedIn(Parsed(Missing), g)
             /\ GrantedIn(Parsed(Torn), g) /\ GrantedIn(Parsed(Empty), g)
  BY DEF GrantedIn, Nothing, IsRoleRegistration, Parsed
<1>4. granted \subseteq granted'
  BY FilesStep
<1>5. ASSUME WriteTemporary(s) PROVE GrantedIn(Parsed(call[s].copy), granted')
  <2>1. New(s) \subseteq granted'
    BY <1>5 DEF WriteTemporary, New
  <2>2. GrantedIn(call[s].copy, granted')
    BY <1>1, <1>2, <1>4, <2>1
  <2>3. QED
    BY <1>1, <2>2, ContentsAreFiles DEF Files
<1>6. GrantedIn(Parsed(registry'), granted')
  <2>1. CASE WriteTemporary(s) /\ registry' = call[s].copy
    BY <1>5, <2>1
  <2>2. CASE registry' \in {registry, temporary, Missing, Torn}
    BY <1>1, <1>2, <1>3, <1>4, <2>2
  <2>3. QED
    BY <2>1, <2>2, FilesStep
<1>7. GrantedIn(Parsed(temporary'), granted')
  <2>1. CASE WriteTemporary(s) /\ temporary' = call[s].copy
    BY <1>5, <2>1
  <2>2. CASE temporary' \in {temporary, Missing, Empty, Torn}
    BY <1>1, <1>2, <1>3, <1>4, <2>2
  <2>3. QED
    BY <2>1, <2>2, FilesStep
<1>8. ASSUME NEW t \in Servers, t # s PROVE GrantedIn(call'[t].copy, granted' \cup New(t)')
  <2>1. call'[t].copy = call[t].copy /\ New(t)' = New(t)
    <3>1. /\ call'[t].copy = call[t].copy /\ call'[t].pc = call[t].pc
          /\ call'[t].role = call[t].role
          /\ call'[t].write = call[t].write /\ call'[t].session = call[t].session
          /\ call'[t].workflow = call[t].workflow
      <4>1. call'[t] = [call[t] EXCEPT !.at = call'[t].at] /\ call[t] \in CallType
        BY <1>8, OthersStay DEF StateOK
      <4>2. QED
        BY <4>1 DEF CallType
    <3>2. QED
      BY <3>1 DEF New
  <2>2. GrantedIn(call[t].copy, granted \cup New(t))
    BY <1>1
  <2>3. granted \cup New(t) \subseteq granted' \cup New(t)
    BY <1>4
  <2>4. GrantedIn(call[t].copy, granted' \cup New(t))
    BY <1>2, <2>2, <2>3
  <2>5. QED
    BY <2>1, <2>4
<1>9. GrantedIn(call'[s].copy, granted' \cup New(s)')
  <2>1. CASE WillWrite(s)
    <3> DEFINE old == Parsed(registry)
               c == call[s]
    <3>1. old \in Contents /\ GrantedIn(old, granted') /\ c \in CallType
      BY <1>1, <1>2, <1>4, ContentsAreFiles DEF StateOK
    <3>2. /\ Matches(c, s, workflow, Starting) /\ c.write # "none"
          /\ call'[s].copy = Changed(s, c, old)
          /\ call'[s].write = c.write /\ call'[s].pc = "open" /\ call'[s].session = c.session
          /\ call'[s].role = c.role /\ call'[s].workflow = c.workflow
      BY <2>1, <3>1 DEF WillWrite, CallType, CallsMatch, ToolMatches, ReadRegistry, Matches
    <3> HIDE DEF c, old
    <3>3. CASE c.write = "register"
      <4> DEFINE r == [role |-> c.role, project |-> ProjectOf[s], workflow |-> c.workflow]
      <4>1. r.role = c.role /\ r.workflow = c.workflow /\ c.session \in Sessions
        BY <3>2, <3>3 DEF Matches
      <4>2. New(s)' = {[session |-> c.session, role |-> c.role, workflow |-> c.workflow]}
        BY <3>2, <3>3 DEF New
      <4> HIDE DEF r
      <4>3. GrantedIn(WithRole(old, c.session, r), granted' \cup New(s)')
        BY <3>1, <4>1, <4>2 DEF WithRole, GrantedIn, IsRoleRegistration, Contents
      <4>4. QED
        BY <3>2, <3>3, <4>3 DEF Changed, r
    <3>4. CASE c.write # "register"
      <4>1. ASSUME NEW S PROVE GrantedIn(WithoutRoles(old, S), granted')
        BY <3>1 DEF GrantedIn, WithoutRoles, IsRoleRegistration, Contents
      <4>2. CASE c.write \in {"sweep", "revoke"}
        BY <1>2, <3>2, <4>1, <4>2 DEF Changed
      <4>3. CASE c.write = "unlock"
        <5>1. GrantedIn(WithoutWorkflow(old, c.workflow), granted')
          BY <3>1 DEF GrantedIn, WithoutWorkflow, WithoutRoles, IsRoleRegistration, Contents
        <5>2. QED
          BY <1>2, <3>2, <4>3, <5>1 DEF Changed
      <4>4. CASE c.write = "lock"
        <5>1. GrantedIn(WithLock(old, c.workflow, ProjectOf[s]), granted')
          BY <3>1 DEF GrantedIn, WithLock, IsRoleRegistration, Contents
        <5>2. QED
          BY <1>2, <3>2, <4>4, <5>1 DEF Changed
      <4>5. CASE c.write = "tree"
        <5>1. GrantedIn(WithWorktree(old, c.workflow), granted')
          BY <3>1 DEF GrantedIn, WithWorktree, IsRoleRegistration, Contents
        <5>2. QED
          BY <1>2, <3>2, <4>5, <5>1 DEF Changed
      <4>6. QED
        BY <3>1, <3>2, <3>4, <4>2, <4>3, <4>4, <4>5 DEF CallType, Writes
    <3>5. QED
      BY <3>3, <3>4
  <2>2. CASE call'[s].copy = Nothing
    BY <1>3, <2>2
  <2>3. CASE call'[s].copy = call[s].copy /\ ~WillWrite(s) /\ call'[s] # Idle
    <3>1. ASSUME New(s) # {} PROVE New(s) \subseteq granted' \cup New(s)'
      <4>1. /\ call[s].write = "register" /\ call[s].pc \in {"open", "write"}
            /\ call[s].tool = "register"
            /\ call[s] \in CallType /\ call \in [Servers -> CallType]
        BY <3>1 DEF New, CallsMatch, ToolMatches, Matches, StateOK
      <4>2. OpenTemporary(s) \/ WriteTemporary(s) \/ Fails(s) \/ Exit(s)
        BY <4>1, BeginsFresh, AskedCalls
        DEF Step, RequireRoleSession, DaemonRefuses, ReadRegistry, RemoveRegistry,
            RenameTemporary, CancelStarted
      <4>3. CASE Fails(s) \/ Exit(s)
        <5>1. call'[s] = Idle
          BY <4>1, <4>3 DEF Fails, NothingToRename, WriteFails, FailedWrite, Throw, Exit
        <5>2. QED
          BY <2>3, <5>1
      <4>4. CASE OpenTemporary(s)
        <5>1. New(s)' = New(s)
          BY <4>1, <4>4 DEF OpenTemporary, New, CallType
        <5>2. QED
          BY <5>1
      <4>5. CASE WriteTemporary(s)
        BY <4>5 DEF WriteTemporary, New
      <4>6. QED
        BY <4>2, <4>3, <4>4, <4>5
    <3>2. granted \cup New(s) \subseteq granted' \cup New(s)'
      BY <1>4, <3>1
    <3>3. GrantedIn(call[s].copy, granted' \cup New(s)')
      BY <1>1, <1>2, <3>2
    <3>4. QED
      BY <2>3, <3>3
  <2>4. CASE call'[s] = Idle
    BY <2>2, <2>4 DEF Idle
  <2>5. QED
    BY <2>1, <2>2, <2>3, <2>4, FilesStep
<1>10. QED
  BY <1>6, <1>7, <1>8, <1>9 DEF RegistrationsWereGranted, GrantedIn, Parsed

(* Only a call that begins, or whose role was found, goes to the daemon. *)
LEMMA NotAsking ==
  ASSUME StateOK, CallsMatch, NEW s \in Servers, Step(s), ~Begins(s), ~RequireRoleSession(s)
  PROVE  call'[s].pc # "daemon"
<1>1. call[s] \in CallType /\ call \in [Servers -> CallType] /\ Idle.pc = "idle"
  BY DEF StateOK, Idle
<1>2. Throw(call[s]).pc \in {"read", "idle"}
  BY <1>1 DEF Throw, CallType
<1>3. ASSUME NEW c \in Going, NEW others \in [Servers -> CallType], Finish(s, c, others)
      PROVE  call'[s].pc \in {"read", "idle"}
  BY <1>1, <1>3 DEF Finish, Going
<1>4. CASE Asks(s)
  <2>1. PICK c, astray : (Answered(s, c) \/ AnswerLost(s, astray)) /\ SameCall(c, s)
    BY <1>4, AskedCalls DEF Handed
  <2>2. CASE AnswerLost(s, astray)
    BY <1>1, <1>2, <2>2 DEF AnswerLost
  <2>3. CASE Answered(s, c) /\ c.pc = "done"
    BY <1>1, <1>3, <2>1, <2>3 DEF Answered, SameCall
  <2>4. CASE Answered(s, c) /\ c.pc # "done"
    BY <1>1, <2>1, <2>4 DEF Answered, SameCall
  <2>5. QED
    BY <2>1, <2>2, <2>3, <2>4
<1>5. CASE DaemonRefuses(s) \/ Fails(s) \/ CancelStarted(s) \/ Exit(s)
  <2>1. call'[s] \in {Idle, Throw(call[s]), [call[s] EXCEPT !.pc = "cancel"]}
    BY <1>1, <1>5
    DEF DaemonRefuses, Fails, NothingToRename, WriteFails, FailedWrite, CancelStarted, Exit
  <2>2. QED
    BY <1>1, <1>2, <2>1 DEF CallType
<1>6. CASE ReadRegistry(s)
  <2>1. CASE Finish(s, call[s], call)
    <3>1. call[s] \in Going
      BY <1>1 DEF CallType, Going
    <3>2. QED
      BY <1>1, <1>3, <2>1, <3>1
  <2>2. CASE ~Finish(s, call[s], call)
    <3>1. PICK copy : call'[s] \in {Idle, [call[s] EXCEPT !.pc = "open", !.copy = copy]}
      BY <1>1, <1>6, <2>2 DEF ReadRegistry
    <3>2. QED
      BY <1>1, <3>1 DEF CallType
  <2>3. QED
    BY <2>1, <2>2
<1>7. CASE OpenTemporary(s) \/ WriteTemporary(s) \/ RemoveRegistry(s)
  BY <1>1, <1>7 DEF OpenTemporary, WriteTemporary, RemoveRegistry, CallType
<1>8. CASE RenameTemporary(s)
  <2>1. call'[s] \in {Idle, [call[s] EXCEPT !.pc = "read", !.write = "sweep"]}
    BY <1>8 DEF RenameTemporary, Finish
  <2>2. QED
    BY <1>1, <2>1 DEF CallType
<1>9. QED
  BY <1>4, <1>5, <1>6, <1>7, <1>8 DEF Step

(* Who submits was found in the registry in the role that it takes. *)
LEMMA CheckedStep ==
  ASSUME StateOK, CallsMatch, RegistrationsWereGranted, CheckedWereGranted, NEW s \in Servers, Step(s)
  PROVE  CheckedWereGranted'
<1> DEFINE Held(c, g) == c.tool \in Submitting /\ c.pc = "daemon" =>
             \E x \in g : x.session = c.session /\ x.workflow = c.workflow /\ x.role \in Submitters[c.tool]
<1>1. /\ \A t \in Servers : Held(call[t], granted)
      /\ granted \subseteq granted' /\ call[s] \in CallType /\ call \in [Servers -> CallType]
  BY FilesStep DEF CheckedWereGranted, StateOK
<1>2. ASSUME NEW t \in Servers, t # s PROVE Held(call'[t], granted')
  <2>1. /\ call'[t].tool = call[t].tool /\ call'[t].pc = call[t].pc
        /\ call'[t].session = call[t].session
        /\ call'[t].workflow = call[t].workflow
    BY <1>2, OthersStay DEF StateOK, CallType
  <2>2. Held(call[t], granted)
    BY <1>1
  <2>3. QED
    BY <1>1, <2>1, <2>2
<1>3. ASSUME RequireRoleSession(s) PROVE Held(call'[s], granted')
  <2> DEFINE c == call[s]
             r == Parsed(registry).roles[c.session]
  <2>1. ASSUME call'[s] = Idle PROVE Held(call'[s], granted')
    BY <2>1 DEF Idle, Submitting
  <2>2. ASSUME call'[s] # Idle PROVE Held(call'[s], granted')
    <3>1. /\ r # None /\ r.role \in ExpectedRoles(c.tool) /\ r.workflow = c.workflow
          /\ c.pc = "check" /\ call'[s] = [c EXCEPT !.pc = "daemon"]
      BY <1>1, <1>3, <2>2 DEF RequireRoleSession
    <3>2. c.session \in Sessions /\ c.tool \in Submitting
      BY <3>1 DEF CallsMatch, ToolMatches, Matches
    <3> DEFINE g == [session |-> c.session, role |-> r.role, workflow |-> r.workflow]
    <3>3. g \in granted
      BY <3>1, <3>2 DEF RegistrationsWereGranted, GrantedIn, IsRoleRegistration
    <3>4. ExpectedRoles(c.tool) = Submitters[c.tool]
      BY <3>2 DEF Submitting, ExpectedRoles, Submitters
    <3>5. /\ g.session = c.session /\ g.workflow = c.workflow
          /\ g.role \in Submitters[c.tool] /\ g \in granted'
      BY <1>1, <3>1, <3>3, <3>4
    <3>6. /\ call'[s].tool = c.tool /\ call'[s].session = c.session
          /\ call'[s].workflow = c.workflow
      BY <1>1, <3>1 DEF CallType
    <3> HIDE DEF g, r, c
    <3>7. Held(call'[s], granted')
      BY <3>5, <3>6
    <3>8. QED
      BY <3>7
  <2>3. QED
    BY <2>1, <2>2
<1>4. ASSUME ~RequireRoleSession(s) PROVE Held(call'[s], granted')
  <2>1. CASE Begins(s)
    BY <2>1, BeginsFresh DEF Fresh, Submitting, Controls
  <2>2. CASE ~Begins(s)
    BY <1>4, <2>2, NotAsking
  <2>3. QED
    BY <2>1, <2>2
<1>5. QED
  BY <1>2, <1>3, <1>4 DEF CheckedWereGranted

-----------------------------------------------------------------------------
(* What a step adds to the history. *)
LEMMA HistoryStep ==
  ASSUME StateOK, CallsMatch, NEW s \in Servers, Step(s)
  PROVE  /\ history.astray \subseteq history'.astray
         /\ \/ history'.recorded = history.recorded
            \/ /\ call[s].tool = "prepare" /\ call[s].pc \in {"read", "rename"}
               /\ history'.recorded = history.recorded \cup {call[s].workflow}
         /\ \/ history'.ended = history.ended
            \/ /\ call[s].result = "ended" /\ call[s].workflow # None
               /\ call[s].pc \in {"read", "rename"}
               /\ history'.ended = history.ended \cup {call[s].workflow}
         /\ history'.swept \subseteq history.swept \cup Over(s)
<1> DEFINE Good == /\ history.astray \subseteq history'.astray
         /\ \/ history'.recorded = history.recorded
            \/ /\ call[s].tool = "prepare" /\ call[s].pc \in {"read", "rename"}
               /\ history'.recorded = history.recorded \cup {call[s].workflow}
         /\ \/ history'.ended = history.ended
            \/ /\ call[s].result = "ended" /\ call[s].workflow # None
               /\ call[s].pc \in {"read", "rename"}
               /\ history'.ended = history.ended \cup {call[s].workflow}
         /\ history'.swept \subseteq history.swept \cup Over(s)
<1>1. call[s] \in CallType /\ call \in [Servers -> CallType] /\ history \in HistoryType
  BY DEF StateOK
<1>2. CASE UNCHANGED history
  BY <1>2
<1>3. ASSUME NEW c \in Going, NEW others, Finish(s, c, others)
      PROVE  /\ history'.astray = history.astray
             /\ history'.recorded = IF c.tool = "prepare" THEN history.recorded \cup {c.workflow}
                                    ELSE history.recorded
             /\ \/ history'.ended = history.ended
                \/ /\ c.result = "ended" /\ c.workflow # None
                   /\ history'.ended = history.ended \cup {c.workflow}
             /\ history'.swept \subseteq history.swept \cup Over(s)
  BY <1>1, <1>3 DEF Finish, HistoryType
<1>4. CASE Asks(s)
  <2>1. PICK c, astray : (Answered(s, c) \/ AnswerLost(s, astray)) /\ SameCall(c, s)
    BY <1>4, AskedCalls DEF Handed
  <2>2. CASE AnswerLost(s, astray)
    BY <1>1, <2>2 DEF AnswerLost, HistoryType
  <2>3. CASE Answered(s, c) /\ c.pc = "done"
    <3>1. c \in Going /\ c.tool # "prepare" /\ (c.result = "ended" => c.workflow = None)
      BY <2>1, <2>3 DEF SameCall
    <3>2. Finish(s, c, call)
      BY <2>3 DEF Answered
    <3>3. QED
      BY <1>3, <3>1, <3>2
  <2>4. CASE Answered(s, c) /\ c.pc # "done"
    BY <1>2, <2>4 DEF Answered
  <2>5. QED
    BY <2>1, <2>2, <2>3, <2>4
<1>5. CASE DaemonRefuses(s)
  BY <1>1, <1>5 DEF DaemonRefuses, HistoryType
<1>6. CASE ReadRegistry(s)
  <2>1. call[s].pc = "read" /\ call[s] \in Going
    BY <1>1, <1>6 DEF ReadRegistry, CallType, Going
  <2>2. CASE Finish(s, call[s], call)
    BY <1>3, <2>1, <2>2
  <2>3. CASE history' = [history EXCEPT !.astray = @ \cup LateLock(call[s])]
    BY <1>1, <2>3 DEF HistoryType
  <2>4. QED
    BY <1>2, <1>6, <2>2, <2>3 DEF ReadRegistry
<1>7. CASE RenameTemporary(s)
  <2>1. call[s].pc = "rename" /\ call[s] \in Going
    BY <1>1, <1>7 DEF RenameTemporary, CallType, Going
  <2>2. \E others : Finish(s, call[s], others)
    BY <1>7 DEF RenameTemporary
  <2>3. QED
    BY <1>3, <2>1, <2>2
<1>8. CASE CancelStarted(s) \/ Exit(s)
  BY <1>1, <1>8 DEF CancelStarted, Exit, HistoryType
<1>9. QED
  BY <1>2, <1>4, <1>5, <1>6, <1>7, <1>8, BeginsFresh
  DEF Step, RequireRoleSession, OpenTemporary, WriteTemporary, RemoveRegistry, Fails,
      NothingToRename, WriteFails, FailedWrite

(* A worktree is recorded only by a prepare_worktree, of a workflow whose  *)
(* start is over.                                                          *)
LEMMA RecordedStep ==
  ASSUME StateOK, CallsMatch, RecordedIsOver, NEW s \in Servers, Step(s)
  PROVE  RecordedIsOver'
<1>1. ASSUME NEW w \in history'.recorded, w # None
      PROVE  Known(w) /\ w \notin Starting
  <2>1. CASE w \in history.recorded
    BY <1>1, <2>1 DEF RecordedIsOver, StateOK, HistoryType
  <2>2. CASE call[s].tool = "prepare" /\ w = call[s].workflow
    BY <2>2 DEF CallsMatch, ToolMatches, Matches, Known
  <2>3. QED
    BY <2>1, <2>2, HistoryStep
<1>2. ASSUME NEW w \in history'.recorded, w # None
      PROVE  Known(w)' /\ w \notin Starting'
  <2>1. w \in Workflows
    BY <1>1, <1>2 DEF Known, Knows
  <2>2. QED
    BY <1>1, <1>2, <2>1, WorkflowsGoOn, StartingIsNew
<1>3. QED
  BY <1>2, NoneAssumption DEF RecordedIsOver

(* A sweep that knows of an end is a recovery that was told of it. *)
LEMMA NewSweeps ==
  ASSUME StateOK, CallsMatch, NEW s \in Servers, Step(s), NEW w \in Workflows,
         call'[s].write = "sweep", call'[s].result = "ended", call'[s].workflow = w
  PROVE  /\ call[s].result = "ended" /\ call[s].workflow = w /\ call[s].write \in {"unlock", "sweep"}
         /\ call[s].write = "unlock" => RenameTemporary(s)
<1>1. /\ call[s] \in CallType /\ call \in [Servers -> CallType] /\ Idle.write = "none"
      /\ Matches(call[s], s, workflow, Starting) /\ w # None
  BY NoneAssumption DEF StateOK, Idle, CallsMatch, ToolMatches
<1>2. CASE Begins(s)
  BY <1>2, BeginsFresh DEF Fresh
<1>3. CASE call'[s] = Throw(call[s])
  BY <1>1, <1>3 DEF Throw, CallType
<1>4. CASE Asks(s)
  <2>1. PICK c, astray : (Answered(s, c) \/ AnswerLost(s, astray)) /\ SameCall(c, s)
    BY <1>4, AskedCalls DEF Handed
  <2>2. CASE AnswerLost(s, astray)
    BY <1>1, <1>3, <2>2 DEF AnswerLost
  <2>3. CASE Answered(s, c) /\ c.pc = "done"
    <3>1. c \in Going /\ (c.result = "ended" => c.workflow = None)
      BY <2>1, <2>3 DEF SameCall
    <3>2. call'[s] = [c EXCEPT !.pc = "read", !.write = "sweep"]
      BY <1>1, <2>3 DEF Answered, Finish
    <3>3. QED
      BY <1>1, <3>1, <3>2 DEF Going
  <2>4. CASE Answered(s, c) /\ c.pc # "done"
    <3>1. call'[s] = c
      BY <1>1, <2>4 DEF Answered
    <3>2. QED
      BY <1>1, <2>1, <3>1 DEF SameCall
  <2>5. QED
    BY <2>1, <2>2, <2>3, <2>4
<1>5. CASE DaemonRefuses(s) \/ Fails(s) \/ RequireRoleSession(s) \/ CancelStarted(s) \/ Exit(s)
  <2>1. \/ call'[s] \in {Idle, Throw(call[s])}
        \/ call[s].write = "lock" /\ call'[s] = [call[s] EXCEPT !.pc = "cancel"]
        \/ call[s].pc = "check" /\ call'[s] = [call[s] EXCEPT !.pc = "daemon"]
    BY <1>1, <1>5
    DEF DaemonRefuses, Fails, NothingToRename, WriteFails, FailedWrite, RequireRoleSession,
       CancelStarted, Exit
  <2>2. call[s].pc = "check" => call[s].write = "none"
    BY <1>1 DEF Matches
  <2>3. QED
    BY <1>1, <1>3, <2>1, <2>2 DEF CallType
<1>6. CASE ReadRegistry(s)
  <2>1. PICK copy : \/ call'[s] \in {Idle, [call[s] EXCEPT !.pc = "open", !.copy = copy]}
                    \/ ~IsWritten(call[s], Parsed(registry)) /\ Finish(s, call[s], call)
    BY <1>1, <1>6 DEF ReadRegistry
  <2>2. CASE ~IsWritten(call[s], Parsed(registry)) /\ Finish(s, call[s], call)
    <3>1. call[s].write \in {"tree", "sweep"}
      BY <2>2 DEF IsWritten
    <3>2. call'[s] \in {Idle, [call[s] EXCEPT !.pc = "read", !.write = "sweep"]}
      BY <1>1, <2>2 DEF Finish
    <3>3. call[s].result = "ended" /\ call[s].workflow = w
      BY <1>1, <3>2 DEF CallType
    <3>4. QED
      BY <1>1, <3>1, <3>3 DEF Matches
  <2>3. CASE call'[s] = [call[s] EXCEPT !.pc = "open", !.copy = copy]
    <3>1. call[s].write = "sweep" /\ call[s].result = "ended" /\ call[s].workflow = w
      BY <1>1, <2>3 DEF CallType
    <3>2. QED
      BY <3>1
  <2>4. QED
    BY <1>1, <2>1, <2>2, <2>3
<1>7. CASE OpenTemporary(s) \/ WriteTemporary(s) \/ RemoveRegistry(s)
  <2>1. /\ call'[s].write = call[s].write /\ call'[s].result = call[s].result
        /\ call'[s].workflow = call[s].workflow
    BY <1>1, <1>7 DEF OpenTemporary, WriteTemporary, RemoveRegistry, CallType
  <2>2. QED
    BY <2>1
<1>8. CASE RenameTemporary(s)
  <2>1. call'[s] \in {Idle, [call[s] EXCEPT !.pc = "read", !.write = "sweep"]}
    BY <1>8 DEF RenameTemporary, Finish
  <2>2. call[s].result = "ended" /\ call[s].workflow = w
    BY <1>1, <2>1 DEF CallType
  <2>3. QED
    BY <1>1, <1>8, <2>2 DEF Matches
<1>9. QED
  BY <1>2, <1>4, <1>5, <1>6, <1>7, <1>8 DEF Step

(* Who is told of an end is told of one, by an unlock that is renamed into *)
(* place.                                                                  *)
LEMMA ToldStep ==
  ASSUME StateOK, CallsMatch, ToldIsEnded, NEW s \in Servers, Step(s)
  PROVE  /\ ToldIsEnded'
         /\ \A w \in Workflows : Told(w)' => \/ Told(w)
                                             \/ /\ RenameTemporary(s) /\ call[s].write = "unlock"
                                                /\ call[s].workflow = w
<1>1. ASSUME NEW w \in Workflows, Told(w)'
      PROVE  \/ Told(w)
             \/ /\ RenameTemporary(s) /\ call[s].write = "unlock" /\ call[s].workflow = w
  <2>1. CASE w \in history.ended
    BY <2>1 DEF Told
  <2>2. CASE w \in history'.ended /\ w \notin history.ended
    <3>1. /\ call[s].result = "ended" /\ call[s].workflow = w
          /\ call[s].pc \in {"read", "rename"}
          /\ history' # history
      BY <2>2, HistoryStep
    <3>2. call[s].write \in {"unlock", "sweep"}
      BY <3>1 DEF CallsMatch, ToolMatches, Matches
    <3>3. CASE call[s].write = "sweep"
      BY <3>1, <3>3 DEF Told
    <3>4. CASE call[s].write = "unlock"
      <4>1. ~ReadRegistry(s)
        <5>1. SUFFICES ASSUME ReadRegistry(s) PROVE FALSE
          OBVIOUS
        <5>2. IsWritten(call[s], Parsed(registry))
          BY <3>4 DEF IsWritten
        <5>3. history' = [history EXCEPT !.astray = @ \cup LateLock(call[s])]
          BY <3>1, <3>4, <5>1, <5>2 DEF ReadRegistry
        <5>4. QED
          BY <2>2, <5>3 DEF StateOK, HistoryType
      <4>2. call[s].pc = "rename" \/ call[s].pc = "read"
        BY <3>1
      <4>3. RenameTemporary(s)
        <5>1. ~Exit(s)
          BY <2>2 DEF Exit, StateOK, HistoryType
        <5>2. QED
          BY <3>1, <4>1, <4>2, <5>1, BeginsFresh, AskedCalls
          DEF Step, RequireRoleSession, DaemonRefuses, OpenTemporary, WriteTemporary,
              RemoveRegistry,
              Fails, NothingToRename, WriteFails, FailedWrite, CancelStarted
      <4>4. QED
        BY <3>1, <3>4, <4>3
    <3>5. QED
      BY <3>2, <3>3, <3>4
  <2>3. ASSUME NEW t \in Servers, call'[t].write = "sweep", call'[t].result = "ended", call'[t].workflow = w
        PROVE  \/ Told(w)
               \/ /\ RenameTemporary(s) /\ call[s].write = "unlock" /\ call[s].workflow = w
    <3>1. CASE t = s
      BY <2>3, <3>1, NewSweeps DEF Told
    <3>2. CASE t # s
      <4>1. call'[t] = [call[t] EXCEPT !.at = call'[t].at] /\ call[t] \in CallType
        BY <3>2, OthersStay DEF StateOK
      <4>2. call[t].write = "sweep" /\ call[t].result = "ended" /\ call[t].workflow = w
        BY <2>3, <4>1 DEF CallType
      <4>3. QED
        BY <4>2 DEF Told
    <3>3. QED
      BY <3>1, <3>2
  <2>4. QED
    BY <1>1, <2>1, <2>2, <2>3 DEF Told
<1>2. ASSUME NEW w \in Workflows, Told(w)' PROVE Ended(w)'
  <2>1. Ended(w)
    <3>1. CASE Told(w)
      BY <3>1 DEF ToldIsEnded
    <3>2. CASE call[s].write = "unlock" /\ call[s].workflow = w
      BY <3>2 DEF CallsMatch, ToolMatches, Matches, Ended
    <3>3. QED
      BY <1>1, <1>2, <3>1, <3>2
  <2>2. QED
    BY <2>1, WorkflowsGoOn
<1>3. QED
  BY <1>1, <1>2 DEF ToldIsEnded

-----------------------------------------------------------------------------
(* A step that leaves the files and the other calls alone, and writes none. *)
LEMMA QuietKeepsOrder ==
  ASSUME StateOK, CallsMatch, RecordedIsOver', InOrder, NEW s \in Servers, Step(s),
         UNCHANGED <<registry, temporary>>, ~InWrite(s)', call[s].pc # "rename",
         \A t \in Servers \ {s} : call'[t] = call[t],
         \A w \in Workflows \ history'.astray :
           /\ workflow'[w].state = "active" /\ w \notin Starting' =>
                /\ workflow[w].state = "active" /\ w \notin Starting
                /\ w \in history'.recorded => w \in history.recorded
           /\ Told(w)' => Told(w)
           /\ w \in history'.swept =>
                \/ w \in history.swept
                \/ RolesOf(Parsed(registry), w) = {} /\ \A t \in Servers \ {s} : ~InWrite(t)
  PROVE  InOrder'
<1>1. ASSUME NEW t \in Servers, InWrite(t)' PROVE t # s /\ call'[t] = call[t] /\ InWrite(t)
  BY <1>1 DEF InWrite
<1>2. OneWriter'
  BY <1>1 DEF OneWriter, InOrder
<1>3. TemporaryFollows'
  <2>1. ASSUME NEW t \in Servers, t # s
        PROVE  /\ call'[t].pc = "write" => call'[t].at = "temporary" /\ temporary' = Empty
               /\ call'[t].pc \in {"remove", "rename"} => temporary' = call'[t].copy
    BY <2>1 DEF TemporaryFollows, InOrder
  <2>2. call'[s].pc \notin {"write", "remove", "rename"}
    BY DEF InWrite
  <2>3. QED
    BY <2>1, <2>2 DEF TemporaryFollows
<1>4. ~Renaming' => ~Renaming
  BY DEF Renaming
<1>5. ASSUME NEW w \in Workflows \ history'.astray
      PROVE  /\ ~Renaming' => RegistryInOrder(w)'
             /\ \A t \in Servers : InWrite(t)' => CopyInOrder(t, w)'
  <2>1. w \notin history.astray
    BY <1>5, HistoryStep
  <2>2. Known(w) => workflow'[w].project = workflow[w].project
    BY WorkflowsGoOn
  <2>3. ASSUME workflow'[w].state = "active", w \notin Starting', NEW content, Locked(content, w)
        PROVE  LockedIn(content, w, workflow', history'.recorded)
    <3>1. workflow[w].state = "active" /\ (w \in history'.recorded => w \in history.recorded)
      BY <1>5, <2>3
    <3>2. Known(w)
      BY <3>1 DEF Known, Knows
    <3>3. QED
      BY <2>2, <2>3, <3>1, <3>2 DEF Locked, LockedIn
  <2>4. ASSUME ~Renaming' PROVE RegistryInOrder(w)'
    <3>1. RegistryInOrder(w)
      BY <1>4, <2>1, <2>4 DEF InOrder, ContentsInOrder
    <3> DEFINE content == Parsed(registry)
    <3>2. Parsed(registry') = content
      BY DEF Parsed
    <3> HIDE DEF content
    <3>3. workflow'[w].state = "active" /\ w \notin Starting' => LockedIn(content, w, workflow', history'.recorded)
      BY <1>5, <2>3, <3>1 DEF RegistryInOrder, content
    <3>4. Told(w)' => Released(content, w)
      BY <1>5, <3>1 DEF RegistryInOrder, content
    <3>5. w \in history'.swept => RolesOf(content, w) = {}
      BY <1>5, <3>1 DEF RegistryInOrder, content
    <3>6. QED
      BY <3>2, <3>3, <3>4, <3>5 DEF RegistryInOrder, Released, Locked, Parsed
  <2>5. ASSUME NEW t \in Servers, InWrite(t)' PROVE CopyInOrder(t, w)'
    <3>1. t # s /\ call'[t] = call[t] /\ InWrite(t)
      BY <1>1, <2>5
    <3>2. CopyInOrder(t, w)
      BY <2>1, <3>1 DEF InOrder, ContentsInOrder
    <3> DEFINE c == call[t]
    <3>3. ASSUME workflow'[w].state = "active", w \notin Starting'
          PROVE LockedIn(c.copy, w, workflow', history'.recorded)
      BY <1>5, <2>3, <3>2, <3>3 DEF CopyInOrder
    <3>4. ASSUME workflow'[w].state = "active", c.write = "lock" /\ c.workflow = w
          PROVE  LockedIn(c.copy, w, workflow', history'.recorded)
      <4>1. Known(w) /\ c.tool = "start"
        BY <3>4 DEF CallsMatch, ToolMatches, Matches, Known
      <4>2. workflow[w].state = "active"
        BY <3>4, <4>1, WorkflowsGoOn DEF Known, Knows, Ended, Ends, StateOK, WorkflowType
      <4>3. Locked(c.copy, w)
        BY <3>2, <3>4, <4>2 DEF CopyInOrder
      <4>4. w \in Starting'
        BY <3>1, <3>4, <4>1 DEF Starting
      <4>5. w \notin history'.recorded
        BY <4>4, NoneAssumption DEF RecordedIsOver
      <4>6. QED
        BY <2>2, <4>1, <4>3, <4>5 DEF Locked, LockedIn
    <3>5. Told(w)' => Told(w)
      BY <1>5
    <3>6. w \in history'.swept => w \in history.swept
      BY <1>5, <3>1
    <3>7. QED
      BY <3>1, <3>2, <3>3, <3>4, <3>5, <3>6 DEF CopyInOrder, Released, Locked
  <2>6. QED
    BY <2>4, <2>5
<1>6. ContentsInOrder'
  BY <1>5 DEF ContentsInOrder
<1>7. QED
  BY <1>2, <1>3, <1>6 DEF InOrder

(* The steps of a call that has no write under way, and of one that gives up. *)
LEMMA QuietSteps ==
  ASSUME StateOK, CallsMatch, RecordedIsOver, RecordedIsOver', ToldIsEnded, InOrder, calm',
         NEW s \in Servers, Step(s), ~InWrite(s)', call[s].pc # "rename", 
         ~WriteTemporary(s)
  PROVE  InOrder'
<1>1. /\ call[s] \in CallType /\ call \in [Servers -> CallType] /\ Idle.pc = "idle"
      /\ Matches(call[s], s, workflow, Starting) /\ history \in HistoryType
      /\ workflow \in [Workflows -> WorkflowType]
  BY DEF StateOK, CallsMatch, ToolMatches, Idle
<1>2. \/ Begins(s) \/ RequireRoleSession(s) \/ DaemonRefuses(s) \/ Asks(s) \/ ReadRegistry(s)
      \/ Fails(s) \/ CancelStarted(s) \/ Exit(s)
  <2>1. ~OpenTemporary(s)
    BY <1>1 DEF OpenTemporary, InWrite, CallType
  <2>2. ~RemoveRegistry(s)
    BY <1>1 DEF RemoveRegistry, InWrite, CallType
  <2>3. QED
    BY <2>1, <2>2 DEF Step, RenameTemporary
<1>3. /\ UNCHANGED <<registry, temporary>>
      /\ \A t \in Servers \ {s} : call'[t] = call[t]
  <2>1. CASE Asks(s)
    <3>1. PICK c, astray : Answered(s, c) \/ AnswerLost(s, astray)
      BY <2>1, AskedCalls DEF Handed
    <3>2. QED
      BY <1>1, <3>1 DEF Answered, AnswerLost, Finish
  <2>2. CASE Begins(s)
    BY <1>1, <2>2, BeginsFresh
  <2>3. CASE ReadRegistry(s)
    BY <1>1, <2>3 DEF ReadRegistry, Finish
  <2>4. CASE RequireRoleSession(s) \/ DaemonRefuses(s) \/ Fails(s) \/ CancelStarted(s) \/ Exit(s)
    BY <1>1, <2>4 DEF RequireRoleSession, DaemonRefuses, Fails, NothingToRename, WriteFails,
       FailedWrite, CancelStarted, Exit
  <2>5. QED
    BY <1>2, <2>1, <2>2, <2>3, <2>4
<1>4. ASSUME ReadRegistry(s)
      PROVE  \A t \in Servers \ {s} : ~InWrite(t)
  BY <1>4 DEF ReadRegistry
<1>5. ASSUME ReadRegistry(s) PROVE ~Renaming
  BY <1>4, <1>5 DEF Renaming, InWrite, ReadRegistry
<1>6. ~WillWrite(s)
  BY <1>1 DEF WillWrite, InWrite, CallType
<1>7. ASSUME ReadRegistry(s), call'[s] # Idle \/ call[s].write # "register"
      PROVE  /\ ~IsWritten(call[s], Parsed(registry))
             /\ Finish(s, call[s], call)
  <2>1. ~IsWritten(call[s], Parsed(registry)) \/ call[s].write = "register"
    BY <1>1, <1>6, <1>7 DEF ReadRegistry, WillWrite
  <2>2. QED
    BY <1>1, <1>6, <1>7, <2>1 DEF ReadRegistry, WillWrite, IsWritten
<1>8. ASSUME NEW w \in Workflows \ history'.astray, workflow'[w].state = "active", w \notin Starting'
      PROVE  /\ workflow[w].state = "active" /\ w \notin Starting
             /\ w \in history'.recorded => w \in history.recorded
  <2>1. workflow[w].state = "active"
    <3>1. CASE StartWorkflow(s)
      <4>1. PICK v \in Workflows :
              /\ workflow' = [workflow EXCEPT ![v] = [state |-> "active", project |-> ProjectOf[s]]]
              /\ call[s].tool = "start"
              /\ \/ Answered(s, [call[s] EXCEPT !.pc = "read", !.write = "lock", !.workflow = v,
                                      !.result = "active"])
                 \/ AnswerLost(s, {v})
        BY <3>1 DEF StartWorkflow
      <4> DEFINE c == [call[s] EXCEPT !.pc = "read", !.write = "lock", !.workflow = v, !.result = "active"]
      <4>2. c.pc = "read" /\ c.workflow = v /\ c.tool = "start" /\ (Answered(s, c) \/ AnswerLost(s, {v}))
        BY <1>1, <4>1 DEF CallType
      <4> HIDE DEF c
      <4>3. CASE Answered(s, c)
        <5>1. call'[s] = c
          BY <1>1, <4>2, <4>3 DEF Answered
        <5>2. v \in Starting'
          BY <4>2, <5>1 DEF Starting
        <5>3. QED
          BY <1>1, <1>8, <4>1, <5>2
      <4>4. CASE AnswerLost(s, {v})
        <5>1. v \in history'.astray
          BY <1>1, <4>4 DEF AnswerLost, HistoryType
        <5>2. QED
          BY <1>1, <1>8, <4>1, <5>1
      <4>5. QED
        BY <4>2, <4>3, <4>4
    <3>2. QED
      BY <1>8, <3>1, WorkflowsGoOn
  <2>2. w \notin Starting
    <3>1. SUFFICES ASSUME w \in Starting PROVE FALSE
      OBVIOUS
    <3>2. PICK t \in Servers : call[t].tool = "start" /\ call[t].workflow = w
      BY <3>1 DEF Starting
    <3>3. t = s
      BY <1>3, <1>8, <3>2 DEF Starting
    <3>4. /\ call[s].tool = "start" /\ call[s].workflow = w /\ call[s].write = "lock"
          /\ call[s].pc \notin {"idle", "daemon", "check"}
      BY <1>1, <3>2, <3>3, NoneAssumption DEF Matches, Submitting, Idle
    <3>5. ~(call'[s].tool = "start" /\ call'[s].workflow = w)
      BY <1>8 DEF Starting
    <3>6. CASE ReadRegistry(s)
      BY <1>7, <3>4, <3>6 DEF IsWritten
    <3>7. CASE Fails(s)
      <4>1. call'[s] = [call[s] EXCEPT !.pc = "cancel"]
        BY <1>1, <3>4, <3>7 DEF Fails, NothingToRename, WriteFails, FailedWrite
      <4>2. QED
        BY <1>1, <3>4, <3>5, <4>1 DEF CallType
    <3>8. CASE CancelStarted(s)
      BY <1>1, <1>8, <3>4, <3>8 DEF CancelStarted, WorkflowType, HistoryType
    <3>9. CASE Exit(s)
      BY <1>1, <1>8, <3>1, <3>4, <3>9 DEF Exit, HistoryType
    <3>10. QED
      BY <1>2, <3>4, <3>6, <3>7, <3>8, <3>9, BeginsFresh, AskedCalls
      DEF RequireRoleSession, DaemonRefuses
  <2>3. ASSUME w \in history'.recorded, w \notin history.recorded PROVE FALSE
    <3>1. /\ call[s].tool = "prepare" /\ call[s].pc = "read" /\ w = call[s].workflow
          /\ history' # history
      BY <2>3, HistoryStep
    <3>2. CASE ReadRegistry(s)
      <4>1. call[s].write = "tree"
        BY <1>1, <3>1 DEF Matches
      <4>2. ~IsWorkflowLock(Parsed(registry), w)
        BY <1>7, <3>1, <3>2, <4>1 DEF IsWritten
      <4>3. RegistryInOrder(w)
        <5>1. w \notin history.astray
          BY <1>8, HistoryStep
        <5>2. QED
          BY <1>5, <3>2, <5>1 DEF InOrder, ContentsInOrder
      <4>4. QED
        BY <2>1, <2>2, <4>2, <4>3 DEF RegistryInOrder, Locked, LockedIn
    <3>3. CASE Exit(s)
      BY <1>1, <2>3, <3>3 DEF Exit, HistoryType
    <3>4. QED
      BY <1>2, <3>1, <3>2, <3>3, BeginsFresh, AskedCalls
      DEF RequireRoleSession, DaemonRefuses, Fails, NothingToRename, WriteFails, InWrite,
          CancelStarted
  <2>4. QED
    BY <2>1, <2>2, <2>3
<1>9. ASSUME NEW w \in Workflows, w \in history'.swept, w \notin history.swept
      PROVE  RolesOf(Parsed(registry), w) = {} /\ \A t \in Servers \ {s} : ~InWrite(t)
  <2>1. /\ call[s].tool = "recovery" /\ call'[s].pc = "idle" /\ call[s].workflow = w
        /\ history' # history
    BY <1>9, HistoryStep DEF Over
  <2>2. CASE ReadRegistry(s)
    <3>1. call[s].write # "register"
      BY <1>1, <2>1 DEF Matches
    <3>2. ~IsWritten(call[s], Parsed(registry)) /\ Finish(s, call[s], call)
      BY <1>7, <2>2, <3>1
    <3>3. call[s].write = "sweep"
      BY <1>1, <2>1, <3>2 DEF Finish, CallType
    <3>4. Orphans(Parsed(registry), w) = {} /\ w # None
      BY <2>1, <3>2, <3>3, NoneAssumption DEF IsWritten
    <3>5. QED
      BY <1>4, <2>2, <3>4 DEF Orphans
  <2>3. CASE Asks(s)
    <3>1. PICK c, astray : (Answered(s, c) \/ AnswerLost(s, astray)) /\ SameCall(c, s)
      BY <2>3, AskedCalls DEF Handed
    <3>2. call[s].write = "none"
      BY <1>1, <2>3, AskedCalls DEF Matches
    <3>3. CASE AnswerLost(s, astray)
      BY <1>1, <2>1, <3>2, <3>3 DEF AnswerLost, Throw, CallType
    <3>4. CASE Answered(s, c) /\ c.pc # "done"
      BY <2>1, <3>4 DEF Answered
    <3>5. CASE Answered(s, c) /\ c.pc = "done"
      <4>1. c \in Going /\ c.tool = "recovery" /\ Finish(s, c, call)
        BY <2>1, <3>1, <3>5 DEF SameCall, Answered
      <4>2. c.write = "sweep"
        BY <1>1, <2>1, <4>1 DEF Finish, Going
      <4>3. QED
        BY <3>1, <3>2, <3>5, <4>2 DEF SameCall
    <3>6. QED
      BY <3>1, <3>3, <3>4, <3>5
  <2>4. CASE DaemonRefuses(s)
    <3>1. call[s].write = "none"
      BY <1>1, <2>4 DEF Matches, DaemonRefuses
    <3>2. QED
      BY <1>1, <2>1, <2>4, <3>1 DEF DaemonRefuses, Throw, CallType
  <2>5. CASE CancelStarted(s) \/ Exit(s)
    BY <1>1, <1>9, <2>5 DEF CancelStarted, Exit, HistoryType
  <2>6. QED
    BY <1>2, <2>1, <2>2, <2>3, <2>4, <2>5, BeginsFresh
    DEF RequireRoleSession, Fails, NothingToRename, WriteFails, FailedWrite
<1>10. ASSUME NEW w \in Workflows, Told(w)' PROVE Told(w)
  BY <1>10, ToldStep DEF RenameTemporary
<1>11. QED
  BY <1>3, <1>8, <1>9, <1>10, QuietKeepsOrder

(* What a write makes of the content it was read from. *)
LockOf(s) == [project |-> ProjectOf[s], tree |-> FALSE]

(* The six writes: lock, tree, unlock, sweep, revoke and register. *)
LEMMA LockWritten ==
  ASSUME NEW s \in Servers, NEW c \in CallType, NEW old \in Contents, NEW new, new = Changed(s, c, old),
         c.write = "lock", c.workflow \in Workflows
  PROVE  /\ new.roles = old.roles
         /\ \A w \in Workflows : new.locks[w] = IF w = c.workflow THEN LockOf(s) ELSE old.locks[w]
  BY DEF Changed, WithLock, Contents, LockOf

LEMMA TreeWritten ==
  ASSUME NEW s \in Servers, NEW c \in CallType, NEW old \in Contents, NEW new, new = Changed(s, c, old),
         c.write = "tree", c.workflow \in Workflows
  PROVE  /\ new.roles = old.roles
         /\ IsWorkflowLock(old, c.workflow) =>
              /\ new.locks[c.workflow] \in Lock /\ new.locks[c.workflow].tree
              /\ new.locks[c.workflow].project = old.locks[c.workflow].project
         /\ \A w \in Workflows \ {c.workflow} : new.locks[w] = old.locks[w]
<1>1. /\ new.roles = old.roles
      /\ new.locks = [old.locks EXCEPT ![c.workflow] = [old.locks[c.workflow] EXCEPT !.tree = TRUE]]
  BY DEF Changed, WithWorktree, Contents
<1>2. old.locks \in [Workflows -> Lock \cup {None}]
  BY DEF Contents
<1>3. /\ new.locks[c.workflow] = [old.locks[c.workflow] EXCEPT !.tree = TRUE]
      /\ \A w \in Workflows \ {c.workflow} : new.locks[w] = old.locks[w]
  BY <1>1, <1>2
<1>4. ASSUME IsWorkflowLock(old, c.workflow)
      PROVE  /\ new.locks[c.workflow] \in Lock /\ new.locks[c.workflow].tree
             /\ new.locks[c.workflow].project = old.locks[c.workflow].project
  <2>1. old.locks[c.workflow] \in Lock
    BY <1>2, <1>4 DEF IsWorkflowLock
  <2>2. QED
    BY <1>3, <2>1 DEF Lock
<1>5. QED
  BY <1>1, <1>3, <1>4

LEMMA UnlockWritten ==
  ASSUME NEW s \in Servers, NEW c \in CallType, NEW old \in Contents, NEW new, new = Changed(s, c, old),
         c.write = "unlock", c.workflow \in Workflows
  PROVE  /\ new.locks[c.workflow] = None
         /\ \A w \in Workflows \ {c.workflow} : new.locks[w] = old.locks[w]
         /\ \A x \in Sessions : new.roles[x] = IF x \in RolesOf(old, c.workflow) THEN None ELSE old.roles[x]
  BY DEF Changed, WithoutWorkflow, WithoutRoles, Contents

LEMMA SweepWritten ==
  ASSUME NEW s \in Servers, NEW c \in CallType, NEW old \in Contents, NEW new, new = Changed(s, c, old),
         c.write = "sweep"
  PROVE  /\ new.locks = old.locks
         /\ \A x \in Sessions : new.roles[x] = IF x \in Orphans(old, c.workflow) THEN None ELSE old.roles[x]
  BY DEF Changed, WithoutRoles, Contents

LEMMA RevokeWritten ==
  ASSUME NEW s \in Servers, NEW c \in CallType, NEW old \in Contents, NEW new, new = Changed(s, c, old),
         c.write = "revoke"
  PROVE  /\ new.locks = old.locks
         /\ \A x \in Sessions : new.roles[x] \in {None, old.roles[x]}
  BY DEF Changed, WithoutRoles, Contents

LEMMA RegisterWritten ==
  ASSUME NEW s \in Servers, NEW c \in CallType, NEW old \in Contents, NEW new, new = Changed(s, c, old),
         c.write = "register", c.session \in Sessions
  PROVE  /\ new.locks = old.locks
         /\ new.roles[c.session].workflow = c.workflow
         /\ \A x \in Sessions \ {c.session} : new.roles[x] = old.roles[x]
  BY DEF Changed, WithRole, Contents

(* No write but a registration adds to the roles of a workflow. *)
LEMMA RolesOnlyShrink ==
  ASSUME NEW s \in Servers, NEW c \in CallType, NEW old \in Contents, c.write # "none",
         c.write \in {"lock", "tree", "unlock"} => c.workflow \in Workflows,
         c.write = "register" => c.session \in Sessions,
         NEW w \in Workflows
  PROVE  \/ RolesOf(Changed(s, c, old), w) \subseteq RolesOf(old, w)
         \/ c.write = "register" /\ c.workflow = w
<1> DEFINE new == Changed(s, c, old)
<1>0. new = Changed(s, c, old)
  OBVIOUS
<1> HIDE DEF new
<1>1. CASE c.write \in {"lock", "tree"}
  <2>1. new.roles = old.roles
    <3>1. CASE c.write = "lock"
      BY <1>0, <3>1, LockWritten
    <3>2. CASE c.write = "tree"
      BY <1>0, <3>2, TreeWritten
    <3>3. QED
      BY <1>1, <3>1, <3>2
  <2>2. QED
    BY <1>0, <2>1 DEF RolesOf, IsRoleRegistration
<1>2. CASE c.write \in {"unlock", "sweep", "revoke"}
  <2>1. \A x \in Sessions : new.roles[x] \in {None, old.roles[x]}
    BY <1>0, <1>2, UnlockWritten, SweepWritten, RevokeWritten
  <2>2. QED
    BY <1>0, <2>1 DEF RolesOf, IsRoleRegistration
<1>3. CASE c.write = "register"
  <2>1. /\ new.roles[c.session].workflow = c.workflow
        /\ \A x \in Sessions \ {c.session} : new.roles[x] = old.roles[x]
    BY <1>0, <1>3, RegisterWritten
  <2>2. QED
    BY <1>0, <1>3, <2>1 DEF RolesOf, IsRoleRegistration
<1>4. QED
  BY <1>1, <1>2, <1>3 DEF CallType, Writes

(* A write begins: the copy is the registry with one change made to it. *)
LEMMA ReadKeepsOrder ==
  ASSUME StateOK, CallsMatch, RecordedIsOver, ToldIsEnded, InOrder, calm',
         NEW s \in Servers, WillWrite(s)
  PROVE  InOrder'
<1> DEFINE c == call[s]
           old == Parsed(registry)
           new == Changed(s, c, old)
<1>1. /\ c \in CallType /\ call \in [Servers -> CallType] /\ old \in Contents
      /\ Matches(c, s, workflow, Starting) /\ c.write # "none" /\ c.pc = "read"
      /\ call' = [call EXCEPT ![s] = [c EXCEPT !.pc = "open", !.copy = new]]
      /\ UNCHANGED <<registry, temporary, workflow>>
      /\ IsWritten(c, old) /\ (c.write = "register" => MayRegister(s, c, old))
  <2>1. /\ c \in CallType /\ call \in [Servers -> CallType] /\ old \in Contents
        /\ Matches(c, s, workflow, Starting)
        /\ IsWritten(c, old) /\ (c.write = "register" => MayRegister(s, c, old))
        /\ c.pc = "read" /\ UNCHANGED <<registry, temporary, workflow>>
    BY ContentsAreFiles DEF StateOK, CallsMatch, ToolMatches, WillWrite, ReadRegistry
  <2>2. c.write # "none"
    BY <2>1 DEF Matches
  <2>3. call' = [call EXCEPT ![s] = call'[s]]
    BY <2>1 DEF WillWrite, ReadRegistry, Finish
  <2>4. QED
    BY <2>1, <2>2, <2>3 DEF WillWrite
<1>2. \A t \in Servers \ {s} : call'[t] = call[t] /\ ~InWrite(t)
  BY <1>1 DEF WillWrite, ReadRegistry
<1>3. /\ call'[s].pc = "open" /\ call'[s].copy = new /\ call'[s].tool = c.tool
      /\ call'[s].write = c.write /\ call'[s].workflow = c.workflow
      /\ call'[s].result = c.result
  BY <1>1 DEF CallType
<1>4. ~Renaming /\ OneWriter' /\ TemporaryFollows'
  BY <1>1, <1>2, <1>3 DEF Renaming, OneWriter, TemporaryFollows, InWrite
<1>5. history' = [history EXCEPT !.astray = @ \cup LateLock(c)]
  BY <1>1, <1>3 DEF WillWrite, ReadRegistry, Idle
<1>6. /\ history'.recorded = history.recorded /\ history'.ended = history.ended
      /\ history'.swept = history.swept /\ history.astray \subseteq history'.astray
      /\ LateLock(c) \subseteq history'.astray
  BY <1>5 DEF StateOK, HistoryType
<1>7. Starting' = Starting
  BY <1>1, <1>2, <1>3 DEF Starting
<1>8. ASSUME NEW w \in Workflows PROVE Told(w)' = Told(w)
  BY <1>2, <1>3, <1>6 DEF Told
<1>9. /\ c.write \in {"lock", "tree", "unlock"} => c.workflow \in Workflows
      /\ c.write = "register" => c.session \in Sessions
  BY <1>1 DEF Matches, Knows, Ends
<1>10. ASSUME NEW w \in Workflows \ history'.astray
       PROVE  RegistryInOrder(w) /\ RegistryInOrder(w)' /\ CopyInOrder(s, w)'
  <2>1. RegistryInOrder(w)
    BY <1>4, <1>6, <1>10 DEF InOrder, ContentsInOrder
  <2>2. RegistryInOrder(w)'
    BY <1>1, <1>6, <1>7, <1>8, <2>1 DEF RegistryInOrder, Locked, LockedIn, Released, Parsed
  <2> HIDE DEF c, old, new
  <2>3. /\ workflow[w].state = "active" /\ w \notin Starting => LockedIn(old, w, workflow, history.recorded)
        /\ Told(w) => Released(old, w)
        /\ w \in history.swept => RolesOf(old, w) = {}
    BY <2>1 DEF RegistryInOrder, Locked, old
  <2>0. new = Changed(s, c, old)
    BY DEF new
  <2>4. ASSUME workflow[w].state = "active",
               w \notin Starting \/ (c.write = "lock" /\ c.workflow = w)
        PROVE  LockedIn(new, w, workflow, history.recorded)
    <3>1. CASE c.write = "lock"
      <4>1. new.locks[w] = IF w = c.workflow THEN LockOf(s) ELSE old.locks[w]
        BY <1>1, <1>9, <2>0, <3>1, LockWritten
      <4>2. CASE w = c.workflow
        <5>1. c.tool = "start" /\ workflow[w].project = ProjectOf[s]
          BY <1>1, <3>1, <4>2 DEF Matches
        <5>2. w \notin history.recorded
          BY <4>2, <5>1, NoneAssumption DEF RecordedIsOver, Starting, c
        <5>3. new.locks[w] \in Lock /\ new.locks[w].project = ProjectOf[s]
          <6>1. ProjectOf[s] \in Projects
            BY ServersAssumption
          <6>2. QED
            BY <4>1, <4>2, <6>1 DEF Lock, LockOf
        <5>4. QED
          BY <5>1, <5>2, <5>3, AbsenceAssumption DEF LockedIn, IsWorkflowLock
      <4>3. CASE w # c.workflow
        BY <2>3, <2>4, <4>1, <4>3 DEF LockedIn, IsWorkflowLock
      <4>4. QED
        BY <4>2, <4>3
    <3>2. CASE c.write = "tree"
      <4>1. w # c.workflow => new.locks[w] = old.locks[w]
        BY <1>1, <1>9, <2>0, <3>2, TreeWritten
      <4>2. LockedIn(old, w, workflow, history.recorded)
        BY <2>3, <2>4, <3>2
      <4>4. CASE w = c.workflow
        <5>1. /\ new.locks[w] \in Lock /\ new.locks[w].tree
              /\ new.locks[w].project = old.locks[w].project
          BY <1>1, <1>9, <2>0, <3>2, <4>2, <4>4, TreeWritten DEF LockedIn
        <5>2. QED
          BY <4>2, <5>1, AbsenceAssumption DEF LockedIn, IsWorkflowLock
      <4>5. QED
        BY <4>1, <4>2, <4>4 DEF LockedIn, IsWorkflowLock
    <3>3. CASE c.write = "unlock"
      <4>1. w # c.workflow
        BY <1>1, <2>4, <3>3 DEF Matches, Ends
      <4>2. new.locks[w] = old.locks[w]
        BY <1>1, <1>9, <3>3, <4>1, <2>0, UnlockWritten
      <4>3. QED
        BY <2>3, <2>4, <3>3, <4>2 DEF LockedIn, IsWorkflowLock
    <3>4. CASE c.write \in {"sweep", "revoke", "register"}
      <4>1. new.locks = old.locks
        BY <1>1, <1>9, <2>0, <3>4, SweepWritten, RevokeWritten, RegisterWritten
      <4>2. QED
        BY <2>3, <2>4, <3>4, <4>1 DEF LockedIn, IsWorkflowLock
    <3>5. QED
      BY <1>1, <3>1, <3>2, <3>3, <3>4 DEF CallType, Writes
  <2>5. ASSUME c.write = "tree", c.workflow = w PROVE new.locks[w].tree
    BY <1>1, <1>9, <2>0, <2>5, TreeWritten DEF IsWritten
  <2>6. RolesOf(new, w) \subseteq RolesOf(old, w) \/ (c.write = "register" /\ c.workflow = w)
    BY <1>1, <1>9, RolesOnlyShrink DEF new
  <2>7. ASSUME c.write = "unlock", c.workflow = w PROVE Released(new, w)
    <3>1. /\ new.locks[w] = None
          /\ \A x \in Sessions : new.roles[x] = IF x \in RolesOf(old, w) THEN None ELSE old.roles[x]
      BY <1>1, <1>9, <2>0, <2>7, UnlockWritten
    <3>2. QED
      BY <3>1 DEF Released, IsWorkflowLock, RolesOf, IsRoleRegistration
  <2>8. ASSUME Told(w) PROVE Released(new, w)
    <3>1. Released(old, w) /\ Ends(workflow, w)
      BY <2>3, <2>8 DEF ToldIsEnded, Ended
    <3>2. ~(c.write = "lock" /\ c.workflow = w)
      BY <1>6, <1>10, <3>1 DEF LateLock, Ends
    <3>3. ~(c.write = "tree" /\ c.workflow = w)
      BY <1>1, <3>1 DEF IsWritten, Released
    <3>4. ~(c.write = "register" /\ c.workflow = w)
      BY <1>1, <3>1, NoneAssumption DEF MayRegister, Released
    <3>5. new.locks[w] \in {None, old.locks[w]}
      <4>1. CASE c.write = "lock"
        BY <1>1, <1>9, <2>0, <3>2, <4>1, LockWritten
      <4>4. CASE c.write = "tree"
        BY <1>1, <1>9, <2>0, <3>3, <4>4, TreeWritten
      <4>5. CASE c.write = "unlock"
        BY <1>1, <1>9, <2>0, <4>5, UnlockWritten
      <4>2. CASE c.write \in {"sweep", "revoke", "register"}
        BY <1>1, <1>9, <2>0, <4>2, SweepWritten, RevokeWritten, RegisterWritten
      <4>3. QED
        BY <1>1, <4>1, <4>2, <4>4, <4>5 DEF CallType, Writes
    <3>6. QED
      BY <2>6, <3>1, <3>4, <3>5 DEF Released, IsWorkflowLock
  <2>9. ASSUME c.write = "sweep", c.workflow = w PROVE RolesOf(new, w) = {}
    <3>1. \A x \in Sessions : new.roles[x] = IF x \in RolesOf(old, w) THEN None ELSE old.roles[x]
      BY <1>1, <2>0, <2>9, SweepWritten, NoneAssumption DEF Orphans
    <3>2. QED
      BY <3>1 DEF RolesOf, IsRoleRegistration
  <2>10. CopyInOrder(s, w)'
    BY <1>1, <1>3, <1>6, <1>7, <1>8, <2>3, <2>4, <2>5, <2>6, <2>7, <2>8, <2>9
    DEF CopyInOrder, Locked, LockedIn, Released
  <2>11. QED
    BY <2>1, <2>2, <2>10
<1>11. ContentsInOrder'
  BY <1>2, <1>10 DEF ContentsInOrder, InWrite
<1>12. QED
  BY <1>4, <1>11 DEF InOrder

(* The write goes on: the temporary file is made and filled, the registry is away. *)
LEMMA WritesKeepOrder ==
  ASSUME StateOK, CallsMatch, InOrder, NEW s \in Servers, Step(s),
         OpenTemporary(s) \/ WriteTemporary(s) \/ RemoveRegistry(s)
  PROVE  InOrder'
<1>1. /\ call[s] \in CallType /\ call \in [Servers -> CallType] /\ InWrite(s)
      /\ UNCHANGED <<workflow, history>>
  BY DEF StateOK, OpenTemporary, WriteTemporary, RemoveRegistry, InWrite
<1>2. /\ call'[s].tool = call[s].tool /\ call'[s].write = call[s].write
      /\ call'[s].workflow = call[s].workflow /\ call'[s].result = call[s].result
      /\ call'[s].copy = call[s].copy
  BY <1>1 DEF OpenTemporary, WriteTemporary, RemoveRegistry, CallType
<1>3. \A t \in Servers \ {s} : /\ ~InWrite(t)
                               /\ call'[t].pc = call[t].pc /\ call'[t].tool = call[t].tool
                               /\ call'[t].write = call[t].write
                               /\ call'[t].workflow = call[t].workflow
                               /\ call'[t].result = call[t].result
  <2>1. ASSUME NEW t \in Servers, t # s
        PROVE  /\ ~InWrite(t)
               /\ call'[t].pc = call[t].pc /\ call'[t].tool = call[t].tool
               /\ call'[t].write = call[t].write /\ call'[t].workflow = call[t].workflow
               /\ call'[t].result = call[t].result
    <3>1. call'[t] = [call[t] EXCEPT !.at = call'[t].at] /\ call[t] \in CallType
      BY <2>1, OthersStay DEF StateOK
    <3>2. ~InWrite(t)
      BY <1>1, <2>1 DEF InOrder, OneWriter
    <3>3. QED
      BY <3>1, <3>2 DEF CallType
  <2>2. QED
    BY <2>1
<1>4. \A t \in Servers \ {s} : ~InWrite(t)'
  BY <1>3 DEF InWrite
<1>5. OneWriter'
  BY <1>4 DEF OneWriter
<1>6. TemporaryFollows'
  <2>1. CASE OpenTemporary(s)
    <3>1. call'[s].pc = "write" /\ call'[s].at = "temporary" /\ temporary' = Empty
      BY <1>1, <2>1 DEF OpenTemporary, CallType
    <3>2. QED
      BY <1>4, <3>1 DEF TemporaryFollows, InWrite
  <2>2. CASE WriteTemporary(s)
    <3>1. call[s].at = "temporary" /\ temporary = Empty
      BY <2>2 DEF InOrder, TemporaryFollows, WriteTemporary
    <3>2. temporary' = call[s].copy /\ call'[s].pc = "remove"
      BY <1>1, <2>2, <3>1 DEF WriteTemporary, Written, CallType
    <3>3. QED
      BY <1>2, <1>4, <3>2 DEF TemporaryFollows, InWrite
  <2>3. CASE RemoveRegistry(s)
    <3>1. temporary' = call[s].copy /\ call'[s].pc = "rename"
      BY <1>1, <2>3 DEF InOrder, TemporaryFollows, RemoveRegistry, CallType
    <3>2. QED
      BY <1>2, <1>4, <3>1 DEF TemporaryFollows, InWrite
  <2>4. QED
    BY <2>1, <2>2, <2>3
<1>7. Starting' = Starting
  BY <1>2, <1>3 DEF Starting
<1>8. ASSUME NEW w \in Workflows PROVE Told(w)' = Told(w)
  <2>1. \A t \in Servers : /\ call'[t].write = call[t].write /\ call'[t].workflow = call[t].workflow
                           /\ call'[t].result = call[t].result
    BY <1>2, <1>3
  <2>2. QED
    BY <1>1, <2>1 DEF Told
<1>9. ~Renaming' => UNCHANGED registry /\ ~Renaming
  <2>1. CASE OpenTemporary(s) \/ WriteTemporary(s)
    <3>1. call[s].pc # "rename" /\ UNCHANGED registry
      <4>1. CASE OpenTemporary(s)
        BY <4>1 DEF OpenTemporary
      <4>2. CASE WriteTemporary(s)
        <5>1. call[s].at = "temporary"
          BY <4>2 DEF InOrder, TemporaryFollows, WriteTemporary
        <5>2. QED
          BY <4>2, <5>1 DEF WriteTemporary
      <4>3. QED
        BY <2>1, <4>1, <4>2
    <3>2. QED
      BY <1>3, <3>1 DEF Renaming, InWrite
  <2>2. CASE RemoveRegistry(s)
    <3>1. call'[s].pc = "rename"
      BY <1>1, <2>2 DEF RemoveRegistry, CallType
    <3>2. QED
      BY <3>1 DEF Renaming
  <2>3. QED
    BY <2>1, <2>2
<1>10. ASSUME NEW w \in Workflows \ history'.astray
       PROVE  /\ ~Renaming' => RegistryInOrder(w)'
              /\ CopyInOrder(s, w)'
  <2>1. (~Renaming => RegistryInOrder(w)) /\ CopyInOrder(s, w)
    BY <1>1, <1>10 DEF InOrder, ContentsInOrder
  <2>2. ~Renaming' => RegistryInOrder(w)'
    BY <1>1, <1>7, <1>8, <1>9, <2>1 DEF RegistryInOrder, Locked, LockedIn, Released, Parsed
  <2>3. CopyInOrder(s, w)'
    BY <1>1, <1>2, <1>7, <1>8, <2>1 DEF CopyInOrder, Locked, LockedIn, Released
  <2>4. QED
    BY <2>2, <2>3
<1>11. ContentsInOrder'
  BY <1>4, <1>10 DEF ContentsInOrder
<1>12. QED
  BY <1>5, <1>6, <1>11 DEF InOrder

(* The write is over: the copy is the registry, and what it was for is done. *)
LEMMA RenameKeepsOrder ==
  ASSUME StateOK, CallsMatch, RecordedIsOver, ToldIsEnded, InOrder, NEW s \in Servers, Step(s),
         RenameTemporary(s)
  PROVE  InOrder'
<1> DEFINE c == call[s]
<1>1. /\ c \in CallType /\ call \in [Servers -> CallType] /\ c.pc = "rename" /\ InWrite(s)
      /\ UNCHANGED workflow /\ Matches(c, s, workflow, Starting) /\ history \in HistoryType
      /\ c.copy \in Contents
  BY DEF StateOK, RenameTemporary, InWrite, CallsMatch, ToolMatches, CallType
<1>2. registry' = c.copy /\ Parsed(registry') = c.copy
  <2>1. registry' = temporary /\ temporary = c.copy
    BY <1>1 DEF RenameTemporary, InOrder, TemporaryFollows
  <2>2. Parsed(c.copy) = c.copy
    BY <1>1, ContentsAreFiles DEF Files
  <2>3. QED
    BY <2>1, <2>2
<1>3. \/ call'[s] = Idle
      \/ call'[s] = [c EXCEPT !.pc = "read", !.write = "sweep"] /\ c.tool = "recovery" /\ c.write # "sweep"
  BY <1>1 DEF RenameTemporary, Finish
<1>4. \A t \in Servers \ {s} : /\ ~InWrite(t) /\ ~InWrite(t)'
                               /\ call'[t].tool = call[t].tool
                               /\ call'[t].workflow = call[t].workflow
  <2>1. ASSUME NEW t \in Servers, t # s
        PROVE  /\ ~InWrite(t) /\ ~InWrite(t)'
               /\ call'[t].tool = call[t].tool /\ call'[t].workflow = call[t].workflow
    <3>1. call'[t] = [call[t] EXCEPT !.at = call'[t].at] /\ call[t] \in CallType
      BY <2>1, OthersStay DEF StateOK
    <3>2. ~InWrite(t)
      BY <1>1, <2>1 DEF InOrder, OneWriter
    <3>3. /\ call'[t].pc = call[t].pc /\ call'[t].tool = call[t].tool
          /\ call'[t].workflow = call[t].workflow
      BY <3>1 DEF CallType
    <3>4. QED
      BY <3>2, <3>3 DEF InWrite
  <2>2. QED
    BY <2>1
<1>5. ~InWrite(s)'
  <2>1. call'[s].pc \in {"idle", "read"}
    <3>1. CASE call'[s] = Idle
      BY <3>1 DEF Idle
    <3>2. CASE call'[s] = [c EXCEPT !.pc = "read", !.write = "sweep"]
      BY <1>1, <3>2 DEF CallType
    <3>3. QED
      BY <1>3, <3>1, <3>2
  <2>2. QED
    BY <2>1 DEF InWrite
<1>6. OneWriter' /\ TemporaryFollows'
  BY <1>4, <1>5 DEF OneWriter, TemporaryFollows, InWrite
<1>7. /\ history'.recorded = IF c.tool = "prepare" THEN history.recorded \cup {c.workflow}
                             ELSE history.recorded
      /\ history'.astray = history.astray
      /\ history'.swept = IF c.write = "register" THEN history.swept \ {c.workflow}
                          ELSE history.swept \cup Over(s)
  BY <1>1 DEF RenameTemporary, Finish, HistoryType
<1>8. ASSUME NEW w \in Workflows \ history'.astray PROVE RegistryInOrder(w)'
  <2>1. CopyInOrder(s, w)
    BY <1>1, <1>7, <1>8 DEF InOrder, ContentsInOrder
  <2>2. ASSUME workflow[w].state = "active", w \notin Starting'
        PROVE  LockedIn(c.copy, w, workflow, history'.recorded)
    <3>1. w \notin Starting \/ (c.write = "lock" /\ c.workflow = w)
      <4>1. SUFFICES ASSUME w \in Starting PROVE c.write = "lock" /\ c.workflow = w
        OBVIOUS
      <4>2. PICK t \in Servers : call[t].tool = "start" /\ call[t].workflow = w
        BY <4>1 DEF Starting
      <4>3. t = s
        BY <1>4, <2>2, <4>2 DEF Starting
      <4>4. QED
        BY <1>1, <4>2, <4>3 DEF Matches
    <3>2. LockedIn(c.copy, w, workflow, history.recorded)
      BY <2>1, <2>2, <3>1 DEF CopyInOrder, Locked
    <3>3. ASSUME w \in history'.recorded, w \notin history.recorded
          PROVE c.copy.locks[w].tree
      <4>1. c.tool = "prepare" /\ c.workflow = w
        BY <1>7, <3>3
      <4>2. c.write = "tree"
        BY <1>1, <4>1 DEF Matches
      <4>3. QED
        BY <2>1, <4>1, <4>2 DEF CopyInOrder
    <3>4. QED
      BY <3>2, <3>3 DEF LockedIn
  <2>3. ASSUME Told(w)' PROVE Released(c.copy, w)
    <3>1. Told(w) \/ (c.write = "unlock" /\ c.workflow = w)
      BY <2>3, ToldStep
    <3>2. QED
      BY <2>1, <3>1 DEF CopyInOrder
  <2>4. ASSUME w \in history'.swept PROVE RolesOf(c.copy, w) = {}
    <3>1. CASE w \in history.swept
      <4>1. ~(c.write = "register" /\ c.workflow = w)
        BY <1>7, <2>4
      <4>2. QED
        BY <2>1, <3>1, <4>1 DEF CopyInOrder
    <3>2. CASE w \notin history.swept
      <4>1. c.tool = "recovery" /\ call'[s].pc = "idle" /\ c.workflow = w
        BY <1>7, <2>4, <3>2 DEF Over
      <4>2. c.write = "sweep"
        BY <1>1, <4>1 DEF RenameTemporary, Finish, CallType
      <4>3. QED
        BY <2>1, <4>1, <4>2 DEF CopyInOrder
    <3>3. QED
      BY <3>1, <3>2
  <2>5. QED
    BY <1>1, <1>2, <2>2, <2>3, <2>4 DEF RegistryInOrder, Locked, Released
<1>9. ContentsInOrder'
  BY <1>4, <1>5, <1>8 DEF ContentsInOrder
<1>10. QED
  BY <1>6, <1>9 DEF InOrder

-----------------------------------------------------------------------------
(* Every step that leaves the servers calm leaves the registry in order. *)
LEMMA CalmStep ==
  ASSUME StateOK, CallsMatch, RecordedIsOver, ToldIsEnded, Calm, NEW s \in Servers, Step(s), calm'
  PROVE  InOrder'
<1>1. /\ call[s] \in CallType /\ call \in [Servers -> CallType]
      /\ Matches(call[s], s, workflow, Starting)
  BY DEF StateOK, CallsMatch, ToolMatches
<1>2. InOrder
  <2>1. calm
    <3>1. CASE Begins(s)
      BY <3>1, BeginsFresh
    <3>2. CASE Asks(s)
      BY <3>2, AskedCalls
    <3>3. CASE ~Begins(s) /\ ~Asks(s)
      BY <3>3
      DEF Step, RequireRoleSession, DaemonRefuses, ReadRegistry, OpenTemporary,
          WriteTemporary,
         RemoveRegistry, RenameTemporary, Fails, NothingToRename, WriteFails, FailedWrite,
         CancelStarted, Exit
    <3>4. QED
      BY <3>1, <3>2, <3>3
  <2>2. QED
    BY <2>1 DEF Calm
<1>3. CASE OpenTemporary(s) \/ WriteTemporary(s) \/ RemoveRegistry(s)
  BY <1>2, <1>3, WritesKeepOrder
<1>4. CASE RenameTemporary(s)
  BY <1>2, <1>4, RenameKeepsOrder
<1>5. CASE WillWrite(s)
  BY <1>2, <1>5, ReadKeepsOrder
<1>6. CASE ~OpenTemporary(s) /\ ~WriteTemporary(s) /\ ~RemoveRegistry(s) /\ ~RenameTemporary(s) /\ ~WillWrite(s)
  <2>1. call[s].pc # "rename"
    <3>1. SUFFICES ASSUME call[s].pc = "rename" PROVE FALSE
      OBVIOUS
    <3>2. Fails(s) \/ Exit(s)
      BY <1>6, <3>1, BeginsFresh, AskedCalls
      DEF Step, RequireRoleSession, DaemonRefuses, ReadRegistry, CancelStarted
    <3>3. QED
      BY <3>1, <3>2 DEF Fails, NothingToRename, WriteFails, FailedWrite, Exit
  <2>2. call'[s].pc \in {"idle", "check", "daemon", "read", "cancel"}
    <3>1. Throw(call[s]).pc \in {"read", "idle"} /\ Idle.pc = "idle"
      BY <1>1 DEF Throw, Idle, CallType
    <3>2. CASE Begins(s)
      BY <3>2, BeginsFresh DEF Fresh
    <3>3. CASE Asks(s)
      <4>1. PICK c, astray : (Answered(s, c) \/ AnswerLost(s, astray)) /\ SameCall(c, s)
        BY <3>3, AskedCalls DEF Handed
      <4>2. CASE AnswerLost(s, astray)
        BY <1>1, <3>1, <4>2 DEF AnswerLost
      <4>3. CASE Answered(s, c) /\ c.pc = "done"
        <5>1. c \in Going /\ call'[s] \in {Idle, [c EXCEPT !.pc = "read", !.write = "sweep"]}
          BY <1>1, <4>1, <4>3 DEF Answered, SameCall, Finish
        <5>2. QED
          BY <3>1, <5>1 DEF Going
      <4>4. CASE Answered(s, c) /\ c.pc # "done"
        BY <1>1, <4>1, <4>4 DEF Answered, SameCall
      <4>5. QED
        BY <4>1, <4>2, <4>3, <4>4
    <3>4. CASE DaemonRefuses(s) \/ Fails(s) \/ RequireRoleSession(s) \/ CancelStarted(s) \/ Exit(s)
      <4>1. call'[s] \in {Idle, Throw(call[s]), [call[s] EXCEPT !.pc = "cancel"], [call[s] EXCEPT !.pc = "daemon"]}
        BY <1>1, <3>4 DEF DaemonRefuses, Fails, NothingToRename, WriteFails, FailedWrite,
           RequireRoleSession, CancelStarted, Exit
      <4>2. QED
        BY <1>1, <3>1, <4>1 DEF CallType
    <3>5. CASE ReadRegistry(s)
      <4>1. call'[s] = Idle \/ Finish(s, call[s], call)
        BY <1>1, <1>6, <3>5 DEF ReadRegistry, WillWrite
      <4>2. call'[s] \in {Idle, [call[s] EXCEPT !.pc = "read", !.write = "sweep"]}
        BY <1>1, <4>1 DEF Finish
      <4>3. QED
        BY <1>1, <3>1, <4>2 DEF CallType
    <3>6. QED
      BY <1>6, <3>2, <3>3, <3>4, <3>5 DEF Step
  <2>3. ~InWrite(s)'
    BY <2>2 DEF InWrite
  <2>4. RecordedIsOver'
    BY RecordedStep
  <2>5. QED
    BY <1>2, <1>6, <2>1, <2>3, <2>4, QuietSteps
<1>7. QED
  BY <1>3, <1>4, <1>5, <1>6

(* Every state that any number of servers can reach, however their calls   *)
(* interleave, fail or are cut off, satisfies the inductive invariant.     *)
THEOREM Invariance == Spec => []IInv
<1>1. Init => IInv
  <2> SUFFICES ASSUME Init PROVE IInv
    OBVIOUS
  <2>1. StateOK
    BY InitialState
  <2>2. \A s \in Servers : call[s] = Idle
    BY DEF Init
  <2>3. Starting = {}
    BY <2>2 DEF Starting, Idle
  <2>4. CallsMatch
    BY <2>2, IdleMatches DEF CallsMatch, ToolMatches
  <2>5. /\ Parsed(registry) = Nothing /\ Parsed(temporary) = Nothing
        /\ \A s \in Servers : call[s].copy = Nothing
    BY <2>2 DEF Init, Parsed, Idle
  <2>6. RegistrationsHaveLocks
    BY <2>5 DEF RegistrationsHaveLocks, Orphans, Nothing, IsRoleRegistration
  <2>7. RegistrationsWereGranted
    BY <2>5 DEF RegistrationsWereGranted, GrantedIn, Nothing, IsRoleRegistration
  <2>8. CheckedWereGranted
    BY <2>2 DEF CheckedWereGranted, Idle, Submitting
  <2>9. RecordedIsOver
    BY DEF Init, RecordedIsOver
  <2>10. \A w : ~Told(w)
    BY <2>2 DEF Init, Told, Idle
  <2>11. ToldIsEnded
    BY <2>10 DEF ToldIsEnded
  <2>12. \A s \in Servers : ~InWrite(s) /\ call[s].pc = "idle"
    BY <2>2 DEF InWrite, Idle
  <2>13. OneWriter /\ TemporaryFollows
    BY <2>12 DEF OneWriter, TemporaryFollows
  <2>14. ASSUME NEW w \in Workflows PROVE RegistryInOrder(w)
    BY <2>10, <2>14 DEF Init, RegistryInOrder
  <2>15. ContentsInOrder
    BY <2>12, <2>14 DEF ContentsInOrder
  <2>16. QED
    BY <2>1, <2>4, <2>6, <2>7, <2>8, <2>9, <2>11, <2>13, <2>15 DEF IInv, Calm, InOrder
<1>2. IInv /\ [Next]_vars => IInv'
  <2> SUFFICES ASSUME IInv, [Next]_vars PROVE IInv'
    OBVIOUS
  <2>1. CASE UNCHANGED vars
    <3>1. UNCHANGED <<registry, temporary, call, workflow, history, granted, submissions, executable,
                      calm, calls, faults>>
      BY <2>1 DEF vars
    <3>2. StateOK'
      BY StateStep DEF IInv
    <3>3. Starting' = Starting
      BY <3>1 DEF Starting
    <3>4. CallsMatch'
      BY <3>1, <3>3 DEF IInv, CallsMatch, ToolMatches
    <3>5. RegistrationsHaveLocks'
      BY <3>1 DEF IInv, RegistrationsHaveLocks, Parsed
    <3>6. RegistrationsWereGranted' /\ CheckedWereGranted'
      BY <3>1 DEF IInv, RegistrationsWereGranted, GrantedIn, New, CheckedWereGranted, Parsed
    <3>7. RecordedIsOver'
      BY <3>1, <3>3 DEF IInv, RecordedIsOver, Known
    <3>8. \A w \in Workflows : Told(w)' = Told(w) /\ Ended(w)' = Ended(w)
      BY <3>1 DEF Told, Ended
    <3>9. ToldIsEnded'
      BY <3>8 DEF IInv, ToldIsEnded
    <3>10. OneWriter' = OneWriter /\ TemporaryFollows' = TemporaryFollows /\ calm' = calm
      BY <3>1 DEF OneWriter, InWrite, TemporaryFollows
    <3>11. \A w \in Workflows : RegistryInOrder(w)' = RegistryInOrder(w)
      BY <3>1, <3>3, <3>8 DEF RegistryInOrder, Locked, Parsed
    <3>12. \A w \in Workflows, s \in Servers : CopyInOrder(s, w)' = CopyInOrder(s, w)
      BY <3>1, <3>3, <3>8 DEF CopyInOrder, Locked
    <3>13. ContentsInOrder' = ContentsInOrder
      BY <3>1, <3>11, <3>12 DEF ContentsInOrder, Renaming, InWrite
    <3>14. QED
      BY <3>2, <3>4, <3>5, <3>6, <3>7, <3>9, <3>10, <3>13 DEF IInv, Calm, InOrder
  <2>2. CASE Next
    <3>1. PICK s \in Servers : Step(s)
      BY <2>2, StepsAreOfServers
    <3>2. StateOK'
      BY StateStep DEF IInv
    <3>3. CallsMatch'
      BY <3>1, CallsStep DEF IInv
    <3>4. RegistrationsHaveLocks'
      BY <3>1, LocksStep DEF IInv
    <3>5. RegistrationsWereGranted'
      BY <3>1, GrantsStep DEF IInv
    <3>6. CheckedWereGranted'
      BY <3>1, CheckedStep DEF IInv
    <3>7. RecordedIsOver'
      BY <3>1, RecordedStep DEF IInv
    <3>8. ToldIsEnded'
      BY <3>1, ToldStep DEF IInv
    <3>9. Calm'
      BY <3>1, CalmStep DEF IInv, Calm
    <3>10. QED
      BY <3>2, <3>3, <3>4, <3>5, <3>6, <3>7, <3>8, <3>9 DEF IInv
  <2>3. QED
    BY <2>1, <2>2
<1>3. QED
  BY <1>1, <1>2, PTL DEF Spec

(* The files, the calls and the workflows hold values of their types: no   *)
(* write puts into the registry what is not a registry (server.ts 84-103). *)
THEOREM TypeCorrectness == Spec => []TypeOK
<1>1. IInv => TypeOK
  BY DEF IInv, StateOK, TypeOK, CallType, WorkflowType, Places
<1>2. QED
  BY <1>1, Invariance, PTL

(* No file and no copy holds a registration of a workflow whose lock it    *)
(* does not hold, however many servers write over each other: writes       *)
(* replace the whole content, and each is sound by itself (server.ts       *)
(* 123-130, 305-309).                                                      *)
THEOREM LockSafety == Spec => []RegistrationsHaveLocks
<1>1. IInv => RegistrationsHaveLocks
  BY DEF IInv
<1>2. QED
  BY <1>1, Invariance, PTL

(* While a started workflow is active, and no write has undone another or  *)
(* failed with the file away, the hook refuses the changes of the main     *)
(* session, and those of an executor outside its worktree (pre-tool-use.js *)
(* 420-560).                                                               *)
THEOREM GuardSafety == Spec => []ActiveIsGuarded
<1>1. IInv => ActiveIsGuarded
  <2> SUFFICES ASSUME IInv, Undisturbed,
                      NEW w \in Workflows \ (history.astray \cup Starting),
                      workflow[w].state = "active", NEW tool \in {"edit", "shell"}
               PROVE  /\ ~HookAllows(Parsed(registry), MainSession(workflow[w].project, tool))
                      /\ w \in history.recorded =>
                           \A s \in RolesOf(Parsed(registry), w), host \in {None, "executor"} :
                             Parsed(registry).roles[s].role = "executor" =>
                               ~HookAllows(Parsed(registry), [MainSession(workflow[w].project, tool)
                                                              EXCEPT !.session = s, !.host = host])
    BY DEF ActiveIsGuarded
  <2> DEFINE c == Parsed(registry)
             p == workflow[w].project
  <2>1. Locked(c, w)
    BY DEF IInv, Calm, InOrder, Undisturbed, Renaming, ContentsInOrder, RegistryInOrder
  <2>2. c \in Contents
    BY ContentsAreFiles DEF IInv, StateOK
  <2>3. WorkflowLocksForProject(c, p) # {}
    BY <2>1 DEF WorkflowLocksForProject, Locked, LockedIn
  <2> HIDE DEF c, p
  <2>4. ~HookAllows(c, MainSession(p, tool))
    <3> DEFINE e == MainSession(p, tool)
    <3>1. e.session = None /\ e.host = None /\ e.project = p /\ e.tool = tool
      BY DEF MainSession
    <3> HIDE DEF e
    <3>2. RoleOf(c, e) = None /\ Changes(e)
      BY <3>1 DEF RoleOf, Direct, Changes
    <3>3. ~HookAllows(c, e)
      BY <2>3, <3>1, <3>2 DEF HookAllows, MainSessionMay
    <3>4. QED
      BY <3>3 DEF e
  <2>5. ASSUME w \in history.recorded, NEW s \in RolesOf(c, w), NEW host \in {None, "executor"},
               c.roles[s].role = "executor"
        PROVE  ~HookAllows(c, [MainSession(p, tool) EXCEPT !.session = s, !.host = host])
    <3> DEFINE e == [MainSession(p, tool) EXCEPT !.session = s, !.host = host]
    <3>1. e.session = s /\ e.where = "outside" /\ e.tool = tool /\ e.host = host
      BY DEF MainSession
    <3> HIDE DEF e
    <3>2. /\ s \in Sessions /\ s # None /\ c.roles[s] # None /\ c.roles[s].workflow = w
          /\ w # None
      BY <2>5, NoneAssumption DEF RolesOf, IsRoleRegistration
    <3>3. Direct(c, e) = c.roles[s] /\ RoleOf(c, e) = "executor" /\ Changes(e)
      BY <2>5, <3>1, <3>2 DEF Direct, RoleOf, Changes
    <3>4. RegistrationOf(c, e) = c.roles[s]
      BY <3>2, <3>3 DEF RegistrationOf
    <3>5. HasWorktree(c, c.roles[s])
      BY <2>1, <2>5, <3>2 DEF HasWorktree, Locked, LockedIn
    <3>6. ~ExecutorMay(c, e, RegistrationOf(c, e))
      BY <3>1, <3>2, <3>3, <3>4, <3>5 DEF ExecutorMay
    <3>7. "executor" # None
      BY AbsenceAssumption DEF Roles
    <3>8. ~HookAllows(c, e)
      BY <3>3, <3>6, <3>7 DEF HookAllows, RoleMay
    <3>9. QED
      BY <3>8 DEF e
  <2>6. QED
    BY <2>4, <2>5 DEF c, p
<1>2. QED
  BY <1>1, Invariance, PTL

(* What a call has released stays released: neither the lock nor the       *)
(* registrations of a workflow come back after a caller was told of its    *)
(* end, nor those a recovery swept unless registered anew (server.ts       *)
(* 231-251, 463-475).                                                      *)
THEOREM ReleaseSafety == Spec => []ReleasedStaysReleased
<1>1. IInv => ReleasedStaysReleased
  <2> SUFFICES ASSUME IInv, Undisturbed, NEW w \in Workflows \ history.astray
               PROVE  /\ w \in history.ended => /\ ~IsWorkflowLock(Parsed(registry), w)
                                                /\ RolesOf(Parsed(registry), w) = {}
                      /\ w \in history.swept => RolesOf(Parsed(registry), w) = {}
    BY DEF ReleasedStaysReleased
  <2>1. RegistryInOrder(w)
    BY DEF IInv, Calm, InOrder, Undisturbed, Renaming, ContentsInOrder
  <2>2. QED
    BY <2>1 DEF RegistryInOrder, Released, Told
<1>2. QED
  BY <1>1, Invariance, PTL

(* Every submission names a session that was registered in the role for    *)
(* that workflow.                                                          *)
SubmittersHeldRoles ==
  \A x \in submissions : \E g \in granted :
    g.session = x.session /\ g.workflow = x.workflow /\ g.role \in Submitters[x.kind]

(* Only a submission hands the daemon anything for a role. *)
LEMMA NothingSubmitted ==
  ASSUME StateOK, CallsMatch, NEW s \in Servers, Step(s), ~Submit(s)
  PROVE  UNCHANGED <<submissions, executable>>
  BY BeginsFresh
  DEF Step, RequireRoleSession, DaemonRefuses, Asks, StartWorkflow, Control,
      PrepareWorktree,
      ReadRegistry, OpenTemporary, WriteTemporary, RemoveRegistry, RenameTemporary, Fails,
      NothingToRename, WriteFails, FailedWrite, CancelStarted, Exit

(* The daemon is handed a plan, a review or an arbitration only for a      *)
(* session that was registered in that role for that very workflow,        *)
(* however stale the registry is that the check reads                      *)
(* (requireRoleSession).                                                   *)
THEOREM SubmitterSafety == Spec => []SubmittersHeldRoles
<1>1. Init => SubmittersHeldRoles
  BY DEF Init, SubmittersHeldRoles
<1>2. IInv /\ [Next]_vars /\ SubmittersHeldRoles => SubmittersHeldRoles'
  <2> SUFFICES ASSUME IInv, [Next]_vars, SubmittersHeldRoles PROVE SubmittersHeldRoles'
    OBVIOUS
  <2>1. CASE UNCHANGED vars
    BY <2>1 DEF vars, SubmittersHeldRoles
  <2>2. ASSUME NEW s \in Servers, Step(s) PROVE SubmittersHeldRoles'
    <3>1. granted \subseteq granted'
      BY <2>2, FilesStep DEF IInv
    <3>2. CASE ~Submit(s)
      BY <2>2, <3>1, <3>2, NothingSubmitted DEF SubmittersHeldRoles, IInv
    <3>3. CASE Submit(s)
      <4> DEFINE c == call[s]
                 x == [kind |-> c.tool, session |-> c.session, workflow |-> c.workflow]
      <4>1. c.pc = "daemon" /\ c.tool \in Submitting /\ submissions' = submissions \cup {x}
        BY <3>3 DEF Submit, Submitting
      <4>2. \E g \in granted : /\ g.session = x.session /\ g.workflow = x.workflow
                               /\ g.role \in Submitters[x.kind]
        BY <4>1 DEF IInv, CheckedWereGranted
      <4> HIDE DEF x
      <4>3. QED
        BY <3>1, <4>1, <4>2 DEF SubmittersHeldRoles
    <3>4. QED
      BY <3>2, <3>3
  <2>3. QED
    BY <2>1, <2>2, StepsAreOfServers
<1>3. QED
  BY <1>1, <1>2, Invariance, PTL DEF Spec
=============================================================================
