# ZCode Cycle: specifications and proofs

TLA+ modules of ZCode Cycle (the Rust daemon in `crates/`, the MCP server, its bridge and the tool
hook in `mcp/src` and `hooks`), the instances TLC checks and the theorems TLAPS proves. Line numbers
refer to the commit this directory is kept beside; `PROJECT.json` maps every definition to the lines
it translates and names, for every property, a slip of the code that breaks it.

Run a check with `tlc -workers 2 -config <run>.cfg <MC module>.tla`, the proofs with
`tlapm <module>Proofs.tla`.

## 1. The system

ZCode Cycle governs coding work of language models. An orchestrator (the model that follows
`skills/cycle-run/SKILL.md`) calls tools of an MCP server, one process per session (`mcp/src/server.ts`).
The server forwards most of them over an authenticated local socket to one daemon, `workflowd`, which
it starts or replaces itself (`client.ts`). The daemon owns every state change of a workflow. The
server keeps three things of its own: a registry of workflow locks and role sessions, which the
PreToolUse hook reads to decide what a session may do; the role profiles it writes into a project;
and managed browsers whose receipts are evidence.

| Component | State | Operations | Interacts with |
|---|---|---|---|
| Workflow aggregate (`workflow-core/src/workflow.rs`) | one record: state, mode, current candidate, repair cycles and budget, repair target, where it was paused or blocked | 20 commands, each accepted or refused as a whole | the only thing the store lets change a workflow |
| Control plane (`workflowd/src/lifecycle.rs` and the modules it calls) | rows: request, plan, verification plan, candidates, evidence, reviews, verdicts, deduplication keys, delivery reservations; in memory: handlers, runs of gates, freezes, promotions | start, plan, freeze, verify, review, arbitrate, promote, pause/resume/cancel/retry | aggregate, store, worktree, delivery |
| Delivery (`workflowd/src/candidate.rs`) | the project's files, backups, staged files, concurrent copies, a journal, a committed marker; the reservation and the digest bound to it | promote, roll back, recover, clean up | the file system the user works in; the store |
| Admission (`workflowd/src/admission.rs`, `resources/policy.rs`) | leases, waiting places, a queue per project, a rotation of projects, the controller's pressure and recovery state | acquire, renew, release, cancel | clients that call; the workflow's state |
| Role registry and server (`server.ts`, `role-registry.ts`, `architecture-plan.ts`) | `runtime/role-sessions.json` and its temporary file; the call a server is in | start, control, worktree, promotion, register, revoke, submissions | daemon, hook, other servers |
| Hook (`hooks/pre-tool-use.js`) | none | allow or deny a tool call | registry |
| Bridge (`client.ts`) | the daemon it started, the materialised executable | health, replace, start, one exchange per request | daemons, other clients, the socket |
| Role profiles (`role-profiles.ts`) | five profiles per project, the record of pins, the git exclude file | status, install, repair, configure, remove | the host and the user, who write the same files |
| Managed browser (`mcp/src/browser`) | sessions, browsers with their profile and evidence directories, remembered receipts | commands, close, attest, dispose | verification |
| Goals, tasks and leases, audit ledger, IPC, code intelligence, memory, scheduler classes, worktrees, ... | see `PROJECT.json` | | not modelled, section 7 |

What is hard here, and where the modules look:

- **Handlers of several transactions.** A handler dies between them with the daemon; the repetition is
  answered from what the first one wrote, or refused because of it (*ControlPlane*).
- **Work outside the mutex.** Gates, freezing and promotion run between two critical sections; the
  second one seldom looks again at what the first one checked (*ControlPlane*).
- **Deduplication keys.** A key that names too little swallows a command that is needed.
- **Suspensions over a long life** that each remember something (*Workflow*).
- **A promotion over many files** that is not atomic, while the user edits the same files (*Delivery*).
- **A queue in four collections** with leases that lapse and calls that overtake each other (*Admission*).
- **A file that several processes read and write whole**, through one temporary file, without a lock:
  the registry (*RoleSessions*), the profiles and their pins (*RoleProfiles*).
- **Processes that start and stop each other** over one socket, of several versions (*Bridge*).
- **Calls of one server that overlap at every `await`** (*Browser*).

What makes each component correct is stated as its properties, each with a comment in its module:

| Component | Properties |
|---|---|
| Workflow | `RecordFollowsPlace`, `BudgetRespected`, `SuspensionIsExact`, `SuspensionPreservesWork`, `Governed` |
| Control plane | `ApprovalIsEarned`, `ReservationHoldsWorkflow`, `JudgedMayProceed`, `ApprovedOverPassedGates`, `MovesOnPassedGates`, `CyclesAreChargedInForce`, `InterruptedCallsComplete` |
| Delivery | `NoUserBytesLost`, `AllOrNothing`, `CompletedWasDelivered`, `CrashesAreRecovered` |
| Admission | `QueueIsConsistent`, `NoOvertaking`, `RefusalsAreJustified`, `LeasesAreKept` |
| Registry, hook, plans | `RegistrationsHaveLocks`, `ActiveIsGuarded`, `ReleasedStaysReleased`, `SubmissionsAreSound` |
| Bridge | `CallsAreAnswered`, `CallsEnd` |
| Role profiles | `PinsAreNotLostQuietly`, `RepairMakesReady` |
| Browser | `AttestedIsComplete`, `BrowsersAreAccountedFor` |

## 2. Modules

| Module | Models | Shape |
|---|---|---|
| `Workflow` | the aggregate | one action per `WorkflowCommand` |
| `Governance`, `WorkflowRefinement` | what the aggregate promises without suspensions, and the mapping (`Stage` is a function of `Place`) | abstract |
| `ControlPlane` | the handlers over one workflow; `W == INSTANCE Workflow` | one action per transaction |
| `ControlPlaneLiveness` | fairness and what must eventually happen | |
| `ControlPlaneClaims`, `DeliveryClaims` | sentences of the documents the code does not keep, each the property of a run that finds the counterexample | |
| `Delivery` | promotion of one candidate | one action per file operation that can fail or be followed by a crash |
| `Admission` | the admission controller and its clients | one action per call, split where it waits for a lock |
| `ArchitecturePlan` | `validateArchitecturePlan`, and what it is for | operators |
| `RoleRegistry` | one content of the registry and what the hook decides from it | operators |
| `RoleSessions` | servers, registry file and daemon; extends the two above | one action per wait of a tool and per file operation |
| `Bridge` | clients and daemons over one socket | one action per wait of a call, per step of a daemon's start |
| `RoleProfiles` | servers, profiles, pins, host and user | one action per file operation |
| `Browser` | one server, its browsers and their receipts | one action per wait |
| `MC...` | instances for TLC | |
| `WorkflowProofs`, `ControlPlaneProofs`, `DeliveryProofs`, `AdmissionProofs`, `RoleSessionsProofs`, `BridgeProofs`, `RoleProfilesProofs`, `BrowserProofs` | theorems about the module of that name, section 5 | each extends its module |

### Workflow, Governance

`wf` is the Rust struct, field by field (`None` for an empty `Option`). A command that the code
refuses is a step that does not happen. `Place` looks through a suspension: it is where the work
stands, whatever `Paused` or `Blocked` say. `u8` counters have the width `MaxU8`; the extension of a
budget that would exceed it is refused, as `checked_add` does. `RetryInfrastructure` without effect is a stutter.

### ControlPlane

| Variable | Code |
|---|---|
| `wf`, `dedup` | `workflows.state_json`, `command_deduplication` |
| `requested`, `plan`, `discovered` | `workflow_requests`, `workflow_architecture`, `workflow_verification_plans` |
| `frozen`, `evidence`, `reviews`, `verdicts` | `workflow_candidates`, latest attempt per gate, `workflow_reviews`, `workflow_arbitration` |
| `reserved` | `candidate_delivery_reservations` |
| `handler` | what is left of the handler that holds the store's mutex |
| `runs`, `freezing`, `promoting` | work outside the mutex |
| `worktree` | the committed content of the isolated worktree |

A crash resets `handler`, `runs`, `freezing` and `promoting`. `StoreFails` drops what is left of one
handler: a transaction that fails makes it return early. A command goes through `Issue`, which is
`apply_workflow_command`: refused while a delivery is reserved, answered from the store if its key
was used, otherwise the aggregate decides.

Simplifications: one workflow; its row exists once it has left Intake; identifiers of controls and
execution reports are fresh, so their repetitions are stutters; gates are three classes in the order
a plan runs them (a command, the integrity of the frozen bytes, one that needs an attestation, which
fails where the attested snapshot has unnamed controls or no summary), and a run of them may end in an
error without any result;
evidence is tied to a candidate and its verification plan, which is reduced to "discovered";
checking the worktree and reading it are one step; freezing a candidate that is already stored is a
repetition without effect; audit records and role receipts are left out. A retry adds `RetryCycles`
(5 in the code) to `DefaultBudget` (5 in the code).

### Delivery

| Variable | Code |
|---|---|
| `path`, `backup`, `incoming`, `concurrent` | for each file of the manifest, what is at its path and at the adjacent names of the current journal |
| `kept` | concurrent copies under the names of earlier journals |
| `journal`, `marker` | the journal (by digest) and the committed marker |
| `reserved`, `bound`, `completed` | the store's reservation, the digest bound to it, the workflow's state |
| `pc` | the next step of the promotion and the file it is for |
| `owed`, `touched` | history: bytes the user wrote and has not replaced himself; files he has edited |
| `raced` | history: those of `owed` written to a path between its check and the rename or removal the check guards |

Files are modified, added (generated files are treated as added) or deleted. The user may write,
remove or restore any of them between any two steps, also between a check and the operation it
guards. A failing operation ends the attempt as the
code's early return does, rollback included; a marker whose write failed may exist. Directories, file
modes, the comparison of the base revision and journals of earlier formats are left out, and a crash
is the death of the process, not a power loss: completed operations stay.

### Admission

`adm` is `RuntimeAdmission` (`active` and `waiting` hold the ticks a lease or place still has, instead
of an expiry time), `ctl` the `AdmissionController`. A call samples the time and the workflow's state,
waits for the lock (`call[w].lag` is how late it is by then), and is served. `Builds` says whether
`debug_assert_eq!` is executed: in a release build the pop inside it is not. `VecDeque::retain` is
`Retain`, which picks a set of places (`Subsequence`), so that what it keeps and in which order can be
reasoned about without recursion. What the machine measures
is a choice. Clients are outside the code: each may call, release, stop, vanish or be cancelled at any time,
and need not do any of it. Bad samples, stops and vanished clients are bounded together by `MaxTroubles`.

### RoleRegistry, ArchitecturePlan, RoleSessions

A registry content is a function from workflows to locks and from sessions to registrations.
`HookAllows` is `main` of `pre-tool-use.js` with the facts it extracts from a tool call (kind, host
role, requested role, where it writes, whether its git verb is forbidden) as fields. A path that
cannot be read counts as "unnamed" and is let through, which is what the code does.

`registry` and `temporary` are the two files; a server that has opened the temporary file keeps
writing to it after another server renamed it, since files are known by inode (`call[s].at`). A
content that is overwritten by a shorter one may no longer parse (`Torn`), which `readRegistry` takes
for an empty registry. `call[s]` is the tool call a server is in: what it asked for, the copy of the
registry it will write, and where it stands (`check`, `daemon`, `read`, `open`, `write`, `remove`,
`rename`, `cancel`). Two calls of one process that overlap are represented by two servers. The daemon
is one state per workflow (`none`, `active`, `ended`); it may refuse anything, and an answer may be
lost after it acted. `history` remembers what the claims are about: worktrees a caller was given,
ends a caller was told of, recoveries that are over, and workflows that went `astray` (section 6).

Simplifications: tools that only forward a request are left to `Bridge`; registration times and
directories are left out, a worktree path is present or not; texts of a plan are one boolean.

### Bridge

`endpoint` is what `workflow.sock` leads to (a daemon, `Stale`, or nothing), `daemon[d]` a process
with its version and the step of its life (`starting`, `clearing` the stale socket, `binding`,
`serving`, and `stopping` once it is signalled, until it `Dies`). Several calls may be in flight in one
server (`server[c]`); `own[s]` is the daemon the server started, which a second call of it does not start
again but waits for. `pc[c]` is where a call is: `query` (health), `reclaim` and `gone` (stopping others
and waiting for their end, five seconds at most: `Outlived`), `prepare`, `binary` and `copying` (the
executable), `poll`, `ready`, `reply`. `asked` is the daemon that has taken the request, `done` how often
one has carried it out. `disturbed` says that a call has met a cause it may fail for.

Simplifications: authentication and framing succeed; what a request carries and how long it may take
are left out (any answer may come too late); the manifest of the native package is valid; a daemon
starts within the fifteen seconds a client waits unless something ends it or a stopped one holds it
up; a daemon that ends by itself leaves its socket or, when its listener is dropped, removes whatever
is at the path; the Windows pipe, which needs no removal of a stale socket, is not modelled.

### RoleProfiles

`file` is each profile: absent, of somebody else (no marker), or a template version with settings;
version 0 stands for a changed text, settings `None` for settings that do not parse or do not go
together. A call keeps what it found (`records`), what it moved aside (`backup`), what it will still
write (`todo`) and whether something changed under it (`disturbed`). Crashes, failing writes, changes by the host and the user
and upgrades are bounded together by `MaxMeddling`. `asked` is history: what was last asked for and
recorded for a role.

### Browser

`sessions` is the manager's map, `records` the receipts the registry remembers, `browser[b]` one
launched browser with its directories, the actions noted so far and its receipt (`Torn` while it is
being written). `runs` says that its process may be running: a browser whose `close()` failed may. A call
arrives (`asked`) while the server is up, and looks into the map after it has waited for the registry
and the runtime, possibly when the server has disposed of all sessions; it then uses the session's
browser, launches one, or fails; `Finish` notes the action. A profile that cannot be removed is `kept`.
A kill, an exit and a restart lose memory and keep directories. Pages, origins and redaction are left out.

## 3. Runs

| Run | Question | Bounds | Time |
|---|---|---|---|
| `workflow` | Are the aggregate's invariants kept by every sequence of commands, and does it implement `Governance`? | 2 candidates, budget 2, extensions 0/2/3, `MaxU8` 7, so that some extensions overflow and are refused | 5 s |
| `control_full` | Is what is delivered on the full route earned, and do dropped handlers hurt? | 2 candidates, an allowed and a forbidden content, a budget of one cycle and one extension, one failure anywhere: 322 152 states | 30 s |
| `control_late` | Do late results hurt the next candidate? | quick route, 2 candidates (a rejected and repaired one and its successor), 2 runs in flight: 1 792 245 states | 95 s |
| `control_liveness` | Can a phase that was cut off be done again? | full route, 2 candidates (one that is left behind and its successor), one failure at every possible point: 51 176 states | 45 s |
| `claim_gates` | docs/USER_MANUAL.md:148 (violated, section 6) | 2 candidates, 2 runs, one crash | 10 s |
| `delivery` | Are promotions atomic and careful, and do crashes leave them possible? | one file of each kind, 2 edits with distinct bytes at any moment, 2 crashes (one may hit the recovery of the other), 1 failing operation, 2 digests: 899 983 states | 40 s |
| `claim_bytes` | SECURITY.md:42-44 (violated, section 6) | one modified file, 2 edits, no crash | 5 s |
| `admission` | Is there one fair queue within the limit, are leases kept, and is nobody kept waiting by the dead? | 3 workflows in 2 projects, one slot, leases of 2 ticks, calls up to one tick late, one trouble (a bad sample, a stop, a vanished client), release build (whose queues keep what the assertion would have popped): 631 846 states | 110 s |
| `role_sessions` | Do lock, registrations, hook and daemon stay together? | 2 servers, 2 workflows, 1 session, roles architect and executor, 4 calls, 1 fault, all plans of two tasks (and a selection of three) over up to 2 requirements and scopes that stay inside or leave | 2 min |
| `bridge` | Are calls answered, and do they end? | 2 calls in flight, of one server or of two of versions 1 and 2, 3 daemons of versions 1 to 3 (3 with another protocol), 3 calls, 1 fault: 576 518 states | 95 s |
| `browser` | Is what can be attested complete, and is every browser accounted for? | 2 sessions, 2 calls in flight, limit 1, 2 browsers, 3 operations, 1 fault: 2 164 249 states | 75 s |
| `profiles` | Is a pin never lost quietly, and does a repair repair? | 2 servers, 1 project, 2 roles, 2 template versions, 3 calls, 1 meddling: 865 281 states | 25 s |

Why the bounds are enough: every hazard needs at most two actors and one fault, and each run has
both at every step. Two workflows in `role_sessions` let a call for one undo a write for the other;
three calls in `bridge` let a client meet what an earlier call of its own and one of another left
behind, and three daemons let a fresh one start while a reclaimed one and one of the other client
are there. A limit of one in `browser` is reached by the second session. Two roles in `profiles`
let a repair stop between them. With one registered session of two roles, reviews and
arbitrations, whose check is the same code with another set of roles, are not reached.

Candidates, runs and plans (control plane), the two workflows of one project (admission), workflows
and servers (role sessions), calls (browser) and servers (profiles) are interchangeable; symmetry is
used in runs without liveness only. Two digests suffice for deliveries: an attempt takes one other
than the bound one, and recovery has removed every older journal by then. Deadlock is checked where
there is always somebody who can move (delivery, admission, role sessions while calls are left);
it is not where a workflow may be over for good, or bounded calls or candidates may be used up.

### Fairness, and why the code justifies it

- *Control plane*: the handler that holds the mutex runs on (WF): it waits for nobody. Gates have time
  limits (WF of `RunGates`). Whoever waits for the mutex gets it, since tokio's is first come, first
  served (SF of the steps that contend for it). The orchestrator goes on where the workflow stands
  (SF), as `/cycle:resume` tells it to: it submits the stored plan or a stored review again, which the tools
  identify by workflow and candidate, and freezes a new candidate, since the tool makes up a new
  identity each time. An interrupted start cannot be repeated for the same reason, so nothing is claimed of
  it; and nobody is assumed to begin a delivery again (`commands/cycle/resume.md:17-20` forbids it), to retry
  a verification or to be fair to pauses, extensions or verdicts.
- *Bridge*: a call goes on while its process runs, a daemon's start goes on while it runs, and a daemon
  that was signalled ends (WF of `Advance`, `Launch` and `Dies`); that it may outlive the five seconds a client
  waits for it is a fault. Timeouts, exits and crashes are faults nobody is fair to; the deadline of
  fifteen seconds is reached once nothing is on its way.

The other modules state safety only. Nothing in the code begins an interrupted delivery again, and no client
in the repository calls admission again, renews or releases by itself, so that nothing is claimed of what
would follow if they did so for ever: `CrashesAreRecovered` says how a delivery ends that was begun again, and
`RefusalsAreJustified` why a call for admission was not granted.

## 4. What is stated where the code is exact

Some properties say under which condition the code keeps them. They are checked in all other
behaviours, and the condition is itself a fact about the code:

- `ActiveIsGuarded` and `ReleasedStaysReleased` are claimed while no call has read the registry during
  another's write, no process has ended or failed between removing and renaming the file (`calm`), no
  rename is pending, and for workflows that did not go astray. `RegistrationsHaveLocks` is claimed always:
  an overlap loses locks and registrations, but never leaves a registration without its lock.
- `PinsAreNotLostQuietly` is claimed while configurations do not overlap, reports while a call ran alone.
- `BrowsersAreAccountedFor` is claimed while no two launches overlap, none fails, the server is not killed,
  and no call is on its way to a browser, or closing one, when it is told to stop. A browser that was told
  to close and did not may still run, and a profile that could not be removed stays.
  `AttestedIsComplete` is claimed always, of actions that succeeded: a check that failed is in no receipt.
- `NoUserBytesLost` leaves out what the user writes between the check of a path and the operation it guards;
  `claim_bytes` is what happens then. `CrashesAreRecovered` is claimed of promotions that end without an
  edit of the user or a failing operation.
- `ApprovedOverPassedGates` is claimed without a crash; `claim_gates` is what happens with one.
  `MovesOnPassedGates` is claimed with any number of runs: the gates that let verification pass are those
  of the candidate in force, or of an earlier one that was rejected while they ran, since
  `VerificationPassed` names no candidate.

## 5. Proofs

Every module of section 2 that is a state machine has its type invariant and its safety properties
proved (but `RefusalsAreJustified` and the plan half of `SubmissionsAreSound`), for every value of its
constants: any number of candidates, files, workflows, servers, clients,
daemons, sessions and projects, any number of crashes, failures and edits. The bounds of section 3 are
the runs' only. What each proof assumes of the constants are the named ASSUMEs of its module, which TLC
evaluates on every run; a theorem that needs more says so in its statement.

All proofs have one shape. `IInv` is the inductive invariant, the conjunction of named parts; it has
been checked by TLC on the module's instance. `InitEstablishes` and one lemma per action (one step
per conjunct the action can disturb) give `THEOREM Invariance == Spec => []IInv`. A state property
follows from `IInv`, an action property from `IInv` and the step.

### Workflow

| Theorem | States |
|---|---|
| `TypeCorrectness` | `[]TypeOK` |
| `RecordCorrectness` | `[]RecordFollowsPlace` |
| `BudgetSafety` | `[]BudgetRespected` |
| `SuspensionCorrectness` | `[]SuspensionIsExact` |
| `SuspensionSafety` | the action property `SuspensionPreservesWork` |
| `Refinement` | `Spec => Governed` |

Assumed: `CandidatesAssumption` (`NoCandidate` is no candidate), `BudgetAssumption` (budget and
extensions are `u8`s, the budget not zero). `IInv` is the conjunction of the invariants. None is
inductive alone: resuming a spent budget leads to `Repair`, which needs a target; that a workflow in
`Blocked` without an infrastructure cause has one follows from its budget being spent; and all of them
are stated at `Place`, which is well defined only because suspensions do not nest. The refinement is
proved from `IInv` command by command, each being one step of `Governance` or, for the five that suspend
and resume, a stutter.

### ControlPlane

| Theorem | States |
|---|---|
| `Implementation` | `Spec => W!Spec`: the daemon changes a workflow by steps of the aggregate only |
| `HandlersAreGoverned` | with the aggregate's refinement, what `Governance` promises |
| `TypeCorrectness` | `[]TypeOK` |
| `ApprovalSafety` | `[]ApprovalIsEarned` |
| `ReservationSafety` | `[]ReservationHoldsWorkflow` |
| `JudgementProceeds` | `[]JudgedMayProceed` |
| `ChargeSafety` | `CyclesAreChargedInForce` |
| `EvidenceSafety` | `ApprovedOverPassedGates` |
| `PassedGatesSafety` | `MovesOnPassedGates`, with any number of runs |

Every step of a handler is a command of the aggregate or leaves the workflow alone (`StepImplements`),
so the aggregate's inductive invariant, taken over through `WP == INSTANCE WorkflowProofs`, holds of
`wf` in every behaviour of the handlers. What the handlers add is that the rows keep up with it:
what a handler established in one transaction still holds in its next (`HandlerKnows`), gates run for
candidates that were submitted (`RunsAreOfCandidates`), the keys a candidate has spent say which places
it has left, and one that was rejected is not in force at a judged place again (`KeysAreInOrder`, which is
what `JudgementProceeds` needs: a key that names too little would swallow the next command), a row of
reviews is of the candidate that is judged or of a past one (`ReviewsAreOfJudged`), and without a crash the
evidence of a candidate has no holes but while it is written (`EvidenceIsWhole`). That approved work has
evidence rests on the order of the rows: a verdict is stored for a candidate with evidence only.
`PassedGatesSafety` needs that a run whose candidate is neither in force nor rejected does not exist.

### Delivery

| Theorem | States |
|---|---|
| `TypeCorrectness` | `[]TypeOK` |
| `AllOrNothingSafety` | `[]AllOrNothing`, the user's edits at any moment included |
| `CompletionSafety` | `CompletedWasDelivered`, likewise |
| `BytesSafety` | `[]NoUserBytesLost`, likewise |
| `RecoverySafety` | `CrashesAreRecovered` |

`RecordsFit` says what journal, marker, reservation and workflow are at each place of an attempt;
`CopiesFit` which copies of a file can exist next to its path at that place, whatever the user does;
`FileFits` where a file the user has left alone stands, which follows from the place and the file the
attempt is at: those before it have been dealt with, those after it have not. Such a file can be put
back as long as there is a journal without a marker, and when the journal goes all are at their base or
all are approved (`AllOrNone`). The files form the sequence `1 .. N` and an attempt visits them in
order, so no induction is needed. `BytesAreKept` stands on top: a byte sequence the user is owed is at
a path, in a copy, or among the copies of earlier journals, unless he wrote it after the check of that
path and before the operation that relies on it (`raced`): those can be overwritten, which is
`claim_bytes`. `RecoverySafety` follows from the place at which an attempt can end: without an edit and
without a failure that is only behind the last removal of a cleanup that followed a marker.

### Admission

| Theorem | States |
|---|---|
| `TypeCorrectness` | `[]TypeOK` |
| `QueueSafety` | `[]QueueIsConsistent`, in debug and release builds |
| `OrderSafety` | `NoOvertaking` |
| `LeaseSafety` | `LeasesAreKept` |

Two halves. `Whole` relates leases, places and owners and needs nothing of the order of the queue: who
waits has no lease, so that places that lapse take no lease with them, and a call only reaps what was
over at its own, earlier, time. `Ordered` says that whoever waits stands in the queue of its project, once,
and that a project has a turn if and only if it has a queue. It is an invariant only together with
`LeftBehind`: between two calls a release build may leave the admitted workflow at the head of its queue.
Every call that admits repairs the queue first, after which only waiters are in it (`Settled`); that is why
a head left behind is never mistaken for the next. `NoOvertaking` follows from three lemmas on
sequences without repetition: dropping elements brings the others nearer (`Closer`), appending leaves
them where they are (`Extended`), and taking the head moves all others up. They rest on
`Ranks`: the places of a set are numbered in their order. The repair's last clause, which gives
a turn to a project that has lost its own, is shown never to apply. `ProjectAssumption` has finitely many
workflows and projects.

### RoleSessions

| Theorem | States |
|---|---|
| `TypeCorrectness` | `[]TypeOK` |
| `LockSafety` | `[]RegistrationsHaveLocks` |
| `GuardSafety` | `[]ActiveIsGuarded` |
| `ReleaseSafety` | `[]ReleasedStaysReleased` |
| `SubmitterSafety` | who submits was registered in a role that may when the server checked |

A call is only where its tool takes it (`CallsMatch`). Each operator of `RoleRegistry` keeps
registrations behind locks, for every content, so `RegistrationsHaveLocks` holds of both files and of all
copies, overlaps included; likewise every registration anywhere was granted (`RegistrationsWereGranted`,
`CheckedWereGranted`). For the two properties that are claimed while it is calm, `Calm` says that the
copy a call writes back is the registry with its own change made, so what earlier calls put in order stays
in order; `RecordedIsOver` and `ToldIsEnded` tie the daemon's state to what callers were told.
`SubmitterSafety` is the half of `SubmissionsAreSound` that is about roles; the other half, that the plans
the validator forwards can be carried out, is checked by TLC over the instance's plans: that the
recursive `Acyclic` finds every cycle would need an induction the installed provers cannot do.

### Bridge

| Theorem | States |
|---|---|
| `TypeCorrectness` | `[]TypeOK` |
| `CallSafety` | `[]CallsAreAnswered` |

`DaemonsAreKept` and `Led`: the socket leads to a daemon that serves or stops, or to none, and who has
bound it holds it. `CarriedOut`: a request is carried out at most once, and exactly once where the caller is
told so. The part that needed a strengthening is `Undisturbed`: a call nothing has disturbed finds, where it
waits, what it waits for. It is not its own server's daemon that keeps up its hope, since that one may give
up before another or be stopped by another call, but any daemon that is up and will find the socket free
(`AnyUp => WillServe`), or any call on its way to start one (`Provided`); and while a signalled daemon still
holds the socket somebody waits for its end (`AnyStopping => AnyAtGone`).

### RoleProfiles

| Theorem | States |
|---|---|
| `TypeCorrectness` | `[]TypeOK` |
| `PinSafety` | `[]PinsAreNotLostQuietly` |
| `RepairSafety` | `[]RepairMakesReady` |

A call that nothing has disturbed is the only one there is (`Alone`), since a call that begins disturbs all
others; so what it read still holds, and a repair has mended every role it no longer has to do
(`OwnWork`). While configurations do not overlap there is at most one, and what it writes back is the
record as it is with its own pin in it (`RecordIsKept`). `ProfilesAssumption` has at least one version of
the templates.

### Browser

| Theorem | States |
|---|---|
| `TypeCorrectness` | `[]TypeOK` |
| `AttestationSafety` | `[]AttestedIsComplete` |
| `BrowserSafety` | `[]BrowsersAreAccountedFor` |

The map, the registry and the calls lead only to browsers of their own sessions that are as far as they
take them to be (`MapLeads`, `RegistryLeads`, `CallsFit`, `LaunchesDiffer`). `ReceiptsAreSound`: what a
browser has done begins with what it had answered, from its launch to its receipt. `Calm`: while the
conditions of section 4 hold, every browser that is open is one the map leads to, every one that is being
launched or closed is one a call or the stopping server waits for, and none is left over; the limit then
follows by counting the map.

### Only model-checked

- Liveness (`InterruptedCallsComplete`, `CallsEnd`): fairness and ENABLED are out of the
  prover's reach.
- `RefusalsAreJustified`, whose proof is planned (section 8).
- `claim_gates` and `claim_bytes`, counterexamples.
- The plan validator, and with it `SubmissionsAreSound` as a whole: that `Acyclic` finds every cycle is an
  induction over data.

## 6. Where the code differs from what it says

**With a run.**

- *Approval without the results of every gate* (`claim_gates`; docs/USER_MANUAL.md:148).
  `VerificationPassed` names no candidate and is applied without a second look at the state, and
  arbitration refuses over recorded results only.
- *An overwritten edit* (`claim_bytes`; SECURITY.md:42-44). A destination is looked at before, not as, it is
  replaced or removed (`candidate.rs` 684-688, 805-806, 1210-1217): what the user saves in between is neither
  refused nor kept.

**Without a run of its own**; the models have these behaviours, and the properties are stated
around them:

Control plane and delivery
- a retry of a spent budget moves `Blocked` to `Repair`, where no `BeginRepair` is ever issued
  (`control.rs:119`; docs/USER_MANUAL.md:108 calls it recoverable);
- a verdict stored just before a kill never takes effect: every repetition is answered from the stored
  one (`lifecycle.rs:1060`; docs/USER_MANUAL.md:174);
- a user's edit that is being kept aside when a crash comes leaves a copy every recovery fails on; the
  reservation then refuses every command (`candidate.rs:1202`; README.md:206);
- a reservation is given up only by a delivery or a promotion that failed and was rolled back: after a
  kill it stands, the status says that the delivery began (`control.rs:216-230`), and
  `commands/cycle/resume.md:17-20` forbids the call that would recover it;
- a start that was cut off cannot be repeated under its identity: the tool makes up a new one
  (`server.ts:201-216`, `client.ts:889`), and the first workflow stays where it was;
- a plan defect reported before the first rejection leaves `Architecture` with no way on
  (`architecture.rs:49`);
- a skipped mandatory gate blocks on infrastructure and costs no cycle, where SKILL.md:134 counts one
  (`lifecycle.rs:1580`); the second time, the block is a duplicate (`lifecycle.rs:1585`);
- a marker whose sync failed, with a crash in the rollback that follows, makes every recovery verify
  files that were rolled back, and fail (`candidate.rs:979`);
- a failed promotion moves the user's edit to an adjacent `.concurrent` name and leaves its path empty.

Registry and hook
- overlapping writes lose a lock, a registration or a worktree; a reader between the removal and the
  rename sees an empty registry, and an exit there leaves one (`server.ts:89-95`);
- a start whose answer is lost, whose server ends before it wrote the lock, or whose cancel after a
  failed write is refused, leaves an active workflow without a lock, and one that another call ends
  during its start is locked afterwards (`server.ts:206-222`): these are the workflows in `astray`;
- a worktree of a workflow without a lock is not recorded, without an error (`server.ts:115`), and an
  executor registered without a workflow is confined to no worktree;
- a call whose path the hook cannot read is let through, where the comment at `pre-tool-use.js:203` says
  it is denied;
- a recovery that names no workflow never finds a registration to revoke, since each goes with its lock.

Bridge
- a client compares itself with the daemon that answers its health request, and stops every daemon of the
  data directory: one that another client has just started, or a newer one that is starting or too slow
  to answer, included (`client.ts:531`; README.md:270: "it never stops a daemon newer than itself");
- of two daemons that find the same stale socket, the second removes the socket the first has bound
  by then (`unix.rs:34-45`): both run, one unreachable;
- a daemon that is dropped after its successor has bound the path removes the successor's socket
  (`unix.rs:66-73`), and one that outlives the five seconds after its signal keeps a new one from
  binding (`client.ts:541-545`);
- a newer daemon met while waiting for its own is waited out to the deadline, where the comment at
  `client.ts:518` says waiting would be pointless; and the connection of the request itself does not look
  at the version of the daemon it reaches (`client.ts:1331`);
- an answer that is lost leaves the caller without the identity the bridge made up for its request.

Profiles
- overlapping configurations lose a pin (`role-profiles.ts:203-214`); the thought level of a pin is
  recorded but neither compared nor, alone, repaired;
- a write replaces, and after a failed rename deletes, a file of somebody else that arrived after the
  profile was looked at, or the backup of the old one (`role-profiles.ts:492-515`); a crash between the
  two renames loses settings that were not pinned.

Browser
- two first commands at once pass the limit together, and of two for one session one browser is lost
  (`browser-manager.ts:122-136`); browsers that are closing are not counted; the limit is the server's,
  where docs/guides/browser.md:89 says the project's;
- a failed launch leaves its directories; a server that is told to stop misses a session that is being
  launched and does not wait for a close in flight; a call that came before and looks its session up
  afterwards launches a browser nobody closes (`server.ts:412`, `browser-manager.ts:116-120`);
- a browser whose `close()` was rejected may still run, and no session leads to it; a profile that cannot be
  removed stays, and the close fails (`managed-browser-session.ts:204-218`); a check that failed is in no
  receipt, where docs/guides/browser.md:26 says every action;
- an empty receipt fails the attestation of every session, a partial one is passed on for the daemon to
  refuse; a failed close leaves the previous receipt on record (`browser-ops.ts:43`); after a restart all
  receipts of a session are attested instead of the last; a screenshot that is finished after the receipt
  is missing from it.

Read, not modelled: the continuation after a goal's limit was reached is stored with a count the loader
rejects (`goal.rs:297`), links can be added to a goal that is over, and `readJson` of the bridge drops a
second frame of the same chunk.

## 7. Not modelled

- *Goals*: a second aggregate over workflows. Next in line for a module, with an abstract specification
  (a completed goal's evidence was earned by its own work).
- *Tasks and leases, audit ledger, IPC authentication and framing, scheduler classes, the daemon's task
  graph, reconciliation of the code index, memory*: state machines or algorithms of their own that do
  not change how the modelled parts interact.
- *Versions of the verification plan* in `ControlPlane`; *base revision and directories* in `Delivery`;
  *a restart* in `Admission`; *two projects* in `role_sessions`, whose check of the project is then
  vacuous.
- Parsers and language adapters, the platform transports, packaging, prompts, `post-tool-use.js`, the
  hook's audit and trace: I/O, text processing or build tooling.

`PROJECT.json` lists every component with its status and reason.

## 8. Plan

All safety properties of the runs are proved but `RefusalsAreJustified` and the plan half of
`SubmissionsAreSound`. Next, in this order:

1. The proof of `RefusalsAreJustified`.
2. An abstract `AtomicDelivery` (a delivery happens at one moment, or not at all, to the files the user
   has left alone) that `Delivery` implements: the mapping is the marker, `AllOrNone` and `FileFits` give
   its step; and an abstract lock, which ends with its workflow, for `RoleSessions` while it is calm.
3. `Goal`: a second aggregate over workflows, with the abstract specification that a completed goal's
   evidence was earned by its own work.
4. A second project in `RoleSessions`; versions of the verification plan in `ControlPlane`.
