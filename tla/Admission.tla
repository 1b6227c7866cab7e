----------------------------- MODULE Admission -----------------------------
(***************************************************************************)
(* RuntimeAdmission (workflowd/src/admission.rs) and its controller: how   *)
(* many workflows may work at once, and in which order waiting ones get    *)
(* their turn.  A lease and a place in the queue lapse unless their client *)
(* calls again.                                                            *)
(*                                                                         *)
(* Time is relative: a lease or a place holds the ticks it has left, a     *)
(* call in flight the ticks since its time was taken, which is before it   *)
(* waits for the lock.  A tick is a period of the controller (1 s).        *)
(***************************************************************************)
EXTENDS Integers, FiniteSets, Sequences, SequencesExt, Functions

CONSTANTS
  Workflows, Projects, ProjectOf,
  Maximum,        \* maximum_active
  LeaseTicks,     \* LEASE_MILLIS in ticks
  MaxLag,         \* ticks a call may wait for the lock
  MaxTroubles,    \* bad samples of the machine, workflows that stop, clients that vanish
  Builds          \* of which builds: is debug_assert_eq! compiled in?

ASSUME ProjectAssumption ==
  /\ ProjectOf \in [Workflows -> Projects]
  /\ IsFiniteSet(Workflows) /\ IsFiniteSet(Projects)
ASSUME LimitsAssumption ==
  /\ Maximum \in Nat \ {0} /\ LeaseTicks \in Nat \ {0}
  /\ MaxLag \in Nat /\ MaxTroubles \in Nat
  /\ Builds \subseteq BOOLEAN

VARIABLES
  adm,        \* active, waiting, workflow_projects (its keys), projects, rotation
  ctl,        \* the AdmissionController, and ticks since last_tick
  state,      \* the workflow in the store, as admission_allowed sees it
  call,       \* the admission call in flight
  cancelling, \* Cancel has been stored, the release is still to come
  present,    \* clients that still call
  held,       \* clients whose last answer was "admitted"
  troubles,
  asserts     \* debug_assert_eq! is compiled in (no: the release profile)

vars == <<adm, ctl, state, call, cancelling, present, held, troubles, asserts>>

NoCall == [op |-> "none", lag |-> 0]
RecoveryAdmissions == 1   \* recovery_admissions_per_tick

Init ==
  /\ adm = [active |-> << >>, waiting |-> << >>, owner |-> {},
            queue |-> [p \in Projects |-> << >>], rotation |-> << >>]
  /\ ctl = [admitted |-> 0, pressured |-> FALSE, recovery |-> FALSE, since |-> MaxLag + 1]
  /\ state = [w \in Workflows |-> "running"]
  /\ call = [w \in Workflows |-> NoCall]
  /\ cancelling = {} /\ present = Workflows /\ held = {} /\ troubles = 0
  /\ asserts \in Builds

(***************************************************************************)
(* The queue.                                                              *)
(***************************************************************************)
Active(s) == DOMAIN s.active
Waiting(s) == DOMAIN s.waiting
Set(f, w, v) == [x \in DOMAIN f \cup {w} |-> IF x = w THEN v ELSE f[x]]
Without(f, W) == Restrict(f, DOMAIN f \ W)

(* VecDeque::retain: the elements at the places of K, in their order. *)
Subsequence(seq, K) ==
  [n \in 1 .. Cardinality(K) |-> seq[CHOOSE i \in K : Cardinality({j \in K : j <= i}) = n]]

Retain(seq, S) == Subsequence(seq, {i \in DOMAIN seq : seq[i] \in S})

(* remove, for each of W: only what is still owned leaves the queue. *)
RemoveWorkflows(s, W) ==
  LET queued == W \cap s.owner
      queue == [p \in Projects |-> Retain(s.queue[p], Workflows \ queued)]
      emptied == {ProjectOf[w] : w \in queued} \cap {p \in Projects : queue[p] = << >>}
  IN [active |-> Without(s.active, W), waiting |-> Without(s.waiting, queued),
      owner |-> s.owner \ queued, queue |-> queue,
      rotation |-> Retain(s.rotation, Projects \ emptied)]

(* The places of the first occurrence of each element of S. *)
FirstOccurrences(seq, S) ==
  {i \in DOMAIN seq : seq[i] \in S /\ \A j \in 1 .. i - 1 : seq[j] # seq[i]}

(* repair_queue_invariants. *)
Repair(s) ==
  LET queue == [p \in Projects |-> Retain(s.queue[p], Waiting(s) \cap s.owner)]
      known == {p \in Projects : queue[p] # << >>}
      queued == UNION {Range(queue[p]) : p \in Projects}
  IN [s EXCEPT !.queue = queue,
               !.waiting = Restrict(@, DOMAIN @ \cap queued), !.owner = @ \cap queued,
               !.rotation = Subsequence(@, FirstOccurrences(@, known))
                              \o SetToSeq(known \ Range(@))]

(* Slip: waiters that stopped calling keep their place. *)
ReapLeases(s, now) ==
  Repair([s EXCEPT !.active = Restrict(@, {w \in DOMAIN @ : @[w] > now})])

(* Slip: what a release build leaves in the queue is never taken out. *)
ReapUnrepaired(s, now) ==
  RemoveWorkflows([s EXCEPT !.active = Restrict(@, {w \in DOMAIN @ : @[w] > now})],
         {w \in Waiting(s) : s.waiting[w] <= now})

(* Slip: a lease is reaped a tick early. *)
ReapEarly(s, now) ==
  Repair(RemoveWorkflows([s EXCEPT !.active = Restrict(@, {w \in DOMAIN @ : @[w] > now + 1})],
                         {w \in Waiting(s) : s.waiting[w] <= now}))

Reap(s, now) ==
  LET leased == [s EXCEPT !.active = Restrict(@, {w \in DOMAIN @ : @[w] > now})]
      abandoned == {w \in Waiting(s) : s.waiting[w] <= now}
  IN Repair(RemoveWorkflows(leased, abandoned))

(* Slip: a call that is repeated queues again. *)
EnqueueAgain(s, w, now) ==
  LET p == ProjectOf[w]
  IN [s EXCEPT !.waiting = Set(@, w, now + LeaseTicks), !.owner = @ \cup {w},
               !.queue[p] = Append(@, w),
               !.rotation = IF s.queue[p] = << >> THEN Append(@, p) ELSE @]

(* Slip: a waiting workflow is put first, not last. *)
EnqueueFirst(s, w, now) ==
  LET p == ProjectOf[w]
  IN IF w \in Waiting(s) THEN [s EXCEPT !.waiting[w] = now + LeaseTicks]
     ELSE [s EXCEPT !.waiting = Set(@, w, now + LeaseTicks), !.owner = @ \cup {w},
                    !.queue[p] = <<w>> \o @,
                    !.rotation = IF s.queue[p] = << >> THEN Append(@, p) ELSE @]

Enqueue(s, w, now) ==
  LET p == ProjectOf[w]
  IN IF w \in Waiting(s) THEN [s EXCEPT !.waiting[w] = now + LeaseTicks]
     ELSE [s EXCEPT !.waiting = Set(@, w, now + LeaseTicks), !.owner = @ \cup {w},
                    !.queue[p] = Append(@, w),
                    !.rotation = IF s.queue[p] = << >> THEN Append(@, p) ELSE @]

(* dequeue_front: the pop is an argument of debug_assert_eq!, so a release *)
(* build leaves the workflow at the front of its queue.                    *)
Dequeue(s, w) ==
  LET p == ProjectOf[w]
      rest == IF asserts THEN Tail(s.queue[p]) ELSE s.queue[p]
  IN [s EXCEPT !.queue[p] = rest, !.waiting = Without(@, {w}), !.owner = @ \ {w},
               !.rotation = IF rest = << >> THEN Tail(@) ELSE Append(Tail(@), p)]

(***************************************************************************)
(* AdmissionController: begin_tick, then evaluate.                         *)
(***************************************************************************)
BeginTick(lag) ==
  IF ctl.since - lag >= 1
  THEN [admitted |-> 0, pressured |-> FALSE, recovery |-> ctl.pressured, since |-> lag]
  ELSE ctl

Decision(c, sample) ==
  CASE sample # "good" -> sample
    [] c.recovery /\ c.admitted >= RecoveryAdmissions -> "backpressure"
    [] OTHER -> "admit"

Evaluated(c, sample) ==
  CASE sample = "pressure" -> [c EXCEPT !.pressured = TRUE]
    [] Decision(c, sample) = "admit" ->
         [c EXCEPT !.admitted = IF @ < RecoveryAdmissions THEN @ + 1 ELSE @]
    [] OTHER -> c

(***************************************************************************)
(* RuntimeAdmission::execute, for a call whose time is lag ticks ago.      *)
(***************************************************************************)
Full(s) == Cardinality(Active(s)) >= Maximum

IsNext(s, w) == Head(s.rotation) = ProjectOf[w] /\ Head(s.queue[ProjectOf[w]]) = w

Acquire(w, lag, sample) ==
  LET s == Reap(adm, -lag)
      queued == Enqueue(s, w, -lag)
      decision == Decision(BeginTick(lag), sample)
  IN IF w \in Active(s)
     THEN /\ adm' = [s EXCEPT !.active[w] = LeaseTicks - lag] /\ held' = held \cup {w}
          /\ UNCHANGED ctl
     ELSE IF Full(s) \/ ~IsNext(queued, w)
     THEN adm' = queued /\ held' = held \ {w} /\ UNCHANGED ctl
     ELSE /\ ctl' = Evaluated(BeginTick(lag), sample)
          /\ IF decision # "admit" THEN adm' = queued /\ held' = held \ {w}
             ELSE LET done == Dequeue(queued, w)
                  IN /\ adm' = [done EXCEPT !.active = Set(@, w, LeaseTicks - lag)]
                     /\ held' = held \cup {w}

(***************************************************************************)
(* The handler of ClientMessage::Admission: eligibility is read under the  *)
(* lock of the store, the queue is changed under its own, later.           *)
(***************************************************************************)
Begin(w, op) ==
  /\ w \in present /\ call[w] = NoCall
  /\ call' = [call EXCEPT ![w] = [op |-> op, lag |-> 0]]
  /\ UNCHANGED <<adm, ctl, state, cancelling, present, held, troubles, asserts>>

(* admission_allowed. *)
Poll(w) == Begin(w, IF state[w] = "running" THEN "acquire" ELSE "refused")

Release(w) == w \in held /\ Begin(w, "release")

Trouble == troubles < MaxTroubles /\ troubles' = troubles + 1

ServeAcquire(w) ==
  /\ call[w].op = "acquire"
  /\ \E sample \in {"good", "pressure", "missing"} :
       /\ IF sample = "good" THEN UNCHANGED troubles ELSE Trouble
       /\ Acquire(w, call[w].lag, sample)
  /\ call' = [call EXCEPT ![w] = NoCall]
  /\ UNCHANGED <<state, cancelling, present, asserts>>

ServeRelease(w) ==
  /\ call[w].op = "release"
  /\ adm' = RemoveWorkflows(Reap(adm, -call[w].lag), {w})
  /\ call' = [call EXCEPT ![w] = NoCall] /\ held' = held \ {w}
  /\ UNCHANGED <<ctl, state, cancelling, present, troubles, asserts>>

ServeRefused(w) ==
  /\ call[w].op = "refused"
  /\ adm' = RemoveWorkflows(adm, {w})
  /\ call' = [call EXCEPT ![w] = NoCall] /\ held' = held \ {w}
  /\ UNCHANGED <<ctl, state, cancelling, present, troubles, asserts>>

(* Control: Cancel releases after its command is stored. *)
Cancel(w) ==
  /\ Trouble /\ state[w] # "over"
  /\ state' = [state EXCEPT ![w] = "over"]
  /\ cancelling' = cancelling \cup {w}
  /\ UNCHANGED <<adm, ctl, call, present, held, asserts>>

ReleaseCancelled(w) ==
  /\ w \in cancelling
  /\ adm' = RemoveWorkflows(adm, {w})
  /\ cancelling' = cancelling \ {w}
  /\ UNCHANGED <<ctl, state, call, present, held, troubles, asserts>>

(* The workflow is completed, or it is paused or blocked and goes on later. *)
Suspend(w, to) ==
  /\ Trouble /\ state[w] = "running" /\ state' = [state EXCEPT ![w] = to]
  /\ UNCHANGED <<adm, ctl, call, cancelling, present, held, asserts>>

GoOn(w) ==
  /\ state[w] = "suspended" /\ state' = [state EXCEPT ![w] = "running"]
  /\ UNCHANGED <<adm, ctl, call, cancelling, present, held, troubles, asserts>>

Vanish(w) ==
  /\ Trouble /\ w \in present /\ present' = present \ {w}
  /\ UNCHANGED <<adm, ctl, state, call, cancelling, held, asserts>>

Older(f) == [w \in DOMAIN f |-> IF f[w] > -MaxLag THEN f[w] - 1 ELSE f[w]]

Tick ==
  /\ \A w \in Workflows : call[w] # NoCall => call[w].lag < MaxLag
  /\ adm' = [adm EXCEPT !.active = Older(@), !.waiting = Older(@)]
  /\ ctl' = [ctl EXCEPT !.since = IF @ <= MaxLag THEN @ + 1 ELSE @]
  /\ call' = [w \in Workflows |->
                IF call[w] = NoCall THEN NoCall ELSE [call[w] EXCEPT !.lag = @ + 1]]
  /\ UNCHANGED <<state, cancelling, present, held, troubles, asserts>>

Serve(w) == ServeAcquire(w) \/ ServeRelease(w) \/ ServeRefused(w) \/ ReleaseCancelled(w)

Next ==
  \/ \E w \in Workflows :
       \/ Poll(w) \/ Release(w) \/ Serve(w) \/ Cancel(w) \/ Vanish(w)
       \/ Suspend(w, "suspended") \/ Suspend(w, "over") \/ GoOn(w)
  \/ Tick

Spec == Init /\ [][Next]_vars

(***************************************************************************)
(* Properties.                                                             *)
(***************************************************************************)
Ticks == -MaxLag .. LeaseTicks

TypeOK ==
  /\ adm.active \in [Active(adm) -> Ticks] /\ adm.waiting \in [Waiting(adm) -> Ticks]
  /\ Active(adm) \cup Waiting(adm) \cup adm.owner \subseteq Workflows
  /\ adm.queue \in [Projects -> Seq(Workflows)] /\ adm.rotation \in Seq(Projects)
  /\ IsInjective(adm.rotation) /\ \A p \in Projects : IsInjective(adm.queue[p])
  /\ ctl \in [admitted : 0 .. RecoveryAdmissions, pressured : BOOLEAN, recovery : BOOLEAN,
              since : 0 .. MaxLag + 1]
  /\ state \in [Workflows -> {"running", "suspended", "over"}]
  /\ call \in [Workflows -> [op : {"none", "acquire", "release", "refused"}, lag : 0 .. MaxLag]]
  /\ cancelling \cup present \cup held \subseteq Workflows
  /\ troubles \in 0 .. MaxTroubles /\ asserts \in BOOLEAN

(* Four collections describe one queue: a waiting workflow has one place,  *)
(* in the queue of its project, and no lease; every project with a queue   *)
(* has one turn.  What a release build leaves in a queue is nobody's place *)
(* and, at the next call, gone.  No more than maximum_active workflows     *)
(* hold a lease.                                                           *)
QueueIsConsistent ==
  /\ Cardinality(Active(adm)) <= Maximum
  /\ Waiting(adm) = adm.owner /\ Waiting(adm) \cap Active(adm) = {}
  /\ \A w \in Waiting(adm) :
       Cardinality({i \in DOMAIN adm.queue[ProjectOf[w]] : adm.queue[ProjectOf[w]][i] = w}) = 1
  /\ Range(adm.rotation) = {p \in Projects : adm.queue[p] # << >>}
  /\ Len(adm.rotation) = Cardinality(Range(adm.rotation))
  /\ \A p \in Projects : \A i \in DOMAIN adm.queue[p] :
       adm.queue[p][i] \in Waiting(adm) \/ (i = 1 /\ ~asserts)

(* Nobody overtakes: while a workflow waits and its place has not lapsed,  *)
(* its place in the queue of its project only gets better, and so does the *)
(* turn of its project, unless the project has just had one.               *)
Place(w) == CHOOSE i \in DOMAIN adm.queue[ProjectOf[w]] : adm.queue[ProjectOf[w]][i] = w
Turn(p) == CHOOSE i \in DOMAIN adm.rotation : adm.rotation[i] = p
NoOvertaking ==
  [][\A w \in Waiting(adm) :
       w \in Waiting(adm)' /\ adm.waiting[w] > 0 =>
         /\ Place(w)' <= Place(w)
         /\ \/ Turn(ProjectOf[w])' <= Turn(ProjectOf[w])
            \/ \E v \in Active(adm)' \ Active(adm) : ProjectOf[v] = ProjectOf[w]]_vars

(* A lease that has not expired is only taken away by its own client, by a *)
(* refusal to a workflow that may not run, or by Cancel.                   *)
LeasesAreKept ==
  [][\A w \in Active(adm) \ Active(adm)' :
       adm.active[w] <= 0 \/ w \in cancelling \/ call[w].op \in {"release", "refused"}]_vars

(* Nobody waits for the dead.  A workflow that asks and is not admitted is *)
(* told so because as many leases as may be are still running, because the *)
(* machine is or just was short of a resource, or because somebody is      *)
(* ahead of it in the queue whose place is still running, too: neither a   *)
(* client that went away, a workflow that is over, nor what a release      *)
(* build left in a queue keeps a free slot from those that call.           *)
Ahead(v, w) ==
  \/ Turn(ProjectOf[v]) < Turn(ProjectOf[w])
  \/ ProjectOf[v] = ProjectOf[w] /\ Place(v) < Place(w)
Served(w) == call[w] # NoCall /\ call' = [call EXCEPT ![w] = NoCall]
RefusalsAreJustified ==
  [][\A w \in Workflows :
       call[w].op = "acquire" /\ Served(w) /\ w \notin Active(adm)' =>
         LET now == -call[w].lag IN
         \/ Cardinality({v \in Active(adm) : adm.active[v] > now}) >= Maximum
         \/ troubles' # troubles \/ ctl'.recovery
         \/ \E v \in Waiting(adm)' \ {w} : adm.waiting[v] > now /\ Ahead(v, w)']_vars

=============================================================================
