------------------------------- MODULE Bridge -------------------------------
(***************************************************************************)
(* The bridge from the MCP servers and the hooks to the daemon             *)
(* (LocalControlPlane, mcp/src/client.ts): every call first asks for the   *)
(* daemon's health, which replaces a daemon that does not answer or is     *)
(* older and starts one where there is none, and then makes its request on *)
(* a connection of its own.  The daemons are modelled by how they start    *)
(* (workflowd/src/lifecycle.rs 30-75, workflow-ipc/src/unix.rs 16-48) and  *)
(* by what they answer.                                                    *)
(***************************************************************************)
EXTENDS Integers, FiniteSets

CONSTANTS
  Servers, Clients,    \* processes that hold a bridge; the calls they may have in flight
  Daemons,             \* daemons that can be alive at once
  Versions, ProtocolOf,
  ServerVersions,      \* the versions of the plugin that are installed
  None, Stale,         \* no socket; one that nobody listens on
  MaxCalls, MaxFaults  \* calls; exits, answers that come too late, daemons that outlive a signal

ASSUME VersionsAssumption ==
  /\ Versions \subseteq Nat /\ ServerVersions \subseteq Versions
  /\ ProtocolOf \in [Versions -> Nat]
ASSUME BoundsAssumption == MaxCalls \in Nat /\ MaxFaults \in Nat
ASSUME DaemonsAssumption == Daemons # {}
ASSUME AbsenceAssumption == None \notin Daemons /\ Stale \notin Daemons /\ None # Stale

VARIABLES
  version,    \* of a server, and of the daemons it starts
  server,     \* the process a call is made in
  daemon,     \* what a daemon is doing, and its version
  endpoint,   \* what workflow.sock leads to
  secret,     \* ipc.secret exists
  binary,     \* the executable materialised for a version
  own,        \* the daemon a server has started, while it is alive
  pc,         \* where a call is
  asked,      \* the daemon that has taken the request of this call
  done,       \* how often a daemon has carried out the request of this call
  outcome,    \* how the last call ended
  disturbed,  \* the call in progress has met what may make it fail
  calls, faults

processes == <<version, server>>
daemons == <<daemon, endpoint, secret, own>>
vars == <<processes, daemons, binary, pc, asked, done, outcome, disturbed, calls, faults>>

(***************************************************************************)
(* The daemons.                                                            *)
(***************************************************************************)
Gone(d) == daemon[d].state = "none"
Alive == {d \in Daemons : ~Gone(d)}
InState(states) == {d \in Daemons : daemon[d].state \in states}
Listening == {endpoint} \cap Alive               \* who holds the socket a connection reaches
Answering == {endpoint} \cap InState({"serving"})  \* who answers on it

Slot == [state |-> "none", version |-> 0]
AnySlot(D) == CHOOSE d \in D : TRUE   \* the slots are alike: which one a daemon takes is immaterial

(* Slip: a server does not notice that the daemon it started is gone. *)
EndUnnoticed(d) ==
  /\ daemon' = [daemon EXCEPT ![d] = Slot]
  /\ asked' = [c \in Clients |-> IF asked[c] = d THEN None ELSE asked[c]]
  /\ UNCHANGED own

(* d has ended: it is nobody's daemon, and answers no request. *)
End(d) ==
  /\ daemon' = [daemon EXCEPT ![d] = Slot]
  /\ asked' = [c \in Clients |-> IF asked[c] = d THEN None ELSE asked[c]]
  /\ own' = [s \in Servers |-> IF own[s] = d THEN None ELSE own[s]]

(* Its socket is left behind. *)
LeaveSocket(d) == endpoint' = IF endpoint = d THEN Stale ELSE endpoint

Disturb(C) == disturbed' = [c \in Clients |-> disturbed[c] \/ c \in C]
At(pcs) == {c \in Clients : pc[c] \in pcs}

(* Where a call waits for a daemon to start, its own or another's. *)
Expecting == {"gone", "prepare", "binary", "copying", "poll"}

Init ==
  /\ version \in [Servers -> ServerVersions]
  /\ server \in [Clients -> Servers]
  /\ secret \in BOOLEAN
  /\ \/ daemon = [d \in Daemons |-> Slot] /\ endpoint \in {None, Stale}
     \/ \E d \in {AnySlot(Daemons)}, v \in Versions :
          /\ secret
          /\ daemon = [e \in Daemons |-> IF e = d THEN [state |-> "serving", version |-> v] ELSE Slot]
          /\ endpoint = d
  /\ binary = [v \in Versions |-> "absent"]
  /\ own = [s \in Servers |-> None]
  /\ pc = [c \in Clients |-> "idle"]
  /\ asked = [c \in Clients |-> None] /\ done = [c \in Clients |-> 0]
  /\ outcome = [c \in Clients |-> "none"] /\ disturbed = [c \in Clients |-> FALSE]
  /\ calls = 0 /\ faults = 0

Become(d, state) == daemon' = [daemon EXCEPT ![d].state = state]

(* The secret and the store; then whether somebody listens on the socket: *)
(* a daemon that is being stopped still does.                             *)
CheckEndpoint(d) ==
  /\ daemon[d].state = "starting"
  /\ secret' = TRUE
  /\ IF Listening # {} THEN End(d)
     ELSE /\ Become(d, IF endpoint = None THEN "binding" ELSE "clearing")
          /\ UNCHANGED <<own, asked>>
  /\ UNCHANGED <<processes, endpoint, binary, pc, done, outcome, disturbed, calls, faults>>

(* The socket found stale is removed, whoever has it by now. *)
RemoveSocket(d) ==
  /\ daemon[d].state = "clearing"
  /\ Become(d, "binding") /\ endpoint' = None
  /\ Disturb(IF Answering # {} THEN At({"ready"}) ELSE {})
  /\ UNCHANGED <<processes, secret, own, binary, pc, asked, done, outcome, calls, faults>>

Bind(d) ==
  /\ daemon[d].state = "binding"
  /\ IF endpoint # None THEN End(d) /\ UNCHANGED endpoint
     ELSE Become(d, "serving") /\ endpoint' = d /\ UNCHANGED <<own, asked>>
  /\ UNCHANGED <<processes, secret, binary, pc, done, outcome, disturbed, calls, faults>>

(* A daemon that was signalled ends. *)
Dies(d) ==
  /\ daemon[d].state = "stopping"
  /\ End(d) /\ LeaveSocket(d)
  /\ UNCHANGED <<processes, secret, binary, pc, done, outcome, disturbed, calls, faults>>

(* A daemon ends by itself. One whose accept() failed drops its listener,  *)
(* which removes whatever socket is at the path.                           *)
Crash(d) ==
  /\ ~Gone(d) /\ faults < MaxFaults
  /\ End(d)
  /\ \/ LeaveSocket(d)
     \/ daemon[d].state = "serving" /\ endpoint' = None
  /\ faults' = faults + 1
  /\ Disturb(At(Expecting \cup {"ready", "reply"}))
  /\ UNCHANGED <<processes, secret, binary, pc, done, outcome, calls>>

(***************************************************************************)
(* A call: health.                                                         *)
(***************************************************************************)
Call(c) ==
  /\ pc[c] = "idle" /\ calls < MaxCalls
  /\ pc' = [pc EXCEPT ![c] = IF secret THEN "query" ELSE "prepare"]
  /\ asked' = [asked EXCEPT ![c] = None]
  /\ done' = [done EXCEPT ![c] = 0]
  /\ outcome' = [outcome EXCEPT ![c] = "none"]
  /\ disturbed' = [disturbed EXCEPT ![c] = FALSE]
  /\ calls' = calls + 1
  /\ UNCHANGED <<processes, daemons, binary, faults>>

GoTo(c, next) == pc' = [pc EXCEPT ![c] = next] /\ UNCHANGED <<outcome, disturbed>>

(* The call ends with an error: why it may. *)
Fail(c, because) ==
  /\ pc' = [pc EXCEPT ![c] = "idle"]
  /\ outcome' = [outcome EXCEPT ![c] = "failed"]
  /\ Disturb(IF because THEN {c} ELSE {})

SameProtocol(c, d) == ProtocolOf[daemon[d].version] = ProtocolOf[version[server[c]]]

(* compareVersions. *)
Newer(c, d) == daemon[d].version > version[server[c]]
Older(c, d) == daemon[d].version < version[server[c]]

(* Another protocol or a newer daemon is the caller's to see; any other *)
(* error makes way for a new daemon.                                    *)
Health(c) ==
  \/ Answering = {} /\ GoTo(c, "reclaim")
  \/ \E d \in Answering :
       IF ~SameProtocol(c, d) \/ Newer(c, d) THEN Fail(c, TRUE)
       ELSE GoTo(c, IF Older(c, d) THEN "reclaim" ELSE "ready")

Query(c) ==
  /\ pc[c] = "query" /\ Health(c)
  /\ UNCHANGED <<processes, daemons, binary, asked, done, calls, faults>>

QueryTimesOut(c) ==
  /\ pc[c] = "query" /\ Answering # {} /\ faults < MaxFaults
  /\ GoTo(c, "reclaim")
  /\ faults' = faults + 1
  /\ UNCHANGED <<processes, daemons, binary, asked, done, calls>>

(* Every daemon of the data directory is signalled, whatever it is doing. *)
ReclaimStaleDaemon(c) ==
  /\ pc[c] = "reclaim"
  /\ daemon' = [d \in Daemons |-> IF Gone(d) THEN Slot ELSE [daemon[d] EXCEPT !.state = "stopping"]]
  /\ own' = [own EXCEPT ![server[c]] = None]
  /\ asked' = [x \in Clients |-> None]
  /\ pc' = [pc EXCEPT ![c] = "gone"]
  /\ Disturb(At({"ready", "reply"}))
  /\ UNCHANGED <<processes, endpoint, secret, binary, done, outcome, calls, faults>>

(* Slip: it waits for as long as there is one. *)
AwaitGoneForever(c) ==
  /\ pc[c] = "gone" /\ Alive = {} /\ GoTo(c, "prepare")
  /\ UNCHANGED <<processes, daemons, binary, asked, done, calls, faults>>

(* None is left, or five seconds have passed: by then those that were      *)
(* signalled have ended.                                                   *)
AwaitGone(c) ==
  /\ pc[c] = "gone" /\ InState({"stopping"}) = {} /\ GoTo(c, "prepare")
  /\ UNCHANGED <<processes, daemons, binary, asked, done, calls, faults>>

(* One has not, and is met by whoever starts a daemon next. *)
Outlived(c) ==
  /\ pc[c] = "gone" /\ InState({"stopping"}) # {} /\ faults < MaxFaults
  /\ pc' = [pc EXCEPT ![c] = "prepare"]
  /\ Disturb(At(Expecting))
  /\ faults' = faults + 1
  /\ UNCHANGED <<processes, daemons, binary, asked, done, outcome, calls>>

(***************************************************************************)
(* spawnAndWait: a call starts a daemon unless its process has one that is *)
(* alive, which another of its calls may have started.  The executable is  *)
(* copied to a private file, verified and renamed to a path that names its *)
(* digest.                                                                 *)
(***************************************************************************)
SpawnAndWait(c) ==
  /\ pc[c] = "prepare"
  /\ GoTo(c, IF own[server[c]] = None THEN "binary" ELSE "poll")
  /\ UNCHANGED <<processes, daemons, binary, asked, done, calls, faults>>

Executable(c) == binary[version[server[c]]]

(* Slip: the executable is copied to where it is run from. *)
MaterialiseInPlace(c) ==
  /\ pc[c] = "binary" /\ Executable(c) = "absent"
  /\ binary' = [binary EXCEPT ![version[server[c]]] = "partial"]
  /\ GoTo(c, "copying")
  /\ UNCHANGED <<processes, daemons, asked, done, calls, faults>>

Materialise(c) ==
  /\ pc[c] = "binary" /\ Executable(c) = "absent"
  /\ GoTo(c, "copying")
  /\ UNCHANGED <<processes, daemons, binary, asked, done, calls, faults>>

Publish(c) ==
  /\ pc[c] = "copying"
  /\ binary' = [binary EXCEPT ![version[server[c]]] = "whole"]
  /\ GoTo(c, "binary")
  /\ UNCHANGED <<processes, daemons, asked, done, calls, faults>>

(* What is there and is not the packaged executable is not replaced. *)
DigestMismatch(c) ==
  /\ pc[c] = "binary" /\ Executable(c) \in {"partial", "damaged"}
  /\ pc' = [pc EXCEPT ![c] = "idle"]
  /\ outcome' = [outcome EXCEPT ![c] = "failed"]
  /\ Disturb(IF Executable(c) = "damaged" THEN {c} \cup At(Expecting) ELSE {})
  /\ UNCHANGED <<processes, daemons, binary, asked, done, calls, faults>>

(* Something else writes over the executable. *)
Damage(v) ==
  /\ binary[v] = "whole" /\ faults < MaxFaults
  /\ binary' = [binary EXCEPT ![v] = "damaged"]
  /\ faults' = faults + 1
  /\ Disturb(At(Expecting))
  /\ UNCHANGED <<processes, daemons, pc, asked, done, outcome, calls>>

(* The daemon another call of the process has started since is forgotten, *)
(* not stopped.                                                           *)
Spawn(c) ==
  LET free == Daemons \ Alive
      d == AnySlot(free)
  IN
    /\ pc[c] = "binary" /\ Executable(c) = "whole" /\ free # {}
    /\ daemon' = [daemon EXCEPT ![d] = [state |-> "starting", version |-> version[server[c]]]]
    /\ own' = [own EXCEPT ![server[c]] = d]
    /\ GoTo(c, "poll")
    /\ UNCHANGED <<processes, endpoint, secret, binary, asked, done, calls, faults>>

(* A daemon that is newer is asked again until the deadline. *)
Poll(c) ==
  \E d \in Answering :
    /\ pc[c] = "poll" /\ secret
    /\ ~SameProtocol(c, d) \/ ~Newer(c, d)
    /\ IF SameProtocol(c, d) /\ ~Older(c, d) THEN GoTo(c, "ready") ELSE Fail(c, TRUE)
    /\ UNCHANGED <<processes, daemons, binary, asked, done, calls, faults>>

(* A daemon starts, with what must go before, in less than the fifteen     *)
(* seconds a call waits.                                                   *)
OnItsWay ==
  \/ InState({"starting", "clearing", "binding", "stopping"}) # {}
  \/ At({"reclaim", "gone", "prepare", "binary", "copying"}) # {}

Deadline(c) ==
  /\ pc[c] = "poll" /\ ~OnItsWay
  /\ \A d \in Answering : SameProtocol(c, d) /\ Newer(c, d)
  /\ Fail(c, Answering # {})
  /\ UNCHANGED <<processes, daemons, binary, asked, done, calls, faults>>

(***************************************************************************)
(* The request, on a second connection, to whatever daemon is there then.  *)
(***************************************************************************)
NotConnected(c) ==
  /\ pc[c] = "ready" /\ Answering = {}
  /\ Fail(c, FALSE)
  /\ UNCHANGED <<processes, daemons, binary, asked, done, calls, faults>>

Perform(c) ==
  \E d \in Answering :
    /\ pc[c] = "ready"
    /\ asked' = [asked EXCEPT ![c] = d]
    /\ done' = [done EXCEPT ![c] = @ + 1]
    /\ GoTo(c, "reply")
    /\ UNCHANGED <<processes, daemons, binary, calls, faults>>

Reply(c) ==
  /\ pc[c] = "reply" /\ asked[c] # None
  /\ pc' = [pc EXCEPT ![c] = "idle"]
  /\ outcome' = [outcome EXCEPT ![c] = "answered"]
  /\ UNCHANGED <<processes, daemons, binary, asked, done, disturbed, calls, faults>>

(* The daemon ended first: the request is carried out, and the caller does *)
(* not know.                                                               *)
ReplyLost(c) ==
  /\ pc[c] = "reply" /\ asked[c] = None
  /\ Fail(c, FALSE)
  /\ UNCHANGED <<processes, daemons, binary, asked, done, calls, faults>>

(* The request takes longer than its time limit; the daemon goes on. *)
ReplyTimesOut(c) ==
  /\ pc[c] = "reply" /\ faults < MaxFaults
  /\ Fail(c, TRUE)
  /\ faults' = faults + 1
  /\ UNCHANGED <<processes, daemons, binary, asked, done, calls>>

(* The process ends with its calls; the daemon it started goes on. *)
Exit(s) ==
  LET ends == {c \in Clients : server[c] = s /\ pc[c] # "idle"} IN
    /\ ends # {} /\ faults < MaxFaults
    /\ pc' = [c \in Clients |-> IF c \in ends THEN "idle" ELSE pc[c]]
    /\ outcome' = [c \in Clients |-> IF c \in ends THEN "none" ELSE outcome[c]]
    /\ own' = [own EXCEPT ![s] = None]
    /\ Disturb(At(Expecting))
    /\ faults' = faults + 1
    /\ UNCHANGED <<processes, daemon, endpoint, secret, binary, asked, done, calls>>

Advance(c) ==
  \/ Query(c) \/ ReclaimStaleDaemon(c) \/ AwaitGone(c) \/ SpawnAndWait(c)
  \/ Materialise(c) \/ Publish(c) \/ DigestMismatch(c) \/ Spawn(c) \/ Poll(c) \/ Deadline(c)
  \/ NotConnected(c) \/ Perform(c) \/ Reply(c) \/ ReplyLost(c)

Launch(d) == CheckEndpoint(d) \/ RemoveSocket(d) \/ Bind(d)

Next ==
  \/ \E c \in Clients : \/ Call(c) \/ Advance(c)
                        \/ QueryTimesOut(c) \/ Outlived(c) \/ ReplyTimesOut(c)
  \/ \E s \in Servers : Exit(s)
  \/ \E d \in Daemons : Launch(d) \/ Dies(d) \/ Crash(d)
  \/ \E v \in ServerVersions : Damage(v)

(* A call goes on while its process runs, a daemon starts while it runs,   *)
(* and one that was signalled ends.                                        *)
Fairness ==
  /\ \A c \in Clients : WF_vars(Advance(c))
  /\ \A d \in Daemons : WF_vars(Launch(d)) /\ WF_vars(Dies(d))

Spec == Init /\ [][Next]_vars /\ Fairness

-----------------------------------------------------------------------------
(***************************************************************************)
(* Properties.                                                             *)
(***************************************************************************)
(* The shape of the state. *)
TypeOK ==
  /\ version \in [Servers -> Versions] /\ server \in [Clients -> Servers]
  /\ \A d \in Daemons :
       /\ daemon[d].state \in {"none", "starting", "clearing", "binding", "serving", "stopping"}
       /\ Gone(d) <=> daemon[d] = Slot
       /\ ~Gone(d) => daemon[d].version \in Versions
  /\ endpoint \in {None, Stale} \cup InState({"serving", "stopping"})
  /\ secret \in BOOLEAN
  /\ binary \in [Versions -> {"absent", "partial", "whole", "damaged"}]
  /\ pc \in [Clients -> {"idle", "query", "reclaim", "ready", "reply"} \cup Expecting]
  /\ own \in [Servers -> Alive \cup {None}]
  /\ asked \in [Clients -> InState({"serving"}) \cup {None}]
  /\ outcome \in [Clients -> {"none", "answered", "failed"}]
  /\ done \in [Clients -> 0..MaxCalls]
  /\ calls \in 0..MaxCalls /\ faults \in 0..MaxFaults

(* A call fails only if it met a daemon of another protocol or a newer one *)
(* (or an older one started meanwhile), or something ended a process or a  *)
(* connection under it, or held up a daemon: not because of what an        *)
(* earlier process left behind (a stale socket or secret, an older daemon, *)
(* half an executable), nor because another call of its own process or of  *)
(* another starts and stops daemons while it waits.  A request is carried  *)
(* out at most once, and just once when the caller is told so (client.ts   *)
(* 467-546, 1288-1352, 1455-1488).                                         *)
CallsAreAnswered ==
  \A c \in Clients :
    /\ outcome[c] = "failed" => disturbed[c]
    /\ done[c] <= 1
    /\ outcome[c] = "answered" => done[c] = 1

(* Every call ends, whoever else starts, stops and replaces daemons. *)
CallsEnd == \A c \in Clients : (pc[c] # "idle") ~> (pc[c] = "idle")
=============================================================================
