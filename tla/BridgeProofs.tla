---------------------------- MODULE BridgeProofs ----------------------------
(***************************************************************************)
(* Proofs about the bridge, for every number of servers, calls and         *)
(* daemons, every set of versions and protocols, and any number of         *)
(* failures.                                                               *)
(*                                                                         *)
(* The argument: a call that is not disturbed finds, where it waits, what  *)
(* it waits for, or somebody who will provide it (Undisturbed).  The part  *)
(* that needs care is the call that waits for a daemon.  Its own may give  *)
(* up because another was there, or because one that is being stopped is   *)
(* still there, and so may the one another call of its process has         *)
(* started.  What keeps up its hope is any daemon that will find the       *)
(* socket free, as long as there is a daemon at all (AnyUp => WillServe),  *)
(* and otherwise the call that has stopped them, which waits until they    *)
(* are gone before it starts one (AnyStopping => AnyAtGone).               *)
(***************************************************************************)
EXTENDS Bridge, TLAPS

(* The values a daemon and a call take; the type of the state. *)
States == {"none", "starting", "clearing", "binding", "serving", "stopping"}
Pcs == {"idle", "query", "reclaim", "gone", "prepare", "binary", "copying", "poll", "ready",
        "reply"}
DaemonType == [state : States, version : Nat]
Outcomes == {"none", "answered", "failed"}
Binaries == {"absent", "whole", "damaged"}

StateOK ==
  /\ version \in [Servers -> Versions] /\ server \in [Clients -> Servers]
  /\ daemon \in [Daemons -> DaemonType]
  /\ endpoint \in Daemons \cup {None, Stale}
  /\ secret \in BOOLEAN
  /\ binary \in [Versions -> Binaries]
  /\ own \in [Servers -> Daemons \cup {None}]
  /\ pc \in [Clients -> Pcs]
  /\ asked \in [Clients -> Daemons \cup {None}]
  /\ done \in [Clients -> Nat]
  /\ disturbed \in [Clients -> BOOLEAN]
  /\ outcome \in [Clients -> Outcomes]
  /\ calls \in 0 .. MaxCalls /\ faults \in 0 .. MaxFaults

(* A slot is that of a daemon that lives, or is as it was; the socket leads  *)
(* to one that serves, or that did until it was stopped with all others: no  *)
(* daemon has come further than its start since.                             *)
DaemonsAreKept ==
  /\ \A d \in Daemons : IF daemon[d].state = "none" THEN daemon[d].version = 0
                        ELSE daemon[d].version \in Versions
  /\ endpoint \in Daemons => daemon[endpoint].state \in {"serving", "stopping"}
  /\ endpoint \in Daemons /\ daemon[endpoint].state = "stopping" =>
       \A d \in Daemons : daemon[d].state \in {"none", "starting", "stopping"}
  /\ ~secret => /\ endpoint \notin Daemons
                /\ \A d \in Daemons : daemon[d].state \in {"none", "starting"}

(* What a server has started lives; what has taken a request serves. *)
Led ==
  /\ \A s \in Servers : own[s] # None => daemon[own[s]].state # "none"
  /\ \A c \in Clients : asked[c] # None => daemon[asked[c]].state = "serving"

(* A request is carried out once, and only then answered; a call that asks  *)
(* for a daemon's health has read the secret.                               *)
CarriedOut(c) ==
  /\ pc[c] \in {"query", "reclaim"} => secret
  /\ pc[c] # "idle" => outcome[c] = "none" /\ calls > 0
  /\ pc[c] \notin {"idle", "reply"} => done[c] = 0
  /\ pc[c] = "reply" => done[c] = 1
  /\ done[c] <= 1 /\ done[c] <= calls
  /\ outcome[c] = "answered" => done[c] = 1

(* Who will find the socket free; whether anybody answers, or will. *)
WillBind(d) == \/ daemon[d].state \in {"starting", "clearing"}
               \/ daemon[d].state = "binding" /\ endpoint # Stale
Listened == endpoint \in Daemons /\ daemon[endpoint].state = "serving"
WillServe == Listened \/ \E d \in Daemons : WillBind(d)

AnyUp == \E d \in Daemons : daemon[d].state \in {"starting", "clearing", "binding", "serving"}
AnyStopping == \E d \in Daemons : daemon[d].state = "stopping"
AnyAtGone == \E c \in Clients : pc[c] = "gone"

(* The ways to starting a daemon. *)
Providing == {"reclaim", "gone", "prepare", "binary", "copying"}
Provided == \E c \in Clients : pc[c] \in Providing

Undisturbed(c) ==
  disturbed[c] \/ /\ outcome[c] # "failed"
                  /\ pc[c] = "ready" => Listened
                  /\ pc[c] = "reply" => asked[c] # None
                  /\ pc[c] \in Expecting /\ AnyUp => WillServe
                  /\ pc[c] \in Expecting \ {"gone"} /\ AnyStopping => AnyAtGone
                  /\ pc[c] = "poll" => WillServe \/ Provided

IInv == /\ StateOK /\ DaemonsAreKept /\ Led
        /\ \A c \in Clients : CarriedOut(c) /\ Undisturbed(c)
-----------------------------------------------------------------------------
(* What the proofs use of the constants. *)
LEMMA Constants ==
  /\ None \notin Daemons /\ Stale \notin Daemons /\ None # Stale
  /\ Versions \subseteq Nat /\ ServerVersions \subseteq Versions
  /\ MaxCalls \in Nat /\ MaxFaults \in Nat
  /\ AnySlot(Daemons) \in Daemons
  BY AbsenceAssumption, VersionsAssumption, BoundsAssumption, DaemonsAssumption DEF AnySlot

(* The calls are still to be made, with a daemon or without. *)
LEMMA InitEstablishes == Init => IInv
<1> SUFFICES ASSUME Init PROVE IInv
  OBVIOUS
<1> USE Constants
<1>v. version \in [Servers -> Versions]
  BY DEF Init
<1>a. /\ server \in [Clients -> Servers] /\ binary \in [Versions -> Binaries]
      /\ secret \in BOOLEAN
  BY DEF Init, Binaries
<1>n. calls = 0 /\ calls \in 0 .. MaxCalls /\ faults \in 0 .. MaxFaults
  BY DEF Init
<1>b. /\ pc \in [Clients -> Pcs] /\ \A c \in Clients : pc[c] = "idle"
      /\ own \in [Servers -> Daemons \cup {None}] /\ \A s \in Servers : own[s] = None
      /\ asked \in [Clients -> Daemons \cup {None}] /\ \A c \in Clients : asked[c] = None
  BY DEF Init, Pcs
<1>c. /\ done \in [Clients -> Nat] /\ \A c \in Clients : done[c] = 0
      /\ disturbed \in [Clients -> BOOLEAN]
      /\ outcome \in [Clients -> Outcomes] /\ \A c \in Clients : outcome[c] = "none"
  BY DEF Init, Outcomes
<1>1. /\ daemon \in [Daemons -> DaemonType] /\ endpoint \in Daemons \cup {None, Stale}
      /\ DaemonsAreKept
  <2>1. CASE daemon = [d \in Daemons |-> Slot] /\ endpoint \in {None, Stale}
    BY <2>1 DEF DaemonType, States, Slot, DaemonsAreKept
  <2>2. ASSUME NEW v \in Versions, secret, endpoint = AnySlot(Daemons),
               daemon = [e \in Daemons |->
                           IF e = AnySlot(Daemons) THEN [state |-> "serving", version |-> v]
                           ELSE Slot]
        PROVE  /\ daemon \in [Daemons -> DaemonType] /\ endpoint \in Daemons
               /\ DaemonsAreKept
    BY <2>2 DEF DaemonType, States, Slot, DaemonsAreKept
  <2> QED
    BY <2>1, <2>2 DEF Init
<1>2. StateOK /\ Led
  BY <1>v, <1>a, <1>n, <1>b, <1>c, <1>1 DEF StateOK, Led
<1>3. \A c \in Clients : CarriedOut(c) /\ Undisturbed(c)
  BY <1>n, <1>b, <1>c DEF CarriedOut, Undisturbed, Expecting
<1> QED
  BY <1>1, <1>2, <1>3 DEF IInv

(* Who holds the socket, and who answers on it, is the daemon it leads to. *)
LEMMA DaemonsAnswer ==
  ASSUME StateOK, DaemonsAreKept
  PROVE  /\ Answering # {} <=> Listened
         /\ \A d \in Answering : d = endpoint /\ d \in Daemons /\ daemon[d].state = "serving"
         /\ Listening # {} <=> endpoint \in Daemons
  BY Constants DEF StateOK, DaemonsAreKept, Answering, Listening, Listened, InState, Alive, Gone

(* What is left when a daemon has ended. *)
LEMMA EndsDaemon ==
  ASSUME StateOK, NEW d \in Daemons, End(d)
  PROVE  /\ daemon' \in [Daemons -> DaemonType] /\ daemon'[d] = Slot
         /\ \A e \in Daemons : e # d => daemon'[e] = daemon[e]
         /\ own' \in [Servers -> Daemons \cup {None}]
         /\ \A s \in Servers : own'[s] = IF own[s] = d THEN None ELSE own[s]
         /\ asked' \in [Clients -> Daemons \cup {None}]
         /\ \A c \in Clients : asked'[c] = IF asked[c] = d THEN None ELSE asked[c]
  BY DEF StateOK, End, Slot, DaemonType, States

(* Whose call is disturbed afterwards. *)
LEMMA Disturbs ==
  ASSUME disturbed \in [Clients -> BOOLEAN], NEW C, Disturb(C)
  PROVE  /\ disturbed' \in [Clients -> BOOLEAN]
         /\ \A c \in Clients : disturbed'[c] <=> disturbed[c] \/ c \in C
  BY DEF Disturb

(* What a failing call changes. *)
LEMMA Fails ==
  ASSUME StateOK, NEW c \in Clients, NEW because \in BOOLEAN, Fail(c, because)
  PROVE  /\ pc' \in [Clients -> Pcs] /\ pc'[c] = "idle"
         /\ \A x \in Clients : x # c => pc'[x] = pc[x]
         /\ outcome' \in [Clients -> Outcomes] /\ outcome'[c] = "failed"
         /\ \A x \in Clients : x # c => outcome'[x] = outcome[x]
         /\ disturbed' \in [Clients -> BOOLEAN]
         /\ \A x \in Clients : disturbed'[x] <=> disturbed[x] \/ (because /\ x = c)
<1>1. disturbed \in [Clients -> BOOLEAN] /\ Disturb(IF because THEN {c} ELSE {})
  BY DEF StateOK, Fail
<1>2. /\ disturbed' \in [Clients -> BOOLEAN]
      /\ \A x \in Clients : disturbed'[x] <=> disturbed[x] \/ x \in IF because THEN {c} ELSE {}
  BY <1>1, Disturbs
<1>3. \A x \in Clients : disturbed'[x] <=> disturbed[x] \/ (because /\ x = c)
  BY <1>2
<1> QED
  BY <1>2, <1>3 DEF StateOK, Fail, Pcs, Outcomes

(* What a call that goes on changes. *)
LEMMA GoesTo ==
  ASSUME StateOK, NEW c \in Clients, NEW next \in Pcs, GoTo(c, next)
  PROVE  /\ pc' \in [Clients -> Pcs] /\ pc'[c] = next
         /\ \A x \in Clients : x # c => pc'[x] = pc[x]
         /\ UNCHANGED <<outcome, disturbed>>
  BY DEF StateOK, GoTo

(* A step of a daemon, seen by the calls: none of them loses what it waits   *)
(* for, or it is disturbed.                                                  *)
LEMMA CallsStay ==
  ASSUME IInv, UNCHANGED <<pc, done, outcome, calls>>, secret => secret',
         \A c \in Clients : disturbed[c] => disturbed'[c],
         \/ \A c \in Clients : pc[c] \in Expecting \cup {"ready", "reply"} => disturbed'[c]
         \/ /\ \A c \in Clients : /\ pc[c] = "ready" /\ Listened => Listened' \/ disturbed'[c]
                                  /\ pc[c] = "reply" => asked'[c] = asked[c]
            /\ AnyUp' => AnyUp
            /\ AnyUp' /\ WillServe => WillServe'
            /\ AnyStopping' => AnyStopping
            /\ WillServe => WillServe' \/ AnyStopping
  PROVE  \A c \in Clients : CarriedOut(c)' /\ Undisturbed(c)'
<1> SUFFICES ASSUME NEW c \in Clients PROVE CarriedOut(c)' /\ Undisturbed(c)'
  OBVIOUS
<1>1. CarriedOut(c) /\ Undisturbed(c)
  BY DEF IInv
<1>2. CarriedOut(c)'
  BY <1>1 DEF CarriedOut
<1>3. (AnyAtGone' <=> AnyAtGone) /\ (Provided' <=> Provided) /\ (AnyAtGone => Provided)
  BY DEF AnyAtGone, Provided, Providing
<1>4. ASSUME ~disturbed'[c], pc[c] \in Expecting PROVE Undisturbed(c)'
  <2>1. pc[c] = "poll" => pc[c] \in Expecting \ {"gone"}
    BY DEF Expecting
  <2>2. pc[c] \notin {"ready", "reply"}
    BY <1>4 DEF Expecting
  <2> QED
    BY <1>1, <1>3, <1>4, <2>1, <2>2 DEF Undisturbed
<1>5. ASSUME ~disturbed'[c], pc[c] \notin Expecting PROVE Undisturbed(c)'
  <2>1. pc[c] # "poll"
    BY <1>5 DEF Expecting
  <2> QED
    BY <1>1, <1>5, <2>1 DEF Undisturbed
<1> QED
  BY <1>2, <1>4, <1>5 DEF Undisturbed

(* The steps of a daemon. *)
LEMMA DaemonSteps ==
  ASSUME IInv, NEW d \in Daemons,
         CheckEndpoint(d) \/ RemoveSocket(d) \/ Bind(d) \/ Dies(d) \/ Crash(d)
  PROVE  IInv'
<1> USE Constants
<1>0. StateOK /\ DaemonsAreKept /\ Led /\ daemon[d].state \in States
  BY DEF IInv, StateOK, DaemonType
<1>1. /\ Answering # {} <=> Listened
      /\ Listening # {} <=> endpoint \in Daemons
  BY <1>0, DaemonsAnswer
<1>2. ASSUME End(d)
      PROVE  /\ daemon' \in [Daemons -> DaemonType] /\ daemon'[d] = Slot
             /\ \A e \in Daemons : e # d => daemon'[e] = daemon[e]
             /\ own' \in [Servers -> Daemons \cup {None}]
             /\ asked' \in [Clients -> Daemons \cup {None}]
             /\ \A c \in Clients : asked'[c] = IF asked[c] = d THEN None ELSE asked[c]
             /\ Led'
             /\ AnyUp' => AnyUp
             /\ AnyStopping' => AnyStopping
             /\ daemon[d].state # "serving" => \A c \in Clients : asked'[c] = asked[c]
  <2>1. /\ daemon' \in [Daemons -> DaemonType] /\ daemon'[d] = Slot
        /\ \A e \in Daemons : e # d => daemon'[e] = daemon[e]
        /\ own' \in [Servers -> Daemons \cup {None}]
        /\ \A s \in Servers : own'[s] = IF own[s] = d THEN None ELSE own[s]
        /\ asked' \in [Clients -> Daemons \cup {None}]
        /\ \A c \in Clients : asked'[c] = IF asked[c] = d THEN None ELSE asked[c]
    BY <1>0, <1>2, EndsDaemon
  <2>2. Led'
    BY <1>0, <2>1 DEF Led, StateOK
  <2>3. (AnyUp' => AnyUp) /\ (AnyStopping' => AnyStopping)
    BY <2>1 DEF AnyUp, AnyStopping, Slot
  <2>4. daemon[d].state # "serving" => \A c \in Clients : asked'[c] = asked[c]
    BY <1>0, <2>1 DEF Led
  <2> QED
    BY <2>1, <2>2, <2>3, <2>4
<1>3. ASSUME NEW state \in States, Become(d, state), UNCHANGED <<own, asked>>,
             state # "none", daemon[d].state \notin {"none", "serving"}
      PROVE  /\ daemon' \in [Daemons -> DaemonType]
             /\ daemon'[d].state = state /\ daemon'[d].version = daemon[d].version
             /\ \A e \in Daemons : e # d => daemon'[e] = daemon[e]
             /\ Led'
             /\ \A e \in Daemons : IF daemon'[e].state = "none" THEN daemon'[e].version = 0
                                   ELSE daemon'[e].version \in Versions
  <2>1. /\ daemon' \in [Daemons -> DaemonType]
        /\ daemon'[d].state = state /\ daemon'[d].version = daemon[d].version
        /\ \A e \in Daemons : e # d => daemon'[e] = daemon[e]
    BY <1>0, <1>3 DEF Become, StateOK, DaemonType
  <2>2. Led'
    BY <1>0, <1>3, <2>1 DEF Led, StateOK
  <2> QED
    BY <1>0, <1>3, <2>1, <2>2 DEF DaemonsAreKept
<1>4. CASE CheckEndpoint(d)
  <2>1. /\ daemon[d].state = "starting" /\ secret' = TRUE
        /\ UNCHANGED <<version, server, endpoint, binary, pc, done, outcome, disturbed, calls,
                       faults>>
    BY <1>4 DEF CheckEndpoint, processes
  <2>2. CASE endpoint \in Daemons
    <3>1. End(d)
      BY <1>1, <1>4, <2>2 DEF CheckEndpoint
    <3>2. StateOK' /\ DaemonsAreKept'
      BY <1>0, <1>2, <2>1, <2>2, <3>1 DEF StateOK, DaemonsAreKept, Slot
    <3>3. endpoint # d
      BY <1>0, <2>1 DEF DaemonsAreKept
    <3>4. Listened => Listened'
      BY <1>2, <2>1, <3>1, <3>3 DEF Listened
    <3>5. AnyUp' /\ ~Listened => WillServe'
      <4> SUFFICES ASSUME AnyUp', ~Listened PROVE WillServe'
        OBVIOUS
      <4>1. PICK e \in Daemons : daemon'[e].state \in {"starting", "clearing", "binding", "serving"}
        BY DEF AnyUp
      <4>2. e # d /\ daemon'[e] = daemon[e]
        BY <1>2, <3>1, <4>1 DEF Slot
      <4>3. daemon[endpoint].state = "stopping"
        BY <1>0, <2>2 DEF DaemonsAreKept, Listened
      <4>4. daemon[e].state = "starting"
        BY <1>0, <2>2, <4>1, <4>2, <4>3 DEF DaemonsAreKept
      <4> QED
        BY <4>2, <4>4 DEF WillServe, WillBind
    <3>6. ~Listened => AnyStopping
      BY <1>0, <2>2 DEF DaemonsAreKept, Listened, AnyStopping
    <3>7. \A c \in Clients : CarriedOut(c)' /\ Undisturbed(c)'
      BY <1>2, <2>1, <3>1, <3>4, <3>5, <3>6, CallsStay DEF WillServe
    <3> QED
      BY <1>2, <3>1, <3>2, <3>7 DEF IInv
  <2>3. CASE endpoint \notin Daemons
    <3> DEFINE state == IF endpoint = None THEN "binding" ELSE "clearing"
    <3>1. Become(d, state) /\ UNCHANGED <<own, asked>> /\ state \in States
      BY <1>1, <1>4, <2>3 DEF CheckEndpoint, States
    <3>2. daemon' \in [Daemons -> DaemonType] /\ daemon'[d].state = state /\ Led'
      BY <1>3, <2>1, <3>1
    <3>3. DaemonsAreKept'
      BY <1>3, <2>1, <2>3, <3>1 DEF DaemonsAreKept
    <3>4. StateOK'
      BY <1>0, <2>1, <3>1, <3>2 DEF StateOK
    <3>5. WillServe'
      BY <2>1, <2>3, <3>2 DEF WillServe, WillBind
    <3>6. AnyUp /\ (AnyStopping' => AnyStopping) /\ ~Listened
      BY <1>3, <2>1, <2>3, <3>1 DEF AnyUp, AnyStopping, Listened
    <3>7. \A c \in Clients : CarriedOut(c)' /\ Undisturbed(c)'
      BY <2>1, <3>1, <3>5, <3>6, CallsStay
    <3> QED
      BY <3>2, <3>3, <3>4, <3>7 DEF IInv
  <2> QED
    BY <2>2, <2>3
<1>5. CASE RemoveSocket(d)
  <2>1. /\ daemon[d].state = "clearing" /\ Become(d, "binding") /\ endpoint' = None
        /\ Disturb(IF Answering # {} THEN At({"ready"}) ELSE {})
        /\ UNCHANGED <<version, server, secret, own, binary, pc, asked, done, outcome, calls,
                       faults>>
    BY <1>5 DEF RemoveSocket, processes
  <2>2. /\ disturbed' \in [Clients -> BOOLEAN]
        /\ \A c \in Clients :
             disturbed'[c] <=> disturbed[c] \/ c \in IF Answering # {} THEN At({"ready"}) ELSE {}
    BY <1>0, <2>1, Disturbs DEF StateOK
  <2>3. \A c \in Clients : /\ disturbed[c] => disturbed'[c]
                           /\ pc[c] = "ready" /\ Listened => disturbed'[c]
    BY <1>1, <2>2 DEF At
  <2>4. /\ daemon' \in [Daemons -> DaemonType] /\ daemon'[d].state = "binding" /\ Led'
        /\ \A e \in Daemons : e # d => daemon'[e] = daemon[e]
    BY <1>3, <2>1 DEF States
  <2>5. StateOK'
    BY <1>0, <2>1, <2>2, <2>4 DEF StateOK
  <2>6. DaemonsAreKept'
    BY <1>0, <1>3, <2>1, <2>4 DEF DaemonsAreKept, States
  <2>7. WillServe' /\ AnyUp /\ (AnyStopping' => AnyStopping)
    BY <2>1, <2>4 DEF WillServe, WillBind, AnyUp, AnyStopping
  <2>8. \A c \in Clients : CarriedOut(c)' /\ Undisturbed(c)'
    BY <2>1, <2>3, <2>7, CallsStay
  <2> QED
    BY <2>4, <2>5, <2>6, <2>8 DEF IInv
<1>6. CASE Bind(d)
  <2>1. /\ daemon[d].state = "binding"
        /\ UNCHANGED <<version, server, secret, binary, pc, done, outcome, disturbed, calls,
                       faults>>
    BY <1>6 DEF Bind, processes
  <2>2. secret /\ (endpoint \in Daemons => Listened)
    BY <1>0, <2>1 DEF DaemonsAreKept, Listened
  <2>3. CASE endpoint # None
    <3>1. End(d) /\ UNCHANGED endpoint
      BY <1>6, <2>3 DEF Bind
    <3>2. endpoint # d
      BY <1>0, <2>1 DEF DaemonsAreKept
    <3>3. StateOK'
      BY <1>0, <1>2, <2>1, <3>1 DEF StateOK
    <3>4. DaemonsAreKept'
      BY <1>0, <1>2, <2>1, <2>2, <3>1, <3>2 DEF DaemonsAreKept, Slot
    <3>5. Listened => Listened'
      BY <1>2, <3>1, <3>2 DEF Listened
    <3>6. WillServe => WillServe'
      <4>1. WillBind(d) => Listened
        BY <1>0, <2>1, <2>2, <2>3 DEF WillBind, StateOK
      <4>2. \A e \in Daemons : e # d /\ WillBind(e) => WillBind(e)'
        BY <1>2, <3>1 DEF WillBind
      <4> QED
        BY <3>5, <4>1, <4>2 DEF WillServe
    <3>7. \A c \in Clients : CarriedOut(c)' /\ Undisturbed(c)'
      BY <1>2, <2>1, <3>1, <3>5, <3>6, CallsStay
    <3> QED
      BY <1>2, <3>1, <3>3, <3>4, <3>7 DEF IInv
  <2>4. CASE endpoint = None
    <3>1. Become(d, "serving") /\ endpoint' = d /\ UNCHANGED <<own, asked>>
      BY <1>6, <2>4 DEF Bind
    <3>2. /\ daemon' \in [Daemons -> DaemonType] /\ daemon'[d].state = "serving" /\ Led'
          /\ \A e \in Daemons : e # d => daemon'[e] = daemon[e]
      BY <1>3, <2>1, <3>1 DEF States
    <3>3. StateOK'
      BY <1>0, <2>1, <3>1, <3>2 DEF StateOK
    <3>4. DaemonsAreKept'
      BY <1>3, <2>1, <2>2, <3>1, <3>2 DEF DaemonsAreKept, States
    <3>5. Listened' /\ WillServe' /\ AnyUp /\ (AnyStopping' => AnyStopping)
      BY <2>1, <3>1, <3>2 DEF Listened, WillServe, AnyUp, AnyStopping
    <3>6. \A c \in Clients : CarriedOut(c)' /\ Undisturbed(c)'
      BY <2>1, <3>1, <3>5, CallsStay
    <3> QED
      BY <3>2, <3>3, <3>4, <3>6 DEF IInv
  <2> QED
    BY <2>3, <2>4
<1>7. CASE Dies(d)
  <2>1. /\ daemon[d].state = "stopping" /\ End(d)
        /\ endpoint' = IF endpoint = d THEN Stale ELSE endpoint
        /\ UNCHANGED <<version, server, secret, binary, pc, done, outcome, disturbed, calls,
                       faults>>
    BY <1>7 DEF Dies, LeaveSocket, processes
  <2>2. StateOK'
    BY <1>0, <1>2, <2>1 DEF StateOK
  <2>3. DaemonsAreKept'
    BY <1>0, <1>2, <2>1 DEF DaemonsAreKept, Slot, StateOK
  <2>4. Listened => Listened'
    BY <1>2, <2>1 DEF Listened
  <2>5. WillServe => WillServe'
    <3>1. ASSUME NEW e \in Daemons, WillBind(e) PROVE WillBind(e)'
      <4>1. e # d /\ daemon'[e] = daemon[e]
        BY <1>2, <2>1, <3>1 DEF WillBind
      <4>2. daemon[e].state = "binding" => endpoint # d
        BY <1>0, <2>1 DEF DaemonsAreKept
      <4> QED
        BY <2>1, <3>1, <4>1, <4>2 DEF WillBind
    <3> QED
      BY <2>4, <3>1 DEF WillServe
  <2>6. \A c \in Clients : CarriedOut(c)' /\ Undisturbed(c)'
    BY <1>2, <2>1, <2>4, <2>5, CallsStay
  <2> QED
    BY <1>2, <2>1, <2>2, <2>3, <2>6 DEF IInv
<1>8. CASE Crash(d)
  <2>1. /\ daemon[d].state # "none" /\ End(d) /\ faults < MaxFaults /\ faults' = faults + 1
        /\ endpoint' \in {endpoint, Stale, None} /\ (endpoint = d => endpoint' \in {Stale, None})
        /\ Disturb(At(Expecting \cup {"ready", "reply"}))
        /\ UNCHANGED <<version, server, secret, binary, pc, done, outcome, calls>>
    BY <1>8 DEF Crash, Gone, LeaveSocket, processes
  <2>2. /\ disturbed' \in [Clients -> BOOLEAN]
        /\ \A c \in Clients :
             disturbed'[c] <=> disturbed[c] \/ c \in At(Expecting \cup {"ready", "reply"})
    BY <1>0, <2>1, Disturbs DEF StateOK
  <2>3. \A c \in Clients : /\ disturbed[c] => disturbed'[c]
                           /\ pc[c] \in Expecting \cup {"ready", "reply"} => disturbed'[c]
    BY <2>2 DEF At
  <2>4. faults' \in 0 .. MaxFaults
    BY <1>0, <2>1 DEF StateOK
  <2>5. StateOK'
    BY <1>0, <1>2, <2>1, <2>2, <2>4 DEF StateOK
  <2>6. DaemonsAreKept'
    <3>1. endpoint' \in Daemons => endpoint' = endpoint /\ endpoint # d
      BY <2>1
    <3> QED
      BY <1>0, <1>2, <2>1, <3>1 DEF DaemonsAreKept, Slot
  <2>7. \A c \in Clients : CarriedOut(c)' /\ Undisturbed(c)'
    BY <2>1, <2>3, CallsStay
  <2> QED
    BY <1>2, <2>1, <2>5, <2>6, <2>7 DEF IInv
<1> QED
  BY <1>4, <1>5, <1>6, <1>7, <1>8

(* A step of one call, seen by the others: none of them loses what it waits  *)
(* for, or it is disturbed.                                                  *)
LEMMA ClientStep ==
  ASSUME IInv, NEW c \in Clients,
         UNCHANGED <<version, server, daemon, endpoint, secret>>,
         binary' \in [Versions -> Binaries],
         own' \in [Servers -> Daemons \cup {None}], \A s \in Servers : own'[s] \in {own[s], None},
         calls' \in 0 .. MaxCalls, calls <= calls', faults' \in 0 .. MaxFaults,
         pc' \in [Clients -> Pcs], outcome' \in [Clients -> Outcomes],
         asked' \in [Clients -> Daemons \cup {None}], asked'[c] \in {asked[c], None} \cup Answering,
         done' \in [Clients -> Nat], disturbed' \in [Clients -> BOOLEAN],
         \A x \in Clients : x # c =>
           /\ pc'[x] = pc[x] /\ outcome'[x] = outcome[x] /\ asked'[x] = asked[x]
           /\ done'[x] = done[x] /\ (disturbed[x] => disturbed'[x]),
         \/ \A x \in Clients : x # c /\ pc[x] \in Expecting => disturbed'[x]
         \/ /\ AnyStopping /\ pc[c] = "gone" => pc'[c] = "gone"
            /\ pc[c] \in Providing => pc'[c] \in Providing \/ AnyUp \/ AnyStopping,
         CarriedOut(c)', Undisturbed(c)'
  PROVE  IInv'
<1>0. StateOK /\ DaemonsAreKept /\ Led /\ \A x \in Clients : CarriedOut(x) /\ Undisturbed(x)
  BY DEF IInv
<1>1. StateOK'
  BY <1>0 DEF StateOK
<1>2. DaemonsAreKept'
  BY <1>0 DEF DaemonsAreKept
<1>3. \A d \in Answering : daemon[d].state = "serving"
  BY <1>0, DaemonsAnswer
<1>4. Led'
  BY <1>0, <1>3 DEF Led
<1>5. /\ (Listened' <=> Listened) /\ (WillServe' <=> WillServe)
      /\ (AnyUp' <=> AnyUp) /\ (AnyStopping' <=> AnyStopping)
  BY DEF Listened, WillServe, WillBind, AnyUp, AnyStopping
<1>6. calls \in Nat /\ calls' \in Nat
  BY <1>0, Constants DEF StateOK
<1>7. ASSUME NEW x \in Clients, x # c PROVE CarriedOut(x)' /\ Undisturbed(x)'
  <2>1. CarriedOut(x)'
    BY <1>0, <1>6, <1>7 DEF CarriedOut
  <2>2. CASE disturbed'[x]
    BY <2>1, <2>2 DEF Undisturbed
  <2>3. ASSUME ~disturbed'[x], pc[x] \notin Expecting PROVE Undisturbed(x)'
    <3>1. pc[x] # "poll" /\ pc'[x] = pc[x] /\ ~disturbed[x]
      BY <1>7, <2>3 DEF Expecting
    <3> QED
      BY <1>0, <1>5, <1>7, <2>3, <3>1 DEF Undisturbed
  <2>4. ASSUME ~disturbed'[x], pc[x] \in Expecting PROVE Undisturbed(x)'
    <3>1. pc'[x] = pc[x] /\ ~disturbed[x] /\ pc[x] \notin {"ready", "reply"}
      BY <1>7, <2>4 DEF Expecting
    <3>2. /\ AnyStopping /\ pc[c] = "gone" => pc'[c] = "gone"
          /\ pc[c] \in Providing => pc'[c] \in Providing \/ AnyUp \/ AnyStopping
      BY <1>7, <2>4
    <3>3. AnyStopping /\ AnyAtGone => AnyAtGone'
      BY <3>2 DEF AnyAtGone
    <3>4. Provided => Provided' \/ AnyUp \/ AnyStopping
      BY <3>2 DEF Provided
    <3>5. AnyAtGone' => Provided'
      BY DEF AnyAtGone, Provided, Providing
    <3>6. pc[x] = "poll" => pc[x] \in Expecting \ {"gone"}
      BY <2>4
    <3>7. pc[x] = "poll" => WillServe \/ Provided'
      BY <1>0, <2>4, <3>1, <3>3, <3>4, <3>5, <3>6 DEF Undisturbed
    <3> QED
      BY <1>0, <1>5, <1>7, <2>4, <3>1, <3>3, <3>7 DEF Undisturbed
  <2> QED
    BY <2>1, <2>2, <2>3, <2>4
<1>8. \A x \in Clients : CarriedOut(x)' /\ Undisturbed(x)'
  BY <1>7
<1> QED
  BY <1>1, <1>2, <1>4, <1>8 DEF IInv

(* The steps of a call that leave the daemons as they are. *)
LEMMA ClientSteps ==
  ASSUME IInv, NEW c \in Clients,
         Call(c) \/ Advance(c) \/ QueryTimesOut(c) \/ Outlived(c) \/ ReplyTimesOut(c),
         ~ReclaimStaleDaemon(c), ~Spawn(c)
  PROVE  IInv'
<1> USE Constants
<1>0. StateOK /\ DaemonsAreKept /\ Led /\ CarriedOut(c) /\ Undisturbed(c)
  BY DEF IInv
<1>a. /\ Answering # {} <=> Listened
      /\ \A d \in Answering : d = endpoint /\ d \in Daemons /\ daemon[d].state = "serving"
  BY <1>0, DaemonsAnswer
<1>t. /\ binary \in [Versions -> Binaries]
      /\ calls \in 0 .. MaxCalls /\ calls \in Nat /\ faults \in 0 .. MaxFaults
      /\ pc \in [Clients -> Pcs] /\ outcome \in [Clients -> Outcomes]
      /\ own \in [Servers -> Daemons \cup {None}] /\ asked \in [Clients -> Daemons \cup {None}]
      /\ done \in [Clients -> Nat] /\ disturbed \in [Clients -> BOOLEAN]
      /\ version \in [Servers -> Versions] /\ server[c] \in Servers
      /\ version[server[c]] \in Versions
  BY <1>0 DEF StateOK
<1>f. faults < MaxFaults /\ faults' = faults + 1 => faults' \in 0 .. MaxFaults
  BY <1>t
<1>s. UNCHANGED <<daemon, endpoint>> => /\ (Listened' <=> Listened) /\ (WillServe' <=> WillServe)
                                        /\ (AnyUp' <=> AnyUp) /\ (AnyStopping' <=> AnyStopping)
  BY DEF Listened, WillServe, WillBind, AnyUp, AnyStopping
<1>1. CASE Call(c)
  <2>1. /\ pc[c] = "idle" /\ calls < MaxCalls /\ calls' = calls + 1
        /\ UNCHANGED <<version, server, daemon, endpoint, secret, own, binary, faults>>
    BY <1>1 DEF Call, processes, daemons
  <2>2. /\ pc' \in [Clients -> Pcs] /\ pc'[c] = IF secret THEN "query" ELSE "prepare"
        /\ \A x \in Clients : x # c => pc'[x] = pc[x]
    BY <1>1, <1>t DEF Call, Pcs
  <2>3. /\ asked' \in [Clients -> Daemons \cup {None}] /\ asked'[c] = None
        /\ done' \in [Clients -> Nat] /\ done'[c] = 0
        /\ outcome' \in [Clients -> Outcomes] /\ outcome'[c] = "none"
        /\ disturbed' \in [Clients -> BOOLEAN]
        /\ \A x \in Clients : x # c =>
             /\ asked'[x] = asked[x] /\ done'[x] = done[x] /\ outcome'[x] = outcome[x]
             /\ disturbed'[x] = disturbed[x]
    BY <1>1, <1>t DEF Call, Outcomes
  <2>4. calls' \in 0 .. MaxCalls /\ calls <= calls' /\ calls' > 0
    BY <1>t, <2>1
  <2>5. CarriedOut(c)'
    BY <2>1, <2>2, <2>3, <2>4 DEF CarriedOut
  <2>6. ~secret => ~AnyStopping /\ (AnyUp => WillServe)
    BY <1>0 DEF DaemonsAreKept, AnyStopping, AnyUp, WillServe, WillBind
  <2>7. Undisturbed(c)'
    BY <1>s, <2>1, <2>2, <2>3, <2>6 DEF Undisturbed, Expecting
  <2>8. pc[c] # "gone" /\ pc[c] \notin Providing
    BY <2>1 DEF Providing
  <2> QED
    BY <1>t, <2>1, <2>2, <2>3, <2>4, <2>5, <2>7, <2>8, ClientStep
<1>2. ASSUME NEW next \in Pcs, GoTo(c, next), next \notin {"idle", "reply"},
             pc[c] \notin {"idle", "reply"},
             UNCHANGED <<version, server, daemon, endpoint, secret, own, asked, done, calls>>,
             binary' \in [Versions -> Binaries], faults' \in 0 .. MaxFaults,
             next = "ready" => Listened, next \in {"query", "reclaim"} => pc[c] = "query",
             next \in Expecting => pc[c] \in Expecting,
             next \in Expecting \ {"gone"} => pc[c] \in Expecting \ {"gone"} \/ ~AnyStopping,
             next = "poll" => AnyUp \/ AnyStopping,
             AnyStopping => pc[c] # "gone",
             pc[c] \in Providing => next \in Providing \/ AnyUp \/ AnyStopping
      PROVE  IInv'
  <2>1. /\ pc' \in [Clients -> Pcs] /\ pc'[c] = next
        /\ \A x \in Clients : x # c => pc'[x] = pc[x]
        /\ UNCHANGED <<outcome, disturbed>>
    BY <1>0, <1>2, GoesTo
  <2>2. CarriedOut(c)'
    BY <1>0, <1>2, <2>1 DEF CarriedOut
  <2>3. AnyStopping /\ AnyAtGone => AnyAtGone'
    BY <1>2, <2>1 DEF AnyAtGone
  <2>4. AnyAtGone => Provided
    BY DEF AnyAtGone, Provided, Providing
  <2>5. next = "poll" => next \in Expecting \ {"gone"}
    BY DEF Expecting
  <2>6. next = "poll" /\ ~disturbed[c] => WillServe \/ Provided'
    <3> SUFFICES ASSUME next = "poll", ~disturbed[c], ~WillServe PROVE Provided'
      OBVIOUS
    <3>1. AnyStopping
      BY <1>0, <1>2, <2>5 DEF Undisturbed
    <3>2. AnyAtGone
      BY <1>0, <1>2, <2>5, <3>1 DEF Undisturbed
    <3>3. AnyAtGone'
      BY <2>3, <3>1, <3>2
    <3> QED
      BY <3>3 DEF AnyAtGone, Provided, Providing
  <2>7. Undisturbed(c)'
    BY <1>0, <1>2, <1>s, <2>1, <2>3, <2>6 DEF Undisturbed
  <2>8. calls <= calls'
    BY <1>t, <1>2
  <2> QED
    BY <1>t, <1>2, <2>1, <2>2, <2>7, <2>8, ClientStep
<1>3. ASSUME NEW because \in BOOLEAN, Fail(c, because), because \/ disturbed[c],
             pc[c] \notin {"idle"} \cup Providing,
             UNCHANGED <<version, server, daemon, endpoint, secret, own, binary, asked, done,
                         calls>>,
             faults' \in 0 .. MaxFaults
      PROVE  IInv'
  <2>1. /\ pc' \in [Clients -> Pcs] /\ pc'[c] = "idle"
        /\ \A x \in Clients : x # c => pc'[x] = pc[x]
        /\ outcome' \in [Clients -> Outcomes] /\ outcome'[c] = "failed"
        /\ \A x \in Clients : x # c => outcome'[x] = outcome[x]
        /\ disturbed' \in [Clients -> BOOLEAN]
        /\ \A x \in Clients : disturbed'[x] <=> disturbed[x] \/ (because /\ x = c)
    BY <1>0, <1>3, Fails
  <2>2. CarriedOut(c)'
    BY <1>0, <1>3, <2>1 DEF CarriedOut
  <2>3. Undisturbed(c)'
    BY <1>3, <2>1 DEF Undisturbed
  <2>4. calls <= calls' /\ pc[c] # "gone"
    BY <1>t, <1>3 DEF Providing
  <2> QED
    BY <1>t, <1>3, <2>1, <2>2, <2>3, <2>4, ClientStep
<1>4. CASE Query(c)
  <2>1. /\ pc[c] = "query" /\ Health(c)
        /\ UNCHANGED <<version, server, daemon, endpoint, secret, own, binary, asked, done, calls,
                       faults>>
    BY <1>4 DEF Query, processes, daemons
  <2>2. pc[c] \notin {"idle", "reply", "gone"} /\ pc[c] \notin {"idle"} \cup Providing
    BY <2>1 DEF Providing
  <2>3. CASE GoTo(c, "reclaim")
    BY <1>2, <1>t, <2>1, <2>2, <2>3 DEF Pcs, Expecting
  <2>4. CASE GoTo(c, "ready") /\ Answering # {}
    BY <1>2, <1>a, <1>t, <2>1, <2>2, <2>4 DEF Pcs, Expecting
  <2>5. CASE Fail(c, TRUE)
    BY <1>3, <1>t, <2>1, <2>2, <2>5
  <2> QED
    BY <2>1, <2>3, <2>4, <2>5 DEF Health
<1>5. CASE QueryTimesOut(c)
  <2>1. /\ pc[c] = "query" /\ GoTo(c, "reclaim") /\ faults' \in 0 .. MaxFaults
        /\ UNCHANGED <<version, server, daemon, endpoint, secret, own, binary, asked, done, calls>>
    BY <1>5, <1>f DEF QueryTimesOut, processes, daemons
  <2> QED
    BY <1>2, <1>t, <2>1 DEF Pcs, Expecting, Providing
<1>6. CASE AwaitGone(c)
  <2>1. /\ pc[c] = "gone" /\ GoTo(c, "prepare")
        /\ UNCHANGED <<version, server, daemon, endpoint, secret, own, binary, asked, done, calls,
                       faults>>
    BY <1>6 DEF AwaitGone, processes, daemons
  <2>2. ~AnyStopping
    BY <1>6 DEF AwaitGone, AnyStopping, InState
  <2> QED
    BY <1>2, <1>t, <2>1, <2>2 DEF Pcs, Expecting, Providing
<1>7. CASE Outlived(c)
  <2>1. /\ pc[c] = "gone" /\ pc' = [pc EXCEPT ![c] = "prepare"] /\ faults' \in 0 .. MaxFaults
        /\ Disturb(At(Expecting))
        /\ UNCHANGED <<version, server, daemon, endpoint, secret, own, binary, asked, done,
                       outcome, calls>>
    BY <1>7, <1>f DEF Outlived, processes, daemons
  <2>2. /\ disturbed' \in [Clients -> BOOLEAN]
        /\ \A x \in Clients : disturbed'[x] <=> disturbed[x] \/ x \in At(Expecting)
    BY <1>t, <2>1, Disturbs
  <2>3. /\ pc' \in [Clients -> Pcs] /\ pc'[c] = "prepare"
        /\ \A x \in Clients : x # c => pc'[x] = pc[x]
    BY <1>t, <2>1 DEF Pcs
  <2>4. /\ \A x \in Clients : pc[x] \in Expecting => disturbed'[x]
        /\ pc[c] \in Expecting
    BY <2>1, <2>2 DEF At, Expecting
  <2>5. CarriedOut(c)' /\ Undisturbed(c)'
    BY <1>0, <2>1, <2>3, <2>4 DEF CarriedOut, Undisturbed
  <2>6. calls <= calls'
    BY <1>t, <2>1
  <2> QED
    BY <1>t, <2>1, <2>2, <2>3, <2>4, <2>5, <2>6, ClientStep
<1>8. CASE SpawnAndWait(c)
  <2>1. /\ pc[c] = "prepare"
        /\ GoTo(c, IF own[server[c]] = None THEN "binary" ELSE "poll")
        /\ UNCHANGED <<version, server, daemon, endpoint, secret, own, binary, asked, done, calls,
                       faults>>
    BY <1>8 DEF SpawnAndWait, processes, daemons
  <2>2. own[server[c]] # None => AnyUp \/ AnyStopping
    <3> SUFFICES ASSUME own[server[c]] # None PROVE AnyUp \/ AnyStopping
      OBVIOUS
    <3>1. own[server[c]] \in Daemons /\ daemon[own[server[c]]].state \in States \ {"none"}
      BY <1>0, <1>t DEF StateOK, Led, DaemonType
    <3> QED
      BY <3>1 DEF AnyUp, AnyStopping, States
  <2> QED
    BY <1>2, <1>t, <2>1, <2>2 DEF Pcs, Expecting, Providing
<1>9. CASE Materialise(c)
  BY <1>2, <1>9, <1>t DEF Materialise, processes, daemons, Pcs, Expecting, Providing
<1>10. CASE Publish(c)
  <2>1. binary' \in [Versions -> Binaries]
    BY <1>10, <1>t DEF Publish, Binaries
  <2> QED
    BY <1>2, <1>10, <1>t, <2>1 DEF Publish, processes, daemons, Pcs, Expecting, Providing
<1>11. CASE DigestMismatch(c)
  <2>1. Executable(c) = "damaged"
    BY <1>11, <1>t DEF DigestMismatch, Executable, Binaries
  <2>2. /\ pc[c] = "binary"
        /\ pc' = [pc EXCEPT ![c] = "idle"] /\ outcome' = [outcome EXCEPT ![c] = "failed"]
        /\ Disturb({c} \cup At(Expecting))
        /\ UNCHANGED <<version, server, daemon, endpoint, secret, own, binary, asked, done, calls,
                       faults>>
    BY <1>11, <2>1 DEF DigestMismatch, processes, daemons
  <2>3. /\ disturbed' \in [Clients -> BOOLEAN]
        /\ \A x \in Clients : disturbed'[x] <=> disturbed[x] \/ x \in {c} \cup At(Expecting)
    BY <1>t, <2>2, Disturbs
  <2>4. /\ pc' \in [Clients -> Pcs] /\ pc'[c] = "idle"
        /\ outcome' \in [Clients -> Outcomes] /\ outcome'[c] = "failed"
        /\ \A x \in Clients : x # c => pc'[x] = pc[x] /\ outcome'[x] = outcome[x]
    BY <1>t, <2>2 DEF Pcs, Outcomes
  <2>5. \A x \in Clients : /\ disturbed[x] => disturbed'[x]
                           /\ pc[x] \in Expecting => disturbed'[x]
    BY <2>3 DEF At
  <2>6. CarriedOut(c)' /\ Undisturbed(c)'
    BY <1>0, <2>2, <2>3, <2>4 DEF CarriedOut, Undisturbed
  <2>7. calls <= calls'
    BY <1>t, <2>2
  <2> QED
    BY <1>t, <2>2, <2>3, <2>4, <2>5, <2>6, <2>7, ClientStep
<1>12. CASE Poll(c)
  <2>1. /\ pc[c] = "poll" /\ Answering # {}
        /\ UNCHANGED <<version, server, daemon, endpoint, secret, own, binary, asked, done, calls,
                       faults>>
    BY <1>12 DEF Poll, processes, daemons
  <2>2. CASE GoTo(c, "ready")
    BY <1>2, <1>a, <1>t, <2>1, <2>2 DEF Pcs, Expecting, Providing
  <2>3. CASE Fail(c, TRUE)
    BY <1>3, <1>t, <2>1, <2>3 DEF Providing
  <2> QED
    BY <1>12, <2>2, <2>3 DEF Poll
<1>13. CASE Deadline(c)
  <2>1. /\ pc[c] = "poll" /\ ~OnItsWay /\ Fail(c, Answering # {})
        /\ UNCHANGED <<version, server, daemon, endpoint, secret, own, binary, asked, done, calls,
                       faults>>
    BY <1>13 DEF Deadline, processes, daemons
  <2>2. ~Provided
    BY <2>1 DEF OnItsWay, At, Provided, Providing
  <2>3. \A d \in Daemons : ~WillBind(d)
    BY <2>1 DEF OnItsWay, InState, WillBind
  <2>4. Answering # {} \/ disturbed[c]
    BY <1>0, <1>a, <2>1, <2>2, <2>3 DEF Undisturbed, WillServe
  <2> QED
    BY <1>3, <1>t, <2>1, <2>4 DEF Providing
<1>14. CASE NotConnected(c)
  <2>1. /\ pc[c] = "ready" /\ Fail(c, FALSE)
        /\ UNCHANGED <<version, server, daemon, endpoint, secret, own, binary, asked, done, calls,
                       faults>>
    BY <1>14 DEF NotConnected, processes, daemons
  <2>2. disturbed[c]
    BY <1>0, <1>14, <1>a DEF NotConnected, Undisturbed
  <2> QED
    BY <1>3, <1>t, <2>1, <2>2 DEF Providing
<1>15. CASE Perform(c)
  <2>1. PICK d \in Answering :
          /\ pc[c] = "ready" /\ asked' = [asked EXCEPT ![c] = d]
          /\ done' = [done EXCEPT ![c] = @ + 1] /\ GoTo(c, "reply")
          /\ UNCHANGED <<version, server, daemon, endpoint, secret, own, binary, calls, faults>>
    BY ONLY <1>15 DEF Perform, processes, daemons
  <2>2. /\ pc' \in [Clients -> Pcs] /\ pc'[c] = "reply"
        /\ \A x \in Clients : x # c => pc'[x] = pc[x]
        /\ UNCHANGED <<outcome, disturbed>>
    BY <1>0, <2>1, GoesTo DEF Pcs
  <2>3. /\ asked' \in [Clients -> Daemons \cup {None}] /\ asked'[c] = d /\ d # None
        /\ done' \in [Clients -> Nat] /\ done'[c] = done[c] + 1
        /\ \A x \in Clients : x # c => asked'[x] = asked[x] /\ done'[x] = done[x]
    BY <1>a, <1>t, <2>1
  <2>4. CarriedOut(c)'
    BY <1>0, <1>t, <2>1, <2>2, <2>3 DEF CarriedOut
  <2>5. Undisturbed(c)'
    BY <1>0, <2>1, <2>2, <2>3 DEF Undisturbed, Expecting
  <2>6. calls <= calls' /\ pc[c] # "gone" /\ pc[c] \notin Providing
    BY <1>t, <2>1 DEF Providing
  <2> QED
    BY <1>t, <2>1, <2>2, <2>3, <2>4, <2>5, <2>6, ClientStep
<1>16. CASE Reply(c)
  <2>1. /\ pc[c] = "reply" /\ pc' = [pc EXCEPT ![c] = "idle"]
        /\ outcome' = [outcome EXCEPT ![c] = "answered"]
        /\ UNCHANGED <<version, server, daemon, endpoint, secret, own, binary, asked, done,
                       disturbed, calls, faults>>
    BY <1>16 DEF Reply, processes, daemons
  <2>2. /\ pc' \in [Clients -> Pcs] /\ pc'[c] = "idle"
        /\ outcome' \in [Clients -> Outcomes] /\ outcome'[c] = "answered"
        /\ \A x \in Clients : x # c => pc'[x] = pc[x] /\ outcome'[x] = outcome[x]
    BY <1>t, <2>1 DEF Pcs, Outcomes
  <2>3. CarriedOut(c)' /\ Undisturbed(c)'
    BY <1>0, <2>1, <2>2 DEF CarriedOut, Undisturbed, Expecting
  <2>4. calls <= calls' /\ pc[c] # "gone" /\ pc[c] \notin Providing
    BY <1>t, <2>1 DEF Providing
  <2> QED
    BY <1>t, <2>1, <2>2, <2>3, <2>4, ClientStep
<1>17. CASE ReplyLost(c)
  <2>1. /\ pc[c] = "reply" /\ Fail(c, FALSE)
        /\ UNCHANGED <<version, server, daemon, endpoint, secret, own, binary, asked, done, calls,
                       faults>>
    BY <1>17 DEF ReplyLost, processes, daemons
  <2>2. disturbed[c]
    BY <1>0, <1>17 DEF ReplyLost, Undisturbed
  <2> QED
    BY <1>3, <1>t, <2>1, <2>2 DEF Providing
<1>18. CASE ReplyTimesOut(c)
  <2>1. /\ pc[c] = "reply" /\ Fail(c, TRUE) /\ faults' \in 0 .. MaxFaults
        /\ UNCHANGED <<version, server, daemon, endpoint, secret, own, binary, asked, done, calls>>
    BY <1>18, <1>f DEF ReplyTimesOut, processes, daemons
  <2> QED
    BY <1>3, <1>t, <2>1 DEF Providing
<1> QED
  BY <1>1, <1>4, <1>5, <1>6, <1>7, <1>8, <1>9, <1>10, <1>11, <1>12, <1>13, <1>14, <1>15, <1>16,
     <1>17, <1>18
  DEF Advance

(* A call that stops every daemon will start one: it is the hope of those    *)
(* that wait, and who relied on a daemon is disturbed.                       *)
LEMMA ReclaimSteps ==
  ASSUME IInv, NEW c \in Clients, ReclaimStaleDaemon(c)
  PROVE  IInv'
<1> USE Constants
<1>0. StateOK /\ DaemonsAreKept /\ Led /\ \A x \in Clients : CarriedOut(x) /\ Undisturbed(x)
  BY DEF IInv
<1>1. /\ pc[c] = "reclaim" /\ pc' = [pc EXCEPT ![c] = "gone"]
      /\ daemon' = [d \in Daemons |-> IF Gone(d) THEN Slot
                                      ELSE [daemon[d] EXCEPT !.state = "stopping"]]
      /\ own' = [own EXCEPT ![server[c]] = None] /\ asked' = [x \in Clients |-> None]
      /\ Disturb(At({"ready", "reply"}))
      /\ UNCHANGED <<version, server, endpoint, secret, binary, done, outcome, calls, faults>>
  BY DEF ReclaimStaleDaemon, processes
<1>2. \A d \in Daemons :
        /\ daemon'[d] \in DaemonType
        /\ daemon[d].state = "none" => daemon'[d] = Slot
        /\ daemon[d].state # "none" => /\ daemon'[d].state = "stopping"
                                       /\ daemon'[d].version = daemon[d].version
  BY <1>0, <1>1 DEF StateOK, DaemonType, States, Gone, Slot
<1>3. daemon' \in [Daemons -> DaemonType]
  BY <1>1, <1>2
<1>4. /\ disturbed' \in [Clients -> BOOLEAN]
      /\ \A x \in Clients : disturbed'[x] <=> disturbed[x] \/ x \in At({"ready", "reply"})
  BY <1>0, <1>1, Disturbs DEF StateOK
<1>5. /\ pc' \in [Clients -> Pcs] /\ pc'[c] = "gone"
      /\ \A x \in Clients : x # c => pc'[x] = pc[x]
  BY <1>0, <1>1 DEF StateOK, Pcs
<1>6. /\ own' \in [Servers -> Daemons \cup {None}]
      /\ \A s \in Servers : own'[s] \in {own[s], None}
      /\ asked' \in [Clients -> Daemons \cup {None}] /\ \A x \in Clients : asked'[x] = None
  BY <1>0, <1>1 DEF StateOK
<1>7. StateOK'
  BY <1>0, <1>1, <1>3, <1>4, <1>5, <1>6 DEF StateOK
<1>8. secret
  BY <1>0, <1>1 DEF CarriedOut
<1>9. DaemonsAreKept'
  <2>1. \A d \in Daemons : /\ IF daemon'[d].state = "none" THEN daemon'[d].version = 0
                              ELSE daemon'[d].version \in Versions
                           /\ daemon'[d].state \in {"none", "stopping"}
    BY <1>0, <1>2 DEF DaemonsAreKept, Slot
  <2>2. endpoint' \in Daemons => daemon'[endpoint'].state = "stopping"
    BY <1>0, <1>1, <1>2 DEF DaemonsAreKept
  <2> QED
    BY <1>1, <1>8, <2>1, <2>2 DEF DaemonsAreKept
<1>10. Led'
  BY <1>0, <1>2, <1>6 DEF Led, StateOK
<1>11. ~AnyUp' /\ AnyAtGone' /\ Provided'
  BY <1>2, <1>5 DEF AnyUp, AnyAtGone, Provided, Providing, Slot
<1>12. ASSUME NEW x \in Clients PROVE CarriedOut(x)' /\ Undisturbed(x)'
  <2>1. CarriedOut(x)'
    BY <1>0, <1>1, <1>5 DEF CarriedOut
  <2>2. disturbed'[x] \/ (~disturbed[x] /\ pc'[x] \notin {"ready", "reply"})
    BY <1>4, <1>5 DEF At
  <2>3. Undisturbed(x)'
    BY <1>0, <1>1, <1>11, <2>2 DEF Undisturbed
  <2> QED
    BY <2>1, <2>3
<1> QED
  BY <1>7, <1>9, <1>10, <1>12 DEF IInv

(* A daemon that is started is hope for everybody. *)
LEMMA SpawnSteps ==
  ASSUME IInv, NEW c \in Clients, Spawn(c)
  PROVE  IInv'
<1> USE Constants
<1>0. StateOK /\ DaemonsAreKept /\ Led /\ \A x \in Clients : CarriedOut(x) /\ Undisturbed(x)
  BY DEF IInv
<1> DEFINE d == AnySlot(Daemons \ Alive)
<1>1. /\ pc[c] = "binary" /\ Daemons \ Alive # {}
      /\ daemon' = [daemon EXCEPT ![d] = [state |-> "starting", version |-> version[server[c]]]]
      /\ own' = [own EXCEPT ![server[c]] = d] /\ GoTo(c, "poll")
      /\ UNCHANGED <<version, server, endpoint, secret, binary, asked, done, calls, faults>>
  BY DEF Spawn, processes
<1>2. d \in Daemons /\ daemon[d].state = "none"
  BY <1>1 DEF AnySlot, Alive, Gone
<1> HIDE DEF d
<1>3. /\ pc' \in [Clients -> Pcs] /\ pc'[c] = "poll"
      /\ \A x \in Clients : x # c => pc'[x] = pc[x]
      /\ UNCHANGED <<outcome, disturbed>>
  BY <1>0, <1>1, GoesTo DEF Pcs
<1>4. server[c] \in Servers /\ version[server[c]] \in Versions
  BY <1>0 DEF StateOK
<1>5. /\ daemon' \in [Daemons -> DaemonType]
      /\ daemon'[d].state = "starting" /\ daemon'[d].version = version[server[c]]
      /\ \A e \in Daemons : e # d => daemon'[e] = daemon[e]
  BY <1>0, <1>1, <1>2, <1>4 DEF StateOK, DaemonType, States
<1>6. /\ own' \in [Servers -> Daemons \cup {None}]
      /\ \A s \in Servers : own'[s] \in {own[s], d}
  BY <1>0, <1>1, <1>2 DEF StateOK
<1>7. StateOK'
  BY <1>0, <1>1, <1>3, <1>5, <1>6 DEF StateOK
<1>8. DaemonsAreKept'
  BY <1>0, <1>1, <1>2, <1>4, <1>5 DEF DaemonsAreKept
<1>9. Led'
  BY <1>0, <1>1, <1>2, <1>5, <1>6 DEF Led, StateOK
<1>10. /\ WillServe' /\ (Listened => Listened') /\ (AnyStopping' => AnyStopping)
       /\ AnyAtGone => AnyAtGone'
  BY <1>1, <1>2, <1>3, <1>5 DEF WillServe, WillBind, Listened, AnyStopping, AnyAtGone
<1>11. ASSUME NEW x \in Clients PROVE CarriedOut(x)' /\ Undisturbed(x)'
  <2>1. CarriedOut(x)'
    BY <1>0, <1>1, <1>3 DEF CarriedOut
  <2>2. pc'[x] \in Expecting \ {"gone"} => pc[x] \in Expecting \ {"gone"}
    BY <1>1, <1>3 DEF Expecting
  <2>3. pc'[x] \in {"ready", "reply"} => pc'[x] = pc[x]
    BY <1>3
  <2>4. Undisturbed(x)'
    BY <1>0, <1>1, <1>3, <1>10, <2>2, <2>3 DEF Undisturbed
  <2> QED
    BY <2>1, <2>4
<1> QED
  BY <1>7, <1>8, <1>9, <1>11 DEF IInv

(* A process that ends, and damage to the executable, disturb those that     *)
(* wait.                                                                     *)
LEMMA OutsideSteps ==
  ASSUME IInv, (\E s \in Servers : Exit(s)) \/ (\E v \in ServerVersions : Damage(v))
  PROVE  IInv'
<1> USE Constants
<1>0. StateOK /\ DaemonsAreKept /\ Led /\ \A x \in Clients : CarriedOut(x) /\ Undisturbed(x)
  BY DEF IInv
<1>1. ASSUME faults < MaxFaults, faults' = faults + 1, Disturb(At(Expecting)),
             UNCHANGED <<version, server, daemon, endpoint, secret, asked, done, calls>>,
             binary' \in [Versions -> Binaries],
             own' \in [Servers -> Daemons \cup {None}],
             \A s \in Servers : own'[s] \in {own[s], None},
             pc' \in [Clients -> Pcs], outcome' \in [Clients -> Outcomes],
             \A x \in Clients : \/ pc'[x] = pc[x] /\ outcome'[x] = outcome[x]
                                \/ pc'[x] = "idle" /\ outcome'[x] = "none"
      PROVE  IInv'
  <2>1. /\ disturbed' \in [Clients -> BOOLEAN]
        /\ \A x \in Clients : disturbed'[x] <=> disturbed[x] \/ x \in At(Expecting)
    BY <1>0, <1>1, Disturbs DEF StateOK
  <2>2. faults' \in 0 .. MaxFaults
    BY <1>0, <1>1 DEF StateOK
  <2>3. StateOK'
    BY <1>0, <1>1, <2>1, <2>2 DEF StateOK
  <2>4. DaemonsAreKept'
    BY <1>0, <1>1 DEF DaemonsAreKept
  <2>5. Led'
    BY <1>0, <1>1 DEF Led
  <2>6. ASSUME NEW x \in Clients PROVE CarriedOut(x)' /\ Undisturbed(x)'
    <3>1. CarriedOut(x)'
      BY <1>0, <1>1 DEF CarriedOut
    <3>2. pc'[x] \in Expecting => disturbed'[x]
      BY <1>1, <2>1 DEF At, Expecting
    <3>3. disturbed[x] => disturbed'[x]
      BY <2>1
    <3>4. (Listened' <=> Listened) /\ ("poll" \in Expecting)
      BY <1>1 DEF Listened, Expecting
    <3>5. Undisturbed(x)'
      BY <1>0, <1>1, <3>2, <3>3, <3>4 DEF Undisturbed
    <3> QED
      BY <3>1, <3>5
  <2> QED
    BY <2>3, <2>4, <2>5, <2>6 DEF IInv
<1>2. ASSUME NEW s \in Servers, Exit(s) PROVE IInv'
  <2> DEFINE ends == {c \in Clients : server[c] = s /\ pc[c] # "idle"}
  <2>1. /\ faults < MaxFaults /\ faults' = faults + 1 /\ Disturb(At(Expecting))
        /\ pc' = [c \in Clients |-> IF c \in ends THEN "idle" ELSE pc[c]]
        /\ outcome' = [c \in Clients |-> IF c \in ends THEN "none" ELSE outcome[c]]
        /\ own' = [own EXCEPT ![s] = None]
        /\ UNCHANGED <<version, server, daemon, endpoint, secret, binary, asked, done, calls>>
    BY <1>2 DEF Exit, processes
  <2>2. /\ pc' \in [Clients -> Pcs] /\ outcome' \in [Clients -> Outcomes]
        /\ \A x \in Clients : \/ pc'[x] = pc[x] /\ outcome'[x] = outcome[x]
                              \/ pc'[x] = "idle" /\ outcome'[x] = "none"
    BY <1>0, <2>1 DEF StateOK, Pcs, Outcomes
  <2>3. /\ own' \in [Servers -> Daemons \cup {None}]
        /\ \A x \in Servers : own'[x] \in {own[x], None}
    BY <1>0, <2>1 DEF StateOK
  <2>4. binary' \in [Versions -> Binaries]
    BY <1>0, <2>1 DEF StateOK
  <2> QED
    BY <1>1, <2>1, <2>2, <2>3, <2>4
<1>3. ASSUME NEW v \in ServerVersions, Damage(v) PROVE IInv'
  <2>1. /\ faults < MaxFaults /\ faults' = faults + 1 /\ Disturb(At(Expecting))
        /\ binary' = [binary EXCEPT ![v] = "damaged"]
        /\ UNCHANGED <<version, server, daemon, endpoint, secret, own, pc, asked, done, outcome,
                       calls>>
    BY <1>3 DEF Damage, processes, daemons
  <2>2. binary' \in [Versions -> Binaries]
    BY <1>0, <2>1 DEF StateOK, Binaries
  <2> QED
    BY <1>0, <1>1, <2>1, <2>2 DEF StateOK
<1> QED
  BY <1>2, <1>3

(* The invariant is inductive. *)
LEMMA StepPreserves == IInv /\ [Next]_vars => IInv'
<1> SUFFICES ASSUME IInv, [Next]_vars PROVE IInv'
  OBVIOUS
<1>1. ASSUME NEW c \in Clients,
             Call(c) \/ Advance(c) \/ QueryTimesOut(c) \/ Outlived(c) \/ ReplyTimesOut(c)
      PROVE  IInv'
  BY <1>1, ClientSteps, ReclaimSteps, SpawnSteps
<1>2. ASSUME NEW d \in Daemons, Launch(d) \/ Dies(d) \/ Crash(d) PROVE IInv'
  BY <1>2, DaemonSteps DEF Launch
<1>3. ASSUME (\E s \in Servers : Exit(s)) \/ (\E v \in ServerVersions : Damage(v)) PROVE IInv'
  BY <1>3, OutsideSteps
<1>4. CASE UNCHANGED vars
  BY <1>4 DEF vars, processes, daemons, IInv, StateOK, DaemonsAreKept, Led, CarriedOut,
              Undisturbed, Listened, WillServe, WillBind, AnyUp, AnyStopping, AnyAtGone, Provided
<1> QED
  BY <1>1, <1>2, <1>3, <1>4 DEF Next

(* The inductive invariant holds of every behaviour. *)
THEOREM Invariance == Spec => []IInv
  BY InitEstablishes, StepPreserves, PTL DEF Spec

(* The socket leads to a daemon that serves or is being stopped; what a      *)
(* server has started, or has a request, lives (client.ts 484-509, 531-546,  *)
(* lifecycle.rs 30-75, unix.rs 16-74).                                       *)
THEOREM TypeCorrectness == Spec => []TypeOK
<1>1. IInv => TypeOK
  <2> SUFFICES ASSUME IInv PROVE TypeOK
    OBVIOUS
  <2>1. StateOK /\ DaemonsAreKept /\ Led /\ \A c \in Clients : CarriedOut(c)
    BY DEF IInv
  <2>2. \A d \in Daemons : /\ daemon[d].state \in States
                           /\ Gone(d) <=> daemon[d] = Slot
                           /\ ~Gone(d) => daemon[d].version \in Versions
    BY <2>1 DEF StateOK, DaemonsAreKept, DaemonType, Gone, Slot
  <2>3. endpoint \in {None, Stale} \cup InState({"serving", "stopping"})
    BY <2>1 DEF StateOK, DaemonsAreKept, InState
  <2>4. own \in [Servers -> Alive \cup {None}] /\ asked \in [Clients -> InState({"serving"}) \cup {None}]
    BY <2>1 DEF StateOK, Led, Alive, Gone, InState
  <2>5. done \in [Clients -> 0 .. MaxCalls]
    BY <2>1, Constants DEF StateOK, CarriedOut
  <2>6. binary \in [Versions -> {"absent", "partial", "whole", "damaged"}]
    BY <2>1 DEF StateOK, Binaries
  <2>7. Pcs = {"idle", "query", "reclaim", "ready", "reply"} \cup Expecting
    BY DEF Pcs, Expecting
  <2> QED
    BY <2>1, <2>2, <2>3, <2>4, <2>5, <2>6, <2>7 DEF TypeOK, StateOK, States, Outcomes
<1> QED
  BY <1>1, Invariance, PTL

(* A call fails only if it met a daemon it cannot use, or something ended or *)
(* held up a process under it, and a request is carried out at most once,    *)
(* and once if it is answered, however many servers, calls and daemons come  *)
(* and go (client.ts 467-546, 1288-1352, 1455-1488).                         *)
THEOREM CallSafety == Spec => []CallsAreAnswered
<1>1. IInv => CallsAreAnswered
  BY DEF IInv, CarriedOut, Undisturbed, StateOK, CallsAreAnswered
<1> QED
  BY <1>1, Invariance, PTL
=============================================================================
