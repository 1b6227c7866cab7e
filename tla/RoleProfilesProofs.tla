-------------------------- MODULE RoleProfilesProofs --------------------------
(***************************************************************************)
(* That the record of pins keeps what was asked for, and that a repair     *)
(* which ran alone leaves a project ready, for all numbers of servers,     *)
(* projects, roles, models and versions, and all crashes and changes by    *)
(* others.                                                                 *)
(*                                                                         *)
(* The argument.  A call that nothing has disturbed is the only one there  *)
(* is (Alone): a call that begins disturbs all others, and is disturbed    *)
(* itself if there are any.  So what it has read still holds (Known), and  *)
(* a repair, which writes current profiles only, has mended every role     *)
(* that it no longer has to do (Mends).  While configurations do not       *)
(* overlap there is one at most, and what it writes back is the record as  *)
(* it is with its own pin in it (OneConfigures).                           *)
(***************************************************************************)
EXTENDS RoleProfiles, WellFoundedInduction, NaturalsInduction, TLAPS

(***************************************************************************)
(* The inductive invariant.                                                *)
(***************************************************************************)
Pinned == {None} \cup {s \in Supported : s.model # "inherit"}
Records == [Roles -> Files]
Pins == [Roles -> Pinned]
Pcs == {"idle", "pins", "work", "place", "read record", "write record", "after", "after pins",
        "exclude", "report"}
Ops == {"none", "status", "install", "repair", "configure", "remove"}

CallType ==
  [pc : Pcs, op : Ops, project : Projects \cup {None}, role : Roles \cup {None},
   settings : Supported, template : Versions \cup {0}, records : Records, pins : Pins,
   todo : SUBSET Roles, backup : Files, warned : BOOLEAN, disturbed : BOOLEAN]

StateOK ==
  /\ plugin \in Versions
  /\ excluded \subseteq Git
  /\ file \in [Projects -> Records]
  /\ pins \in [Projects -> Pins]
  /\ asked \in [Projects -> Pins]
  /\ call \in [Servers -> CallType]
  /\ calm \in BOOLEAN
  /\ calls \in 0 .. MaxCalls
  /\ meddling \in 0 .. MaxMeddling

(* Which operations come to a step, and what a call has by then. *)
Fits(c) ==
  /\ c.pc = "idle" => c.op = "none"
  /\ c.pc # "idle" => c.op # "none" /\ c.project \in Projects /\ c.role \in Roles
  /\ c.pc = "pins" => c.op = "repair"
  /\ c.pc = "work" => c.op # "status"
  /\ c.pc = "place" => c.op \in {"repair", "configure"} /\ c.todo # {}
  /\ c.pc \in {"read record", "write record"} => c.op = "configure"

CallsFit == \A s \in Servers : Fits(call[s])

(* A call that is not disturbed is the only one. *)
Undisturbed(s) == Busy(s) /\ ~call[s].disturbed
Alone == \A s, t \in Servers : Undisturbed(s) /\ Busy(t) => s = t

(* While configurations do not overlap there is one at most, and it writes  *)
(* back what is on record.                                                  *)
OneConfigures ==
  /\ pins = asked
  /\ \A s, t \in Servers : call[s].op = "configure" /\ call[t].op = "configure" => s = t
  /\ \A s \in Servers : call[s].pc = "write record" => call[s].pins = pins[call[s].project]

RecordIsKept == calm => OneConfigures

(* What an undisturbed call has looked at is still so. *)
Known(c) ==
  /\ c.pc \in {"pins", "after pins", "exclude", "report"} => c.records = file[c.project]
  /\ c.pc \in {"exclude", "report"} => c.pins = pins[c.project]

(* What an undisturbed repair has dealt with is mended. *)
IsMended(c, r) ==
  LET f == file[c.project][r] IN
  /\ State(f, c.template) = "current"
  /\ c.pins[r] # None => f.settings.model = c.pins[r].model

Mends(c) ==
  /\ c.pc # "pins" => c.pins = pins[c.project] /\ \A r \in Roles \ c.todo : IsMended(c, r)
  /\ c.pc \notin {"pins", "work", "place"} => c.todo = {}
  /\ c.pc = "report" => c.project \in excluded \/ c.warned

OwnWork ==
  \A s \in Servers : Undisturbed(s) =>
    /\ Known(call[s])
    /\ call[s].op = "repair" => Mends(call[s])

IInv == StateOK /\ CallsFit /\ Alone /\ RecordIsKept /\ OwnWork

LEMMA Constants ==
  /\ "inherit" \in AllModels /\ Default \in Supported
  /\ Supported \subseteq Settings
  /\ None \notin Supported
  /\ None \notin Projects
  /\ Missing \in Files /\ Foreign \in Files
  /\ None \in Pinned
  /\ MaxCalls \in Nat /\ MaxMeddling \in Nat
<1>1. Default \in Settings /\ SupportsThoughtLevel(Default)
  BY DEF Default, Settings, AllModels, AllLevels, SupportsThoughtLevel
<1>2. QED
  BY <1>1, ProfilesAssumption, AbsenceAssumption DEF AllModels, Supported, Files, Pinned

(* A profile with a supported setting is a file of Cycle's. *)
LEMMA ProfilesAreManaged ==
  ASSUME NEW t \in Versions \cup {0}, NEW s \in Settings \cup {None}
  PROVE  Profile(t, s) \in Managed /\ Profile(t, s) \in Files /\ IsManaged(Profile(t, s))
<1>1. Profile(t, s) \in Managed
  BY DEF Profile, Managed
<1>2. QED
  BY <1>1, AbsenceAssumption DEF Files, IsManaged

(* When inspectProfile finds a profile current, and what that makes of one *)
(* that was just written.                                                  *)
LEMMA CurrentProfiles ==
  /\ \A f, t : State(f, t) = "current" <=>
       /\ f # Missing /\ f # Foreign
       /\ f.template = t /\ f.settings \in Supported
  /\ \A t \in Versions \cup {0}, s \in Supported :
       State(Profile(t, s), t) = "current" /\ Profile(t, s).settings = s
<1>1. \A f, t : State(f, t) = "current" <=>
        f # Missing /\ f # Foreign /\ f.template = t /\ f.settings \in Supported
  BY Constants DEF State, IsManaged, Extracted
<1>2. \A t \in Versions \cup {0}, s \in Supported : State(Profile(t, s), t) = "current"
  <2> TAKE t \in Versions \cup {0}, s \in Supported
  <2>1. Profile(t, s).template = t /\ Profile(t, s).settings = s
    BY DEF Profile
  <2>2. IsManaged(Profile(t, s))
    BY ProfilesAreManaged, Constants
  <2>3. QED
    BY <1>1, <2>1, <2>2 DEF IsManaged
<1>3. QED
  BY <1>1, <1>2 DEF Profile

(* There is a next role while there is work, and an oldest version.        *)
LEMMA LeastExists ==
  ASSUME NEW T, T \subseteq Nat, T # {}
  PROVE  \E m \in T : \A n \in T : m <= n
<1>1. PICK m \in T : \A n \in T : <<n, m>> \notin OpToRel(<, Nat)
  BY WFMin, NatLessThanWellFounded, Zenon
<1>2. \A n \in T : ~(n < m)
  BY <1>1, Zenon DEF OpToRel
<1>3. QED
  BY <1>2

LEMMA NextRoleIsInHand ==
  ASSUME NEW c \in CallType, c.todo # {}
  PROVE  NextRole(c) \in c.todo /\ NextRole(c) \in Roles
<1>1. c.todo \subseteq Roles /\ c.todo \subseteq Nat
  BY ProfilesAssumption DEF CallType
<1>2. \E m \in c.todo : \A n \in c.todo : m <= n
  BY <1>1, LeastExists
<1>3. QED
  BY <1>1, <1>2 DEF NextRole

(* The fields of a call keep their types.                                  *)
LEMMA Fields ==
  ASSUME NEW c \in CallType
  PROVE  /\ c.pc \in Pcs /\ c.op \in Ops
         /\ c.project \in Projects \cup {None} /\ c.role \in Roles \cup {None}
         /\ c.settings \in Supported /\ c.template \in Versions \cup {0}
         /\ c.records \in Records /\ c.pins \in Pins
         /\ c.todo \subseteq Roles /\ c.backup \in Files /\ c.warned \in BOOLEAN /\ c.disturbed \in BOOLEAN
BY DEF CallType

Trouble(c) == [c EXCEPT !.disturbed = TRUE]

LEMMA Edits ==
  ASSUME NEW c \in CallType
  PROVE  /\ Trouble(c) \in CallType
         /\ \A p \in Pcs : [c EXCEPT !.pc = p] \in CallType
         /\ \A p \in Pcs : [c EXCEPT !.warned = TRUE, !.pc = p] \in CallType
         /\ \A r : Written(c, r) \in CallType
         /\ \A ps \in Pins, todo \in SUBSET Roles, p \in Pcs :
              [c EXCEPT !.pins = ps, !.todo = todo, !.pc = p] \in CallType
         /\ \A ps \in Pins, p \in Pcs : [c EXCEPT !.pc = p, !.pins = ps] \in CallType
         /\ \A rs \in Records, p \in Pcs : [c EXCEPT !.pc = p, !.records = rs] \in CallType
         /\ \A f \in Files, p \in Pcs : [c EXCEPT !.pc = p, !.backup = f] \in CallType
<1>1. Trouble(c) \in CallType
  BY DEF CallType, Trouble
<1>2. \A p \in Pcs : [c EXCEPT !.pc = p] \in CallType
  BY DEF CallType
<1>3. \A p \in Pcs : [c EXCEPT !.warned = TRUE, !.pc = p] \in CallType
  BY DEF CallType
<1>4. \A r : Written(c, r) \in CallType
  <2> TAKE r
  <2>1. c.todo \ {r} \in SUBSET Roles /\ "work" \in Pcs
    BY DEF CallType, Pcs
  <2>2. Written(c, r) = [c EXCEPT !.pc = "work", !.todo = c.todo \ {r}, !.backup = Missing]
    BY DEF Written, CallType
  <2>3. QED
    BY <2>1, <2>2, Constants DEF CallType
<1>5. \A ps \in Pins, todo \in SUBSET Roles, p \in Pcs :
        [c EXCEPT !.pins = ps, !.todo = todo, !.pc = p] \in CallType
  BY DEF CallType
<1>6. \A ps \in Pins, p \in Pcs : [c EXCEPT !.pc = p, !.pins = ps] \in CallType
  BY DEF CallType
<1>7. \A rs \in Records, p \in Pcs : [c EXCEPT !.pc = p, !.records = rs] \in CallType
  BY DEF CallType
<1>8. \A f \in Files, p \in Pcs : [c EXCEPT !.pc = p, !.backup = f] \in CallType
  BY DEF CallType
<1>9. QED
  BY <1>1, <1>2, <1>3, <1>4, <1>5, <1>6, <1>7, <1>8

LEMMA IdleIsACall == Idle \in CallType /\ Fits(Idle)
<1>1. [r \in Roles |-> Missing] \in Records /\ [r \in Roles |-> None] \in Pins
  BY Constants DEF Records, Pins
<1>2. Idle \in CallType
  BY <1>1, Constants DEF Idle, CallType, Pcs, Ops
<1>3. QED
  BY <1>2 DEF Idle, Fits

LEMMA InitEstablishes == Init => IInv
<1> SUFFICES ASSUME Init PROVE IInv
  OBVIOUS
<1>1. plugin \in Versions
  <2>1. \E v \in Versions : \A w \in Versions : v <= w
    BY ProfilesAssumption, LeastExists
  <2>2. QED
    BY <2>1 DEF Init
<1>2. [r \in Roles |-> Missing] \in Records /\ [r \in Roles |-> None] \in Pins
  BY Constants DEF Records, Pins
<1>3. StateOK
  BY <1>1, <1>2, IdleIsACall, Constants DEF Init, StateOK
<1>4. CallsFit
  BY IdleIsACall DEF Init, CallsFit
<1>5. Alone /\ OwnWork
  BY DEF Init, Alone, OwnWork, Undisturbed, Busy, Idle
<1>6. RecordIsKept
  BY DEF Init, RecordIsKept, OneConfigures, Idle
<1>7. QED
  BY <1>3, <1>4, <1>5, <1>6 DEF IInv

(***************************************************************************)
(* What a step of one server does to the calls.                            *)
(***************************************************************************)
Acts(s) == Step(s) \/ PlaceFails(s) \/ Crash(s)

Others(s) ==
  \/ \A t \in Servers \ {s} : call'[t] = call[t]
  \/ \A t \in Servers \ {s} : call'[t] = IF Busy(t) THEN Trouble(call[t]) ELSE call[t]

(* Changing a call as Go, Ends, Put and the bare assignments do.           *)
LEMMA Changed ==
  ASSUME StateOK, NEW s \in Servers, NEW c \in CallType,
         \/ call' = [call EXCEPT ![s] = c]
         \/ call' = [Disturbed EXCEPT ![s] = c]
  PROVE  call' \in [Servers -> CallType] /\ call'[s] = c /\ Others(s)
<1>1. call \in [Servers -> CallType]
  BY DEF StateOK
<1>2. Disturbed \in [Servers -> CallType]
  BY <1>1, Edits DEF Disturbed, Trouble
<1>3. \A t \in Servers : Disturbed[t] = IF Busy(t) THEN Trouble(call[t]) ELSE call[t]
  BY DEF Disturbed, Trouble
<1>4. CASE call' = [call EXCEPT ![s] = c]
  BY <1>1, <1>4 DEF Others
<1>5. CASE call' = [Disturbed EXCEPT ![s] = c]
  BY <1>2, <1>3, <1>5 DEF Others
<1>6. QED
  BY <1>4, <1>5

(* A call that goes on keeps what it was asked. *)
Goes(c, d) ==
  /\ d.op = c.op /\ d.project = c.project /\ d.template = c.template
  /\ d.settings = c.settings /\ d.role = c.role /\ d.disturbed = c.disturbed

LEMMA EditsGoOn ==
  ASSUME NEW c \in CallType
  PROVE  /\ \A p : Goes(c, [c EXCEPT !.pc = p])
         /\ \A p : Goes(c, [c EXCEPT !.warned = TRUE, !.pc = p])
         /\ \A r : Goes(c, Written(c, r))
         /\ \A ps, todo, p : Goes(c, [c EXCEPT !.pins = ps, !.todo = todo, !.pc = p])
         /\ \A ps, p : Goes(c, [c EXCEPT !.pc = p, !.pins = ps])
         /\ \A rs, p : Goes(c, [c EXCEPT !.pc = p, !.records = rs])
         /\ \A f, p : Goes(c, [c EXCEPT !.pc = p, !.backup = f])
BY DEF CallType, Goes, Written

(* What is written is a current profile, by what was asked for, the pin or *)
(* what the old one says.                                                  *)
LEMMA ContentIsCurrent ==
  ASSUME NEW c \in CallType, NEW r \in Roles, c.op \in {"install", "repair", "configure"}
  PROVE  /\ Content(c, r) \in Files
         /\ State(Content(c, r), c.template) = "current"
         /\ c.op = "repair" /\ c.pins[r] # None => Content(c, r).settings = c.pins[r]
<1>1. c.pins[r] \in Pinned /\ c.settings \in Supported /\ c.template \in Versions \cup {0}
  BY DEF CallType, Pins
<1>2. c.pins[r] # None => c.pins[r] \in Supported
  BY <1>1 DEF Pinned
<1>3. Extracted(c.records[r]) # None => Extracted(c.records[r]) \in Supported
  BY DEF Extracted
<1>4. Repaired(c, r) \in Supported /\ (c.pins[r] # None => Repaired(c, r) = c.pins[r])
  BY <1>2, <1>3, Constants DEF Repaired
<1>5. \E x \in Supported : /\ Content(c, r) = Profile(c.template, x)
                           /\ c.op = "repair" => x = Repaired(c, r)
  BY <1>1, <1>4, Constants DEF Content
<1>6. PICK x \in Supported : /\ Content(c, r) = Profile(c.template, x)
                             /\ c.op = "repair" => x = Repaired(c, r)
  BY <1>5
<1>7. x \in Settings \cup {None}
  BY Constants
<1>8. Content(c, r) \in Files
  BY <1>1, <1>6, <1>7, ProfilesAreManaged
<1>9. State(Content(c, r), c.template) = "current" /\ Content(c, r).settings = x
  BY <1>1, <1>6, CurrentProfiles
<1>10. QED
  BY <1>4, <1>6, <1>8, <1>9

LEMMA RecordsAreRecords ==
  ASSUME NEW c \in CallType
  PROVE  Pin(c.settings) \in Pinned /\ Record(c) \in Pins
<1>1. Pin(c.settings) \in Pinned
  BY Constants DEF CallType, Pin, Pinned
<1>2. QED
  BY <1>1 DEF CallType, Pins, Record

(* The call that a step of server s leaves it in. *)
Lands(s, c) ==
  /\ c \in CallType /\ Fits(c)
  /\ Busy(s) => c = Idle \/ Goes(call[s], c)
  /\ call' = [call EXCEPT ![s] = c] \/ call' = [Disturbed EXCEPT ![s] = c]

(* The rest of the state. *)
RestOK ==
  /\ plugin \in Versions
  /\ excluded \subseteq Git
  /\ file \in [Projects -> Records]
  /\ pins \in [Projects -> Pins]
  /\ asked \in [Projects -> Pins]
  /\ calm \in BOOLEAN
  /\ calls \in 0 .. MaxCalls
  /\ meddling \in 0 .. MaxMeddling

LEMMA Puts ==
  ASSUME StateOK, NEW s \in Servers, NEW r, NEW f \in Files, NEW c, Put(s, r, f, c)
  PROVE  /\ call' = [Disturbed EXCEPT ![s] = c]
         /\ file' \in [Projects -> Records]
<1>1. [file EXCEPT ![call[s].project][r] = f] \in [Projects -> Records]
  BY DEF StateOK, Records
<1>2. QED
  BY <1>1 DEF Put

LEMMA ServerSteps ==
  ASSUME StateOK, CallsFit, NEW s \in Servers, Acts(s)
  PROVE  RestOK' /\ \E c : Lands(s, c)
<1> DEFINE c == call[s]
<1>c. c \in CallType /\ Fits(c)
  BY DEF StateOK, CallsFit
<1>f. /\ c.pc \in Pcs /\ c.op \in Ops
      /\ c.project \in Projects \cup {None} /\ c.role \in Roles \cup {None}
      /\ c.settings \in Supported /\ c.template \in Versions \cup {0}
      /\ c.records \in Records /\ c.pins \in Pins /\ c.todo \subseteq Roles
      /\ c.backup \in Files
  BY <1>c, Fields
<1>g. c.pc # "idle" => /\ c.op # "none" /\ c.project \in Projects /\ c.role \in Roles
                       /\ pins[c.project] \in Pins /\ file[c.project] \in Records
  BY <1>c DEF Fits, StateOK
<1>e. /\ \A p \in Pcs : [c EXCEPT !.pc = p] \in CallType
      /\ \A p \in Pcs : [c EXCEPT !.warned = TRUE, !.pc = p] \in CallType
      /\ \A r : Written(c, r) \in CallType
      /\ \A ps \in Pins, todo \in SUBSET Roles, p \in Pcs :
           [c EXCEPT !.pins = ps, !.todo = todo, !.pc = p] \in CallType
      /\ \A ps \in Pins, p \in Pcs : [c EXCEPT !.pc = p, !.pins = ps] \in CallType
      /\ \A rs \in Records, p \in Pcs : [c EXCEPT !.pc = p, !.records = rs] \in CallType
      /\ \A f \in Files, p \in Pcs : [c EXCEPT !.pc = p, !.backup = f] \in CallType
  BY <1>c, Edits
<1>h. /\ \A p : Goes(c, [c EXCEPT !.pc = p])
      /\ \A p : Goes(c, [c EXCEPT !.warned = TRUE, !.pc = p])
      /\ \A r : Goes(c, Written(c, r))
      /\ \A ps, todo, p : Goes(c, [c EXCEPT !.pins = ps, !.todo = todo, !.pc = p])
      /\ \A ps, p : Goes(c, [c EXCEPT !.pc = p, !.pins = ps])
      /\ \A rs, p : Goes(c, [c EXCEPT !.pc = p, !.records = rs])
      /\ \A f, p : Goes(c, [c EXCEPT !.pc = p, !.backup = f])
  BY <1>c, EditsGoOn
<1>i. Idle \in CallType /\ Fits(Idle)
  BY IdleIsACall
<1>p. \A f \in Files : \A r, d : Put(s, r, f, d) =>
        call' = [Disturbed EXCEPT ![s] = d] /\ file' \in [Projects -> Records]
  BY Puts
<1>1. CASE Begin(s)
  <2>p. PICK p \in Projects, op \in {"status", "install", "repair", "configure", "remove"},
             role \in Roles, settings \in Supported :
        /\ ~Busy(s) /\ calls < MaxCalls
        /\ op # "configure" => role = (CHOOSE r \in Roles : TRUE) /\ settings = Default
        /\ States(p) \cap Denied(op) = {}
        /\ LET others == \E t \in Servers \ {s} : Busy(t)
           IN call' = [Disturbed EXCEPT ![s] =
                [pc |-> CASE op = "status" -> "after pins" [] op = "repair" -> "pins" [] OTHER -> "work",
                 op |-> op, project |-> p, role |-> role, settings |-> settings,
                 template |-> plugin, records |-> file[p], pins |-> [r \in Roles |-> None],
                 todo |-> Touched(op, p, role, settings), backup |-> Missing, warned |-> FALSE,
               disturbed |-> others]]
        /\ calm' = (calm /\ ~(op = "configure" /\ \E t \in Servers : call[t].op = "configure"))
        /\ calls' = calls + 1
        /\ UNCHANGED <<plugin, file, pins, excluded, asked, meddling>>
    BY <1>1 DEF Begin
  <2> DEFINE others == \E t \in Servers \ {s} : Busy(t)
             pc == CASE op = "status" -> "after pins" [] op = "repair" -> "pins" [] OTHER -> "work"
             d == [pc |-> pc,
                   op |-> op, project |-> p, role |-> role, settings |-> settings,
                   template |-> plugin, records |-> file[p], pins |-> [r \in Roles |-> None],
                   todo |-> Touched(op, p, role, settings), backup |-> Missing, warned |-> FALSE,
                   disturbed |-> others]
  <2>1. pc \in Pcs /\ (pc = "pins" => op = "repair") /\ (pc = "work" => op # "status")
        /\ pc \in {"after pins", "pins", "work"}
    BY DEF Pcs
  <2>2. [r \in Roles |-> None] \in Pins /\ Touched(op, p, role, settings) \in SUBSET Roles
    BY Constants DEF Pins, Touched
  <2>3. file[p] \in Records /\ plugin \in Versions
    BY DEF StateOK
  <2>4. d \in CallType
    <3> HIDE DEF pc, others
    <3>1. op \in Ops /\ others \in BOOLEAN
      BY DEF Ops, others
    <3>2. QED
      BY <2>1, <2>2, <2>3, <3>1, Constants DEF CallType
  <2>5. Fits(d)
    <3> HIDE DEF pc, others
    <3>1. QED
      BY <2>1 DEF Fits
  <2>6. call' = [Disturbed EXCEPT ![s] = d] /\ ~Busy(s)
    BY <2>p
  <2>7. Lands(s, d)
    BY <2>4, <2>5, <2>6 DEF Lands
  <2>8. RestOK'
    <3>1. calm' \in BOOLEAN
      BY <2>p
    <3>2. calls' \in 0 .. MaxCalls
      <4>1. calls < MaxCalls /\ calls' = calls + 1
        BY <2>p
      <4>2. calls \in 0 .. MaxCalls
        BY DEF StateOK
      <4>3. QED
        BY ONLY <4>1, <4>2, Constants
    <3>3. QED
      BY <2>p, <3>1, <3>2 DEF StateOK, RestOK
  <2>9. QED
    BY <2>7, <2>8
<1>2. CASE ReadPinsForRepair(s)
  <2> DEFINE d == [c EXCEPT !.pins = pins[c.project], !.todo = Mended(c, pins[c.project]),
                            !.pc = "work"]
  <2>1. c.pc = "pins" /\ c.op = "repair" /\ call' = [call EXCEPT ![s] = d]
    BY <1>2, <1>c DEF ReadPinsForRepair, Fits, StateOK
  <2>2. Mended(c, pins[c.project]) \in SUBSET Roles /\ "work" \in Pcs
    BY DEF Mended, Pcs
  <2>3. d \in CallType /\ Goes(c, d)
    BY <2>1, <2>2, <1>e, <1>g, <1>h
  <2>4. Fits(d)
    BY <2>1, <1>c, <1>g DEF Fits, CallType
  <2>5. RestOK'
    BY <1>2 DEF ReadPinsForRepair, StateOK, RestOK
  <2>6. Lands(s, d)
    BY <2>1, <2>3, <2>4 DEF Lands
  <2>7. QED
    BY <2>5, <2>6
<1>3. CASE PlaceNew(s) \/ Place(s)
  <2> DEFINE r == NextRole(c) d == Written(c, r)
  <2>1. /\ c.pc \in {"work", "place"} /\ c.todo # {} /\ c.op \in {"install", "repair", "configure"}
        /\ Put(s, r, Content(c, r), d)
    BY <1>3, <1>c, <1>f DEF PlaceNew, Place, Fits, Ops
  <2>2. r \in Roles
    BY <1>c, <2>1, NextRoleIsInHand
  <2>3. Content(c, r) \in Files
    BY <1>c, <2>1, <2>2, ContentIsCurrent
  <2>4. call' = [Disturbed EXCEPT ![s] = d] /\ file' \in [Projects -> Records]
    BY <2>1, <2>3, <1>p
  <2>5. Fits(d)
    BY <2>1, <1>c, <1>g DEF Fits, CallType, Written
  <2>6. Lands(s, d)
    BY <2>4, <2>5, <1>e, <1>h DEF Lands
  <2>7. RestOK'
    BY <1>3, <2>4 DEF PlaceNew, Place, StateOK, RestOK
  <2>8. QED
    BY <2>6, <2>7
<1>4. CASE MoveAway(s)
  <2> DEFINE r == NextRole(c) d == [c EXCEPT !.pc = "place", !.backup = file[c.project][r]]
  <2>1. /\ c.pc = "work" /\ c.todo # {} /\ c.op \in {"repair", "configure"}
        /\ \/ Put(s, r, Missing, d)
           \/ call' = [call EXCEPT ![s] = Idle] /\ UNCHANGED file
    BY <1>4, <1>c, <1>f DEF MoveAway, Fits, Ops, Replaces, Ends
  <2>0. file[c.project][r] \in Files
    BY <2>1, <1>c, <1>f, <1>g, NextRoleIsInHand DEF Records
  <2>2. d \in CallType /\ Goes(c, d)
    BY <2>0, <1>e, <1>h DEF Pcs
  <2>3. Fits(d)
    BY <2>1, <1>c, <1>g DEF Fits, CallType
  <2>4. file' \in [Projects -> Records] /\ (Lands(s, d) \/ Lands(s, Idle))
    BY <2>1, <2>2, <2>3, <1>p, <1>i, Constants DEF Lands, StateOK
  <2>5. RestOK'
    BY <1>4, <2>4 DEF MoveAway, StateOK, RestOK
  <2>6. QED
    BY <2>4, <2>5
<1>5. CASE PlaceFails(s)
  <2> DEFINE r == NextRole(c)
  <2>1. c.pc = "place" /\ c.todo # {}
    BY <1>5, <1>c DEF PlaceFails, Fits
  <2>2. r \in Roles
    BY <1>c, <2>1, NextRoleIsInHand
  <2>3. c.backup \in Files /\ file[c.project][r] \in Files
    BY <2>1, <2>2, <1>f, <1>g DEF Records
  <2>4. PICK f \in {c.backup, file[c.project][r]} : Put(s, r, f, Idle)
    BY <1>5 DEF PlaceFails
  <2>5. file' \in [Projects -> Records] /\ Lands(s, Idle)
    BY <2>3, <2>4, <1>p, <1>i DEF Lands
  <2>6. meddling' \in 0 .. MaxMeddling
    BY <1>5, Constants DEF PlaceFails, StateOK
  <2>7. RestOK'
    BY <1>5, <2>5, <2>6 DEF PlaceFails, StateOK, RestOK
  <2>8. QED
    BY <2>5, <2>7
<1>6. CASE Remove(s)
  <2> DEFINE r == NextRole(c) d == Written(c, r)
  <2>1. /\ c.pc = "work" /\ c.op = "remove"
        /\ \/ Put(s, r, Missing, d)
           \/ call' = [call EXCEPT ![s] = Idle] /\ UNCHANGED file
    BY <1>6 DEF Remove, Ends
  <2>2. Fits(d)
    BY <2>1, <1>c, <1>g DEF Fits, CallType, Written
  <2>3. file' \in [Projects -> Records] /\ (Lands(s, d) \/ Lands(s, Idle))
    BY <2>1, <2>2, <1>p, <1>i, <1>e, <1>h, Constants DEF Lands, StateOK
  <2>4. RestOK'
    BY <1>6, <2>3 DEF Remove, StateOK, RestOK
  <2>5. QED
    BY <2>3, <2>4
<1>7. CASE WorkDone(s)
  <2> DEFINE pc == IF c.op = "configure" THEN "read record" ELSE "after"
             d == [c EXCEPT !.pc = pc]
  <2>1. c.pc = "work" /\ call' = [call EXCEPT ![s] = d]
    BY <1>7 DEF WorkDone, Go, StateOK
  <2>2. pc \in Pcs
    BY DEF Pcs
  <2>3. d \in CallType /\ Goes(c, d)
    BY <2>2, <1>e, <1>h
  <2>4. Fits(d)
    BY <2>1, <1>c, <1>g DEF Fits, CallType
  <2>5. Lands(s, d)
    BY <2>1, <2>3, <2>4 DEF Lands
  <2>6. RestOK'
    BY <1>7 DEF WorkDone, StateOK, RestOK
  <2>7. QED
    BY <2>5, <2>6
<1>8. CASE ReadRecord(s)
  <2> DEFINE d == [c EXCEPT !.pc = "write record", !.pins = pins[c.project]]
  <2>1. c.pc = "read record" /\ call' = [call EXCEPT ![s] = d]
    BY <1>8 DEF ReadRecord, StateOK
  <2>2. d \in CallType /\ Goes(c, d)
    BY <2>1, <1>e, <1>g, <1>h DEF Pcs
  <2>3. Fits(d)
    BY <2>1, <1>c, <1>g DEF Fits, CallType
  <2>4. Lands(s, d)
    BY <2>1, <2>2, <2>3 DEF Lands
  <2>5. RestOK'
    BY <1>8 DEF ReadRecord, StateOK, RestOK
  <2>6. QED
    BY <2>4, <2>5
<1>9. CASE WriteRecord(s)
  <2> DEFINE d == [c EXCEPT !.pc = "after"]
  <2>1. c.pc = "write record" /\ call' = [Disturbed EXCEPT ![s] = d]
    BY <1>9 DEF WriteRecord
  <2>2. d \in CallType /\ Goes(c, d)
    BY <1>e, <1>h DEF Pcs
  <2>3. Fits(d)
    BY <2>1, <1>c, <1>g DEF Fits, CallType
  <2>4. Lands(s, d)
    BY <2>1, <2>2, <2>3 DEF Lands
  <2>5. Pin(c.settings) \in Pinned /\ Record(c) \in Pins
    BY <1>c, RecordsAreRecords
  <2>6. pins' \in [Projects -> Pins] /\ asked' \in [Projects -> Pins]
    BY <1>9, <2>5 DEF WriteRecord, StateOK, Pins
  <2>7. RestOK'
    BY <1>9, <2>6 DEF WriteRecord, StateOK, RestOK
  <2>8. QED
    BY <2>4, <2>7
<1>10. CASE InspectAgain(s)
  <2> DEFINE d == [c EXCEPT !.pc = "after pins", !.records = file[c.project]]
  <2>1. c.pc = "after" /\ call' = [call EXCEPT ![s] = d]
    BY <1>10 DEF InspectAgain, StateOK
  <2>2. d \in CallType /\ Goes(c, d)
    BY <2>1, <1>e, <1>g, <1>h DEF Pcs
  <2>3. Fits(d)
    BY <2>1, <1>c, <1>g DEF Fits, CallType
  <2>4. Lands(s, d)
    BY <2>1, <2>2, <2>3 DEF Lands
  <2>5. RestOK'
    BY <1>10 DEF InspectAgain, StateOK, RestOK
  <2>6. QED
    BY <2>4, <2>5
<1>11. CASE ReadPinsForReport(s)
  <2> DEFINE pc == IF c.op \in {"install", "repair"} THEN "exclude" ELSE "report"
             d == [c EXCEPT !.pc = pc, !.pins = pins[c.project]]
  <2>1. c.pc = "after pins" /\ call' = [call EXCEPT ![s] = d]
    BY <1>11, <1>c DEF ReadPinsForReport, Reported, CallType
  <2>2. pc \in Pcs
    BY DEF Pcs
  <2>3. d \in CallType /\ Goes(c, d)
    BY <2>1, <2>2, <1>e, <1>g, <1>h
  <2>4. Fits(d)
    BY <2>1, <1>c, <1>g DEF Fits, CallType
  <2>5. Lands(s, d)
    BY <2>1, <2>3, <2>4 DEF Lands
  <2>6. RestOK'
    BY <1>11 DEF ReadPinsForReport, StateOK, RestOK
  <2>7. QED
    BY <2>5, <2>6
<1>12. CASE Exclude(s)
  <2>1. PICK d \in {[c EXCEPT !.pc = "report"], [c EXCEPT !.warned = TRUE, !.pc = "report"]} :
          call' = [call EXCEPT ![s] = d]
    BY <1>12 DEF Exclude, Go, StateOK
  <2>2. d \in CallType /\ Goes(c, d)
    BY <1>e, <1>h DEF Pcs
  <2>3. c.pc = "exclude" /\ d.pc = "report"
    BY <1>12, <1>c DEF Exclude, CallType
  <2>4. Fits(d)
    BY <2>2, <2>3, <1>c, <1>g DEF Fits, Goes
  <2>5. Lands(s, d)
    BY <2>1, <2>2, <2>4 DEF Lands
  <2>6. excluded' \subseteq Git /\ meddling' \in 0 .. MaxMeddling
    BY <1>12, Constants DEF Exclude, StateOK
  <2>7. RestOK'
    BY <1>12, <2>6 DEF Exclude, StateOK, RestOK
  <2>8. QED
    BY <2>5, <2>7
<1>13. CASE Answer(s) \/ Crash(s)
  <2>1. Lands(s, Idle)
    BY <1>13, <1>i DEF Answer, Crash, Ends, Lands
  <2>2. meddling' \in 0 .. MaxMeddling
    BY <1>13, Constants DEF Answer, Crash, StateOK
  <2>3. RestOK'
    BY <1>13, <2>2 DEF Answer, Crash, StateOK, RestOK
  <2>4. QED
    BY <2>1, <2>3
<1>14. QED
  BY <1>1, <1>2, <1>3, <1>4, <1>5, <1>6, <1>7, <1>8, <1>9, <1>10, <1>11, <1>12, <1>13
  DEF Acts, Step

(* What a step makes of all calls.                                         *)
LEMMA CallsAfter ==
  ASSUME StateOK, CallsFit, NEW s \in Servers, Acts(s)
  PROVE  /\ StateOK' /\ CallsFit'
         /\ Others(s)
         /\ Busy(s) => call'[s] = Idle \/ Goes(call[s], call'[s])
<1>1. RestOK' /\ \E c : Lands(s, c)
  BY ServerSteps
<1>2. PICK c : Lands(s, c)
  BY <1>1
<1>3. call' \in [Servers -> CallType] /\ call'[s] = c /\ Others(s)
  BY <1>2, Changed DEF Lands
<1>4. StateOK'
  BY <1>1, <1>3 DEF StateOK, RestOK
<1>5. \A t \in Servers : Fits(call[t]) /\ Fits(Trouble(call[t]))
  BY DEF CallsFit, StateOK, Fits, Trouble, CallType
<1>6. CallsFit'
  BY <1>2, <1>3, <1>5 DEF CallsFit, Lands, Others
<1>7. QED
  BY <1>2, <1>3, <1>4, <1>6 DEF Lands

LEMMA Troubled ==
  ASSUME NEW c \in CallType
  PROVE  /\ Trouble(c).disturbed = TRUE
         /\ Trouble(c).pc = c.pc /\ Trouble(c).op = c.op /\ Trouble(c).project = c.project
         /\ Trouble(c).pins = c.pins
BY DEF CallType, Trouble

(* What a call begins with. *)
LEMMA Beginning ==
  ASSUME NEW s \in Servers, Begin(s)
  PROVE  \E d : /\ call' = [Disturbed EXCEPT ![s] = d]
                /\ d.disturbed = (\E t \in Servers \ {s} : Busy(t))
                /\ d.pc \in {"after pins", "pins", "work"}
                /\ d.op = "repair" => d.pc = "pins"
                /\ d.records = file[d.project]
                /\ calm' = (calm /\ ~(d.op = "configure"
                                      /\ \E t \in Servers : call[t].op = "configure"))
<1>p. PICK p \in Projects, op \in {"status", "install", "repair", "configure", "remove"},
           role \in Roles, settings \in Supported :
      /\ ~Busy(s) /\ calls < MaxCalls
      /\ op # "configure" => role = (CHOOSE r \in Roles : TRUE) /\ settings = Default
      /\ States(p) \cap Denied(op) = {}
      /\ LET others == \E t \in Servers \ {s} : Busy(t)
         IN call' = [Disturbed EXCEPT ![s] =
              [pc |-> CASE op = "status" -> "after pins" [] op = "repair" -> "pins" [] OTHER -> "work",
               op |-> op, project |-> p, role |-> role, settings |-> settings,
               template |-> plugin, records |-> file[p], pins |-> [r \in Roles |-> None],
               todo |-> Touched(op, p, role, settings), backup |-> Missing, warned |-> FALSE,
               disturbed |-> others]]
      /\ calm' = (calm /\ ~(op = "configure" /\ \E t \in Servers : call[t].op = "configure"))
      /\ calls' = calls + 1
      /\ UNCHANGED <<plugin, file, pins, excluded, asked, meddling>>
  BY DEF Begin
<1> DEFINE d ==
      [pc |-> CASE op = "status" -> "after pins" [] op = "repair" -> "pins" [] OTHER -> "work",
       op |-> op, project |-> p, role |-> role, settings |-> settings,
       template |-> plugin, records |-> file[p], pins |-> [r \in Roles |-> None],
       todo |-> Touched(op, p, role, settings), backup |-> Missing, warned |-> FALSE,
       disturbed |-> \E t \in Servers \ {s} : Busy(t)]
<1>1. call' = [Disturbed EXCEPT ![s] = d]
  BY <1>p
<1>2. /\ d.pc \in {"after pins", "pins", "work"} /\ d.op = op
      /\ d.op = "repair" => d.pc = "pins"
      /\ d.records = file[d.project]
  OBVIOUS
<1>3. d.disturbed = (\E t \in Servers \ {s} : Busy(t))
  OBVIOUS
<1>4. calm' = (calm /\ ~(d.op = "configure" /\ \E t \in Servers : call[t].op = "configure"))
  BY <1>p
<1>5. QED
  BY <1>1, <1>2, <1>3, <1>4

(* A server that was idle begins, and disturbs whoever is not idle.        *)
LEMMA Begins ==
  ASSUME StateOK, NEW s \in Servers, Acts(s), ~Busy(s)
  PROVE  /\ Begin(s)
         /\ \A t \in Servers \ {s} : Busy(t) => call'[t] = Trouble(call[t]) /\ call'[s].disturbed
<1>1. call[s].pc = "idle"
  BY DEF Busy
<1>2. Begin(s)
  BY <1>1 DEF Acts, Step, PlaceFails, Crash, ReadPinsForRepair, PlaceNew, MoveAway, Place,
       Remove, WorkDone, ReadRecord, WriteRecord, InspectAgain, ReadPinsForReport, Exclude,
       Answer, Busy
<1>3. PICK d : /\ call' = [Disturbed EXCEPT ![s] = d]
               /\ d.disturbed = (\E t \in Servers \ {s} : Busy(t))
  BY <1>2, Beginning
<1>4. \A t \in Servers : Disturbed[t] = IF Busy(t) THEN Trouble(call[t]) ELSE call[t]
  BY DEF Disturbed, Trouble
<1>5. call'[s] = d /\ \A t \in Servers \ {s} : call'[t] = Disturbed[t]
  BY <1>3 DEF Disturbed
<1>6. QED
  BY <1>2, <1>3, <1>4, <1>5

(* Nobody is undisturbed after a step of somebody else's call.             *)
LEMMA OnlyOwn ==
  ASSUME StateOK, CallsFit, Alone, NEW s \in Servers, Acts(s),
         NEW t \in Servers, Undisturbed(t)', t # s
  PROVE  FALSE
<1>1. Others(s)
  BY CallsAfter
<1>2. call[t] \in CallType
  BY DEF StateOK
<1>3. Undisturbed(t) /\ call'[t].disturbed = FALSE
  BY <1>1, <1>2, Troubled, Fields DEF Others, Undisturbed, Busy
<1>4. ~Busy(s)
  BY <1>3 DEF Alone
<1>5. QED
  BY <1>2, <1>3, <1>4, Begins, Troubled DEF Undisturbed

LEMMA ServersStayAlone ==
  ASSUME StateOK, CallsFit, Alone, NEW s \in Servers, Acts(s)
  PROVE  Alone'
<1> SUFFICES ASSUME NEW u \in Servers, Undisturbed(s)', Busy(u)', u # s PROVE FALSE
  BY OnlyOwn DEF Alone
<1>1. Others(s) /\ (Busy(s) => call'[s] = Idle \/ Goes(call[s], call'[s]))
  BY CallsAfter
<1>2. call[u] \in CallType /\ call[s] \in CallType
  BY DEF StateOK
<1>3. Busy(u)
  BY <1>1, <1>2, Troubled DEF Others, Busy
<1>4. CASE Busy(s)
  <2>1. Undisturbed(s)
    BY <1>1, <1>4 DEF Undisturbed, Busy, Goes, Idle
  <2>2. QED
    BY <2>1, <1>3 DEF Alone
<1>5. CASE ~Busy(s)
  BY <1>3, <1>5, Begins DEF Undisturbed
<1>6. QED
  BY <1>4, <1>5

(***************************************************************************)
(* The record.                                                             *)
(***************************************************************************)
LEMMA RecordSteps ==
  ASSUME StateOK, CallsFit, RecordIsKept, NEW s \in Servers, Acts(s)
  PROVE  RecordIsKept'
<1> SUFFICES ASSUME calm' PROVE OneConfigures'
  BY DEF RecordIsKept
<1>1. /\ StateOK' /\ CallsFit' /\ Others(s)
      /\ Busy(s) => call'[s] = Idle \/ Goes(call[s], call'[s])
  BY CallsAfter
<1>2. calm
  BY DEF Acts, Step, Begin, PlaceFails, Crash, ReadPinsForRepair, PlaceNew, MoveAway, Place,
       Remove, WorkDone, ReadRecord, WriteRecord, InspectAgain, ReadPinsForReport, Exclude,
       Answer
<1>3. OneConfigures
  BY <1>2 DEF RecordIsKept
<1>4. \A t \in Servers \ {s} :
        /\ call'[t].op = call[t].op /\ call'[t].pc = call[t].pc
        /\ call'[t].project = call[t].project /\ call'[t].pins = call[t].pins
  BY <1>1, Troubled DEF Others, StateOK
<1>5. CASE ~Busy(s)
  <2>1. Begin(s)
    BY <1>5, Begins
  <2>2. PICK d :
          /\ call' = [Disturbed EXCEPT ![s] = d] /\ d.pc \in {"after pins", "pins", "work"}
          /\ calm' = (calm /\ ~(d.op = "configure"
                                /\ \E t \in Servers : call[t].op = "configure"))
    BY <2>1, Beginning
  <2>3. call'[s] = d
    BY <2>2 DEF Disturbed
  <2>4. pins' = pins /\ asked' = asked
    BY <2>1 DEF Begin
  <2>5. QED
    BY <1>3, <1>4, <2>2, <2>3, <2>4 DEF OneConfigures
<1>6. CASE Busy(s)
  <2>1. call'[s].op = "configure" => call[s].op = "configure"
    BY <1>1, <1>6 DEF Goes, Idle
  <2>2. \A t, u \in Servers : call'[t].op = "configure" /\ call'[u].op = "configure" => t = u
    <3>1. \A t \in Servers : call'[t].op = "configure" => call[t].op = "configure"
      BY <1>4, <2>1
    <3>2. QED
      BY <1>3, <3>1 DEF OneConfigures
  <2>3. CASE WriteRecord(s)
    <3> DEFINE c == call[s]
    <3>1. /\ c.pc = "write record" /\ c.op = "configure" /\ c.project \in Projects
          /\ c.role \in Roles /\ c.pins = pins[c.project] /\ c \in CallType
      BY <1>3, <2>3 DEF WriteRecord, OneConfigures, CallsFit, Fits, StateOK
    <3>2. pins' = [pins EXCEPT ![c.project] = [c.pins EXCEPT ![c.role] = Pin(c.settings)]]
      BY <2>3 DEF WriteRecord, Record
    <3>3. asked' = [asked EXCEPT ![c.project][c.role] = Pin(c.settings)]
      BY <2>3 DEF WriteRecord
    <3>4. pins' = asked'
      BY <1>3, <3>1, <3>2, <3>3 DEF OneConfigures, StateOK
    <3>5. call'[s].pc = "after"
      <4>1. call' = [Disturbed EXCEPT ![s] = [c EXCEPT !.pc = "after"]]
        BY <2>3 DEF WriteRecord
      <4>2. call'[s] = [c EXCEPT !.pc = "after"]
        BY <4>1 DEF Disturbed
      <4>3. QED
        BY <3>1, <4>2 DEF CallType
    <3>6. \A t \in Servers : call'[t].pc # "write record"
      BY <1>3, <1>4, <3>1, <3>5 DEF CallsFit, Fits, OneConfigures
    <3>7. QED
      BY <2>2, <3>4, <3>6 DEF OneConfigures
  <2>4. CASE ReadRecord(s)
    <3>1. call'[s] = [call[s] EXCEPT !.pc = "write record", !.pins = pins[call[s].project]]
      BY <2>4 DEF ReadRecord, StateOK
    <3>2. call'[s].pins = pins[call[s].project] /\ call'[s].project = call[s].project
      BY <3>1 DEF StateOK, CallType
    <3>3. pins' = pins /\ asked' = asked
      BY <2>4 DEF ReadRecord
    <3>4. QED
      BY <1>3, <1>4, <2>2, <3>2, <3>3 DEF OneConfigures
  <2>5. CASE ~WriteRecord(s) /\ ~ReadRecord(s)
    <3>1. pins' = pins /\ asked' = asked
      BY <1>6, <2>5 DEF Acts, Step, Begin, PlaceFails, Crash, ReadPinsForRepair, PlaceNew, MoveAway,
        Place, Remove, WorkDone, InspectAgain, ReadPinsForReport, Exclude, Answer
    <3>2. call'[s].pc # "write record"
      <4> SUFFICES ASSUME call'[s].pc = "write record" PROVE FALSE
        OBVIOUS
      <4>1. call[s] \in CallType /\ call \in [Servers -> CallType]
        BY DEF StateOK
      <4>2. \A d : call' = [Disturbed EXCEPT ![s] = d] => call'[s] = d
        BY DEF Disturbed
      <4>3. \A d : call' = [call EXCEPT ![s] = d] => call'[s] = d
        BY <4>1
      <4>4. Idle.pc = "idle"
        BY DEF Idle
      <4>5. \A r : Written(call[s], r).pc = "work"
        BY <4>1 DEF Written, CallType
      <4>6. ~(\/ PlaceNew(s) \/ Place(s) \/ PlaceFails(s) \/ MoveAway(s)
              \/ Remove(s) \/ Answer(s) \/ Crash(s))
        BY <4>1, <4>2, <4>3, <4>4, <4>5
        DEF PlaceNew, Place, PlaceFails, MoveAway, Remove, Answer, Crash, Put, Ends, CallType
      <4>7. ~(ReadPinsForRepair(s) \/ WorkDone(s) \/ InspectAgain(s))
        BY <4>1 DEF ReadPinsForRepair, WorkDone, InspectAgain, Go, CallType
      <4>8. ~(ReadPinsForReport(s) \/ Exclude(s))
        BY <4>1 DEF ReadPinsForReport, Reported, Exclude, Go, CallType
      <4>9. QED
        BY <1>6, <2>5, <4>6, <4>7, <4>8 DEF Acts, Step, Begin
    <3>3. QED
      BY <1>3, <1>4, <2>2, <3>1, <3>2 DEF OneConfigures
  <2>6. QED
    BY <2>3, <2>4, <2>5
<1>7. QED
  BY <1>5, <1>6

(***************************************************************************)
(* What an undisturbed call knows and a repair has mended.                 *)
(***************************************************************************)
LEMMA NotMended ==
  ASSUME NEW c, NEW ps, NEW r \in Roles, r \notin Mended(c, ps)
  PROVE  /\ State(c.records[r], c.template) = "current"
         /\ ps[r] # None => c.records[r].settings.model = ps[r].model
BY DEF Mended, LostPin, ShownModel

LEMMA OwnSteps ==
  ASSUME StateOK, CallsFit, Alone, OwnWork, NEW s \in Servers, Acts(s)
  PROVE  OwnWork'
<1> DEFINE c == call[s]
           d == call'[s]
<1> SUFFICES ASSUME Undisturbed(s)'
             PROVE  Known(call[s])' /\ (call[s].op = "repair" => Mends(call[s]))'
  BY OnlyOwn DEF OwnWork
<1>1. /\ c \in CallType /\ Fits(c) /\ call \in [Servers -> CallType]
      /\ d \in CallType /\ Fits(d)
  BY CallsAfter DEF StateOK, CallsFit
<1>2. d.pc # "idle" /\ ~d.disturbed
  BY DEF Undisturbed, Busy
<1>3. CASE ~Busy(s)
  <2>1. Begin(s)
    BY <1>3, Begins
  <2>2. PICK e : /\ call' = [Disturbed EXCEPT ![s] = e]
                 /\ e.pc \in {"after pins", "pins", "work"}
                 /\ e.op = "repair" => e.pc = "pins"
                 /\ e.records = file[e.project]
    BY <2>1, Beginning
  <2>3. d = e
    BY <2>2 DEF Disturbed
  <2>4. file' = file
    BY <2>1 DEF Begin
  <2>5. d.op = "repair" => d.pc = "pins"
    BY <2>2, <2>3
  <2>6. Known(call[s])'
    BY <2>2, <2>3, <2>4 DEF Known
  <2>7. d.op = "repair" => Mends(call[s])'
    BY <2>5 DEF Mends
  <2>8. QED
    BY <2>6, <2>7
<1>4. CASE Busy(s)
  <2>1. Goes(c, d)
    BY <1>4, <1>2, CallsAfter DEF Idle
  <2>2. Undisturbed(s)
    BY <1>2, <1>4, <2>1 DEF Undisturbed, Goes
  <2>3. Known(c) /\ (c.op = "repair" => Mends(c))
    BY <2>2 DEF OwnWork
  <2>5. /\ c.project \in Projects /\ d.project = c.project
        /\ d.op = c.op /\ d.template = c.template
    BY <2>1, <1>1, <1>4 DEF Goes, Fits, Busy
  <2>6. file \in [Projects -> Records] /\ pins \in [Projects -> Pins]
    BY DEF StateOK
  <2>7. Idle.pc = "idle"
    BY DEF Idle
  <2>8. \A e : call' = [Disturbed EXCEPT ![s] = e] => d = e
    BY DEF Disturbed
  <2>9. \A e : call' = [call EXCEPT ![s] = e] => d = e
    BY <1>1
  <2>10. CASE ReadPinsForRepair(s)
    <3> DEFINE ps == pins[c.project]
    <3>1. d = [c EXCEPT !.pins = ps, !.todo = Mended(c, ps), !.pc = "work"]
      BY <2>10, <1>1 DEF ReadPinsForRepair
    <3>2. d.pc = "work" /\ d.pins = ps /\ d.todo = Mended(c, ps) /\ c.records = file[c.project]
      BY <3>1, <1>1, <2>3, <2>10 DEF CallType, Known, ReadPinsForRepair
    <3>3. file' = file /\ pins' = pins
      BY <2>10 DEF ReadPinsForRepair
    <3>4. \A r \in Roles \ d.todo : IsMended(call[s], r)'
      BY <2>5, <3>2, <3>3, NotMended DEF IsMended
    <3>5. QED
      BY <2>5, <3>2, <3>3, <3>4 DEF Known, Mends
  <2>11. CASE PlaceNew(s) \/ Place(s)
    <3> DEFINE r == NextRole(c)
    <3>1. /\ c.todo # {} /\ c.pc \in {"work", "place"}
          /\ c.op \in {"install", "repair", "configure"}
          /\ Put(s, r, Content(c, r), Written(c, r)) /\ pins' = pins
      BY <2>11, <1>1, Fields DEF PlaceNew, Place, Fits, Ops
    <3>2. r \in c.todo /\ r \in Roles
      BY <1>1, <3>1, NextRoleIsInHand
    <3>3. d.pc = "work" /\ d.todo = c.todo \ {r} /\ d.pins = c.pins
      <4>1. d = Written(c, r)
        BY <3>1, <2>8 DEF Put
      <4>2. QED
        BY <4>1, <1>1 DEF Written, CallType
    <3>4. /\ file'[c.project][r] = Content(c, r)
          /\ \A q \in Roles \ {r} : file'[c.project][q] = file[c.project][q]
      BY <3>1, <3>2, <2>5, <2>6 DEF Put, Records
    <3>5. ASSUME c.op = "repair", NEW q \in Roles \ d.todo PROVE IsMended(call[s], q)'
      <4>1. CASE q = r
        BY <4>1, <3>2, <3>3, <3>4, <3>5, <2>5, <1>1, ContentIsCurrent DEF IsMended
      <4>2. CASE q # r
        <5>1. IsMended(c, q)
          BY <4>2, <3>1, <3>3, <3>5, <2>3 DEF Mends
        <5>2. QED
          BY <5>1, <4>2, <3>3, <3>4, <2>5 DEF IsMended
      <4>3. QED
        BY <4>1, <4>2
    <3>6. c.op = "repair" => c.pins = pins[c.project]
      BY <3>1, <2>3 DEF Mends
    <3>7. QED
      BY <3>1, <3>3, <3>5, <3>6, <2>5 DEF Known, Mends
  <2>12. CASE MoveAway(s)
    <3> DEFINE r == NextRole(c)
    <3>1. /\ c.todo # {} /\ c.pc = "work" /\ pins' = pins
          /\ Put(s, r, Missing, [c EXCEPT !.pc = "place", !.backup = file[c.project][r]])
      BY <2>12, <2>9, <2>7, <1>2 DEF MoveAway, Ends
    <3>2. r \in c.todo /\ r \in Roles
      BY <1>1, <3>1, NextRoleIsInHand
    <3>3. d.pc = "place" /\ d.todo = c.todo /\ d.pins = c.pins
      <4>1. d = [c EXCEPT !.pc = "place", !.backup = file[c.project][r]]
        BY <3>1, <2>8 DEF Put
      <4>2. QED
        BY <4>1, <1>1 DEF CallType
    <3>4. \A q \in Roles \ {r} : file'[c.project][q] = file[c.project][q]
      BY <3>1, <3>2, <2>5, <2>6 DEF Put, Records
    <3>5. ASSUME c.op = "repair", NEW q \in Roles \ d.todo PROVE IsMended(call[s], q)'
      <4>1. IsMended(c, q) /\ q # r
        BY <3>1, <3>2, <3>3, <3>5, <2>3 DEF Mends
      <4>2. QED
        BY <4>1, <3>3, <3>4, <2>5 DEF IsMended
    <3>6. c.op = "repair" => c.pins = pins[c.project]
      BY <3>1, <2>3 DEF Mends
    <3>7. QED
      BY <3>1, <3>3, <3>5, <3>6, <2>5 DEF Known, Mends
  <2>13. CASE PlaceFails(s) \/ Answer(s) \/ Crash(s)
    <3>1. d = Idle
      BY <2>13, <2>8, <2>9 DEF PlaceFails, Answer, Crash, Put, Ends
    <3>2. QED
      BY <3>1, <2>7, <1>2
  <2>14. CASE Remove(s)
    <3>1. c.op = "remove" /\ (d = Written(c, NextRole(c)) \/ d = Idle)
      BY <2>14, <2>8, <2>9 DEF Remove, Put, Ends
    <3>2. d.pc = "work"
      BY <3>1, <2>7, <1>1, <1>2 DEF Written, CallType
    <3>3. QED
      BY <3>1, <3>2, <2>5 DEF Known
  <2>15. CASE WorkDone(s)
    <3>1. /\ d = [c EXCEPT !.pc = IF c.op = "configure" THEN "read record" ELSE "after"]
          /\ c.pc = "work" /\ c.todo = {} /\ file' = file /\ pins' = pins
      BY <2>15, <2>9 DEF WorkDone, Go
    <3>2. d.pc \in {"read record", "after"} /\ d.todo = {} /\ d.pins = c.pins
      BY <3>1, <1>1 DEF CallType
    <3>3. c.op = "repair" => \A r \in Roles : IsMended(call[s], r)'
      BY <3>1, <3>2, <2>3, <2>5 DEF Mends, IsMended
    <3>4. QED
      BY <3>1, <3>2, <3>3, <2>3, <2>5 DEF Known, Mends
  <2>16. CASE ReadRecord(s) \/ WriteRecord(s)
    <3>1. c.op = "configure"
      BY <2>16, <1>1 DEF ReadRecord, WriteRecord, Fits
    <3>2. d.pc \in {"write record", "after"}
      BY <2>16, <2>8, <2>9, <1>1 DEF ReadRecord, WriteRecord, CallType
    <3>3. QED
      BY <3>1, <3>2, <2>5 DEF Known
  <2>17. CASE InspectAgain(s)
    <3>1. /\ d = [c EXCEPT !.pc = "after pins", !.records = file[c.project]]
          /\ c.pc = "after" /\ file' = file /\ pins' = pins
      BY <2>17, <1>1 DEF InspectAgain
    <3>2. /\ d.pc = "after pins" /\ d.records = file[c.project]
          /\ d.todo = c.todo /\ d.pins = c.pins
      BY <3>1, <1>1 DEF CallType
    <3>3. c.op = "repair" => c.todo = {} /\ \A r \in Roles : IsMended(call[s], r)'
      BY <3>1, <3>2, <2>3, <2>5 DEF Mends, IsMended
    <3>4. QED
      BY <3>1, <3>2, <3>3, <2>3, <2>5 DEF Known, Mends
  <2>18. CASE ReadPinsForReport(s)
    <3>1. /\ d = [c EXCEPT !.pc = IF c.op \in {"install", "repair"} THEN "exclude" ELSE "report",
                           !.pins = pins[c.project]]
          /\ c.pc = "after pins" /\ file' = file /\ pins' = pins
      BY <2>18, <1>1 DEF ReadPinsForReport, Reported, CallType
    <3>2. /\ d.pc \in {"exclude", "report"} /\ (c.op = "repair" => d.pc = "exclude")
          /\ d.records = c.records /\ d.todo = c.todo /\ d.pins = pins[c.project]
      BY <3>1, <1>1 DEF CallType
    <3>3. c.op = "repair" => c.todo = {} /\ \A r \in Roles : IsMended(call[s], r)'
      <4>1. c.op = "repair" => /\ c.todo = {} /\ c.pins = pins[c.project]
                               /\ \A r \in Roles : IsMended(c, r)
        BY <3>1, <2>3 DEF Mends
      <4>2. ASSUME c.op = "repair", NEW r \in Roles PROVE IsMended(call[s], r)'
        <5>1. IsMended(c, r) /\ d.pins = c.pins
          BY <4>1, <4>2, <3>2
        <5>2. file' = file /\ d.project = c.project /\ d.template = c.template
          BY <3>1, <2>5
        <5>3. QED
          BY <5>1, <5>2 DEF IsMended
      <4>3. QED
        BY <4>1, <4>2
    <3>4. QED
      BY <3>1, <3>2, <3>3, <2>3, <2>5 DEF Known, Mends
  <2>19. CASE Exclude(s)
    <3>1. /\ d \in {[c EXCEPT !.pc = "report"], [c EXCEPT !.warned = TRUE, !.pc = "report"]}
          /\ c.pc = "exclude" /\ file' = file /\ pins' = pins
      BY <2>19, <1>1 DEF Exclude, Go
    <3>2. /\ d.pc = "report" /\ d.records = c.records /\ d.todo = c.todo /\ d.pins = c.pins
      BY <3>1, <1>1 DEF CallType
    <3>3. c.project \in excluded' \/ d.warned
      BY <2>19, <1>1 DEF Exclude, Go, CallType
    <3>4. c.op = "repair" => c.todo = {} /\ \A r \in Roles : IsMended(call[s], r)'
      BY <3>1, <3>2, <2>3, <2>5 DEF Mends, IsMended
    <3>5. QED
      BY <3>1, <3>2, <3>3, <3>4, <2>3, <2>5 DEF Known, Mends
  <2>20. QED
    BY <1>4, <2>10, <2>11, <2>12, <2>13, <2>14, <2>15, <2>16, <2>17, <2>18, <2>19
    DEF Acts, Step, Begin
<1>5. QED
  BY <1>3, <1>4

(***************************************************************************)
(* Steps of others: the host, the user, an upgrade.                        *)
(***************************************************************************)
LEMMA MeddlingSteps == IInv /\ Meddle => IInv'
<1> SUFFICES ASSUME IInv, Meddle PROVE IInv'
  OBVIOUS
<1>1. PICK p \in Projects, r \in Roles : \E f \in Rewritten(file[p][r]) \ {file[p][r]} :
        /\ meddling < MaxMeddling /\ meddling' = meddling + 1
        /\ file' = [file EXCEPT ![p][r] = f]
        /\ call' = Disturbed
        /\ UNCHANGED <<plugin, pins, excluded, asked, calm, calls>>
  BY DEF Meddle
<1>2. PICK f \in Rewritten(file[p][r]) :
        /\ meddling < MaxMeddling /\ meddling' = meddling + 1
        /\ file' = [file EXCEPT ![p][r] = f]
        /\ call' = Disturbed
        /\ UNCHANGED <<plugin, pins, excluded, asked, calm, calls>>
  BY <1>1
<1>3. StateOK /\ file[p][r] \in Files
  BY DEF IInv, StateOK, Records
<1>4. f \in Files
  <2>1. CASE f \in {Missing, Foreign}
    BY <2>1, Constants
  <2>2. CASE f \notin {Missing, Foreign}
    <3>1. IsManaged(file[p][r]) /\ file[p][r] \in Managed
      BY <2>2, <1>3 DEF Rewritten, IsManaged, Files
    <3>2. /\ file[p][r].template \in Versions \cup {0}
          /\ file[p][r].settings \in Settings \cup {None}
      BY <3>1 DEF Managed
    <3>3. \E t \in Versions \cup {0}, s \in Settings \cup {None} : f = Profile(t, s)
      BY <2>2, <3>1, <3>2, <1>3, Constants DEF Rewritten, StateOK
    <3>4. QED
      BY <3>3, ProfilesAreManaged
  <2>3. QED
    BY <2>1, <2>2
<1>5. /\ call \in [Servers -> CallType] /\ call' \in [Servers -> CallType]
      /\ \A t \in Servers : call'[t] = IF Busy(t) THEN Trouble(call[t]) ELSE call[t]
  BY <1>2, <1>3, Edits DEF StateOK, Disturbed, Trouble
<1>6. StateOK'
  <2>1. file' \in [Projects -> Records]
    BY <1>2, <1>3, <1>4 DEF StateOK, Records
  <2>2. meddling' \in 0 .. MaxMeddling
    BY <1>2, <1>3, Constants DEF StateOK
  <2>3. QED
    BY <1>2, <1>3, <1>5, <2>1, <2>2 DEF StateOK
<1>7. CallsFit'
  <2>1. \A t \in Servers : Fits(call[t]) /\ Fits(Trouble(call[t]))
    <3>1. CallsFit
      BY DEF IInv
    <3>2. QED
      BY ONLY <3>1, <1>3 DEF CallsFit, StateOK, Fits, Trouble, CallType
  <2>2. QED
    BY <1>5, <2>1 DEF CallsFit
<1>8. \A t \in Servers : ~Undisturbed(t)'
  <2> TAKE t \in Servers
  <2>1. call[t] \in CallType
    BY <1>5
  <2>2. CASE Busy(t)
    BY <1>5, <2>1, <2>2, Troubled DEF Undisturbed
  <2>3. CASE ~Busy(t)
    BY <1>5, <2>3 DEF Undisturbed, Busy
  <2>4. QED
    BY <2>2, <2>3
<1>9. Alone' /\ OwnWork'
  BY <1>8 DEF Alone, OwnWork
<1>10. RecordIsKept'
  <2>1. \A t \in Servers : /\ call'[t].op = call[t].op /\ call'[t].pc = call[t].pc
                           /\ call'[t].pins = call[t].pins /\ call'[t].project = call[t].project
    BY <1>5, Troubled
  <2>2. QED
    <3>1. calm => OneConfigures
      BY DEF IInv, RecordIsKept
    <3>2. calm' = calm /\ pins' = pins /\ asked' = asked
      BY <1>2
    <3>3. QED
      BY <2>1, <3>1, <3>2 DEF RecordIsKept, OneConfigures
<1>11. QED
  BY <1>6, <1>7, <1>9, <1>10 DEF IInv

LEMMA UpgradeSteps == IInv /\ Upgrade => IInv'
<1> SUFFICES ASSUME IInv, Upgrade PROVE IInv'
  OBVIOUS
<1>1. /\ plugin' \in Versions /\ meddling < MaxMeddling /\ meddling' = meddling + 1
      /\ UNCHANGED <<file, pins, excluded, call, asked, calm, calls>>
  BY DEF Upgrade
<1>2. StateOK'
  BY <1>1, Constants DEF IInv, StateOK
<1>3. QED
  BY <1>1, <1>2
  DEF IInv, CallsFit, Alone, Undisturbed, Busy, RecordIsKept, OneConfigures, OwnWork, Known, Mends,
      IsMended

LEMMA StepPreserves == IInv /\ [Next]_vars => IInv'
<1> SUFFICES ASSUME IInv, [Next]_vars PROVE IInv'
  OBVIOUS
<1>1. ASSUME NEW s \in Servers, Acts(s) PROVE IInv'
  BY <1>1, CallsAfter, ServersStayAlone, RecordSteps, OwnSteps DEF IInv
<1>2. CASE UNCHANGED vars
  BY <1>2
  DEF vars, IInv, StateOK, CallsFit, Alone, Undisturbed, Busy, RecordIsKept, OneConfigures, OwnWork,
      Known, Mends, IsMended
<1>3. QED
  BY <1>1, <1>2, MeddlingSteps, UpgradeSteps DEF Next, Acts

(***************************************************************************)
(* The theorems.                                                           *)
(***************************************************************************)
(* The invariant holds of every number of servers, projects, roles, models *)
(* and versions, crashes and changes by others (role-profiles.ts).         *)
THEOREM Invariance == Spec => []IInv
<1>1. QED
  BY InitEstablishes, StepPreserves, PTL DEF Spec

(* Files, pins and calls keep their types, and a call that is between its  *)
(* two renames has a role in hand (writeAtomic).                           *)
THEOREM TypeCorrectness == Spec => []TypeOK
<1>1. IInv => TypeOK
  <2> SUFFICES ASSUME IInv PROVE TypeOK
    OBVIOUS
  <2>1. \A p \in Projects, r \in Roles :
          pins[p][r] \in {None} \cup {s \in Supported : s.model # "inherit"}
    BY DEF IInv, StateOK, Pins, Pinned
  <2>2. \A s \in Servers : /\ call[s].todo \subseteq Roles
                           /\ call[s].pc = "place" => call[s].todo # {}
    BY DEF IInv, StateOK, CallType, CallsFit, Fits
  <2>3. QED
    BY <2>1, <2>2 DEF IInv, StateOK, TypeOK, Records
<1>2. QED
  BY <1>1, Invariance, PTL

(* While configurations do not overlap, what was asked for is on record    *)
(* through every crash, repair, removal and change by others, and a report *)
(* of a call that ran alone names each role whose profile would be         *)
(* dispatched on another model (role-profiles.ts 45-64, 196-214).          *)
THEOREM PinSafety == Spec => []PinsAreNotLostQuietly
<1>1. IInv => PinsAreNotLostQuietly
  <2> SUFFICES ASSUME IInv, calm PROVE PinsAreNotLostQuietly
    BY DEF PinsAreNotLostQuietly
  <2>1. pins = asked
    BY DEF IInv, RecordIsKept, OneConfigures
  <2>2. ASSUME NEW s \in Servers, Reports(s), NEW r \in Roles,
               asked[call[s].project][r] # None, file[call[s].project][r] # Missing,
               IsManaged(file[call[s].project][r]) =>
                 \/ file[call[s].project][r].settings = None
                 \/ file[call[s].project][r].settings.model # asked[call[s].project][r].model
        PROVE  r \in Drift(call[s]) /\ ~Ready(call[s])
    <3> DEFINE c == call[s]
               f == file[c.project][r]
               pin == c.pins[r]
    <3>1. c.pc = "report" /\ Undisturbed(s)
      BY <2>2 DEF Reports, Undisturbed, Busy
    <3>2. c.records = file[c.project] /\ c.pins = pins[c.project] /\ c.project \in Projects
      BY <3>1 DEF IInv, OwnWork, Known, CallsFit, Fits
    <3>3. pin # None /\ pin = asked[c.project][r] /\ pin \in Pinned
      BY <2>1, <2>2, <3>2 DEF IInv, StateOK, Pins
    <3>4. pin.model # "inherit"
      BY <3>3 DEF Pinned
    <3>5. State(f, c.template) = "current" => f.settings.model # pin.model
      BY <2>2, <3>3, Constants, CurrentProfiles DEF IsManaged
    <3>6. LostPin(c, r, c.pins)
      BY <3>2, <3>3, <3>4, <3>5 DEF LostPin, ShownModel
    <3>7. QED
      BY <2>2, <3>2, <3>6 DEF Drift, Ready
  <2>3. QED
    BY <2>1, <2>2 DEF PinsAreNotLostQuietly
<1>2. QED
  BY <1>1, Invariance, PTL

(* A repair that ran alone leaves every profile current, every pinned role *)
(* on its model, and the profiles excluded or a warning                    *)
(* (role-profiles.ts 140-169).                                             *)
THEOREM RepairSafety == Spec => []RepairMakesReady
<1>1. IInv => RepairMakesReady
  <2> SUFFICES ASSUME IInv, NEW s \in Servers, Reports(s), call[s].op = "repair"
      PROVE  /\ Ready(call[s])
             /\ \A r \in Roles :
                  /\ State(file[call[s].project][r], call[s].template) = "current"
                  /\ calm /\ asked[call[s].project][r] # None =>
                       file[call[s].project][r].settings.model = asked[call[s].project][r].model
             /\ call[s].project \in excluded \/ call[s].warned
    BY DEF RepairMakesReady
  <2> DEFINE c == call[s]
  <2>1. c.pc = "report" /\ Undisturbed(s)
    BY DEF Reports, Undisturbed, Busy
  <2>2. c.records = file[c.project] /\ c.pins = pins[c.project]
    BY <2>1 DEF IInv, OwnWork, Known
  <2>3. /\ \A r \in Roles : IsMended(c, r)
        /\ c.project \in excluded \/ c.warned
    BY <2>1 DEF IInv, OwnWork, Mends
  <2>4. \A r \in Roles :
          /\ State(c.records[r], c.template) = "current"
          /\ c.pins[r] # None => c.records[r].settings.model = c.pins[r].model
    BY <2>2, <2>3 DEF IsMended
  <2>5. Drift(c) = {}
    BY <2>4 DEF Drift, LostPin, ShownModel
  <2>6. Ready(c)
    BY <2>4, <2>5 DEF Ready
  <2>7. calm => asked = pins
    BY DEF IInv, RecordIsKept, OneConfigures
  <2>8. QED
    BY <2>2, <2>3, <2>4, <2>6, <2>7
<1>2. QED
  BY <1>1, Invariance, PTL

=============================================================================
