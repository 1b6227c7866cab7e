---------------------------- MODULE RoleProfiles ----------------------------
(***************************************************************************)
(* The role profiles in a project and the record of the models they were   *)
(* pinned to, in the data directory (mcp/src/role-profiles.ts).  Calls of  *)
(* several servers, crashes between their steps, and whoever else writes   *)
(* to the project: the host, which may rewrite a profile from its          *)
(* template, and the user.  A profile is its template and its settings.    *)
(***************************************************************************)
EXTENDS Integers, FiniteSets

CONSTANTS
  Servers, Projects,
  Roles,                 \* numbered in the order of ROLE_PROFILES
  Models, Levels,        \* besides "inherit"; thought levels besides "high"
  Versions,              \* of the plugin, and of its templates
  None, Missing, Foreign, \* no file; a file without the marker
  Git,                   \* the projects that are git repositories
  MaxCalls, MaxMeddling  \* calls; crashes, failures and changes by others

ASSUME ProfilesAssumption ==
  /\ Roles \subseteq Nat /\ Git \subseteq Projects
  /\ Versions \subseteq Nat \ {0} /\ Versions # {}
  /\ "inherit" \notin Models /\ "high" \notin Levels
  /\ MaxCalls \in Nat /\ MaxMeddling \in Nat

VARIABLES
  plugin,     \* the version that is installed
  file,       \* the profile of a role in a project
  pins,       \* role-model-pins.json
  excluded,   \* the projects whose exclude file names the profiles
  call,       \* the call a server is in
  asked,      \* what was last asked for, and recorded, for a role
  calm,       \* no two configurations have overlapped
  calls, meddling

vars == <<plugin, file, pins, excluded, call, asked, calm, calls, meddling>>

AllModels == Models \cup {"inherit"}
AllLevels == Levels \cup {"high"}
Settings == [model : AllModels, level : AllLevels]
Default == [model |-> "inherit", level |-> "high"]

SupportsThoughtLevel(s) == s.model = "inherit" => s.level = "high"
Supported == {s \in Settings : SupportsThoughtLevel(s)}

(* A file of Cycle's: the template it follows, 0 for none, and what it says *)
(* about the model, None if that cannot be read.                            *)
Managed == [template : Versions \cup {0}, settings : Settings \cup {None}]
Files == Managed \cup {Missing, Foreign}

ASSUME AbsenceAssumption ==
  None \notin Settings /\ None \notin Projects /\ Missing \notin Managed /\ Foreign \notin Managed

Profile(t, s) == [template |-> t, settings |-> s]

IsManaged(f) == f \notin {Missing, Foreign}

(* extractManagedSettings: None unless both are there and go together. *)
Extracted(f) ==
  IF IsManaged(f) /\ f.settings \in Supported THEN f.settings ELSE None

(* inspectProfile, by a plugin whose templates are of version t. *)
State(f, t) ==
  CASE f = Missing -> "missing"
    [] f = Foreign -> "conflict"
    [] IsManaged(f) /\ f.template = t /\ Extracted(f) # None -> "current"
    [] OTHER -> "managed-drift"

(* The model a record shows, which it does only if it is current. *)
ShownModel(f, t) == IF State(f, t) = "current" THEN f.settings.model ELSE "inherit"

Idle == [pc |-> "idle", op |-> "none", project |-> None, role |-> None, settings |-> Default,
         template |-> 0, records |-> [r \in Roles |-> Missing], pins |-> [r \in Roles |-> None],
         todo |-> {}, backup |-> Missing, warned |-> FALSE, disturbed |-> FALSE]

Init ==
  /\ plugin = CHOOSE v \in Versions : \A w \in Versions : v <= w
  /\ file = [p \in Projects |-> [r \in Roles |-> Missing]]
  /\ pins = [p \in Projects |-> [r \in Roles |-> None]]
  /\ excluded = {}
  /\ call = [s \in Servers |-> Idle]
  /\ asked = [p \in Projects |-> [r \in Roles |-> None]]
  /\ calm = TRUE /\ calls = 0 /\ meddling = 0

Busy(s) == call[s].pc # "idle"
Disturbed == [s \in Servers |-> IF Busy(s) THEN [call[s] EXCEPT !.disturbed = TRUE] ELSE call[s]]

(***************************************************************************)
(* manageRoleProfiles.  A call begins by looking at every profile of its   *)
(* project; what it finds decides what it does.                            *)
(***************************************************************************)
(* rejectStates *)
Denied(op) ==
  CASE op = "status" -> {}
    [] op = "install" -> {"managed-drift", "conflict"}
    [] op = "configure" -> {"missing", "managed-drift", "conflict"}
    [] op \in {"repair", "remove"} -> {"conflict"}

States(p) == {State(file[p][r], plugin) : r \in Roles}

(* The roles an operation writes to, by what was found.  What a repair     *)
(* does depends on the pins, which it reads next.                          *)
Touched(op, p, role, settings) ==
  CASE op = "install" -> {r \in Roles : file[p][r] = Missing}
    [] op = "remove" -> {r \in Roles : file[p][r] # Missing}
    [] op = "configure" -> {r \in {role} : file[p][r].settings # settings}
    [] op \in {"status", "repair"} -> {}

Begin(s) ==
  \E p \in Projects, op \in {"status", "install", "repair", "configure", "remove"},
     role \in Roles, settings \in Supported :
    /\ ~Busy(s) /\ calls < MaxCalls
    /\ op # "configure" => role = (CHOOSE r \in Roles : TRUE) /\ settings = Default
    /\ States(p) \cap Denied(op) = {}
    /\ LET others == \E t \in Servers \ {s} : Busy(t)
       IN call' = [Disturbed EXCEPT ![s] =
            [pc |-> CASE op = "status" -> "after pins" [] op = "repair" -> "pins" [] OTHER -> "work",
             op |-> op, project |-> p, role |-> role, settings |-> settings,
             template |-> plugin, records |-> file[p], pins |-> [r \in Roles |-> None],
             todo |-> Touched(op, p, role, settings), backup |-> Missing, warned |-> FALSE,
             disturbed |-> others]]
    /\ calm' = (calm /\ ~(op = "configure" /\ \E t \in Servers : call[t].op = "configure"))
    /\ calls' = calls + 1
    /\ UNCHANGED <<plugin, file, pins, excluded, asked, meddling>>

Go(s, pc) == call' = [call EXCEPT ![s].pc = pc]
Ends(s) == call' = [call EXCEPT ![s] = Idle]

(* A change to a profile by server s, with what it leaves the call at;      *)
(* every other call in flight is disturbed.                                 *)
Put(s, r, f, c) ==
  /\ file' = [file EXCEPT ![call[s].project][r] = f]
  /\ call' = [Disturbed EXCEPT ![s] = c]

(* A slip: a repair keyed on damage alone. *)
MendsDamage(c, ps) == {r \in Roles : State(c.records[r], c.template) # "current"}

(* What a repair finds to mend: what is damaged, and what has lost its pin. *)
LostPin(c, r, ps) == ps[r] # None /\ ShownModel(c.records[r], c.template) # ps[r].model
Mended(c, ps) == {r \in Roles : State(c.records[r], c.template) # "current" \/ LostPin(c, r, ps)}

ReadPinsForRepair(s) ==
  /\ call[s].pc = "pins"
  /\ LET ps == pins[call[s].project]
     IN call' = [call EXCEPT ![s].pins = ps, ![s].todo = Mended(call[s], ps), ![s].pc = "work"]
  /\ UNCHANGED <<plugin, file, pins, excluded, asked, calm, calls, meddling>>

(* The next profile to write, what is written, and whether writeAtomic      *)
(* moves the old one away first.                                            *)
NextRole(c) == CHOOSE r \in c.todo : \A q \in c.todo : r <= q

Repaired(c, r) ==
  CASE c.pins[r] # None -> c.pins[r]
    [] c.pins[r] = None /\ Extracted(c.records[r]) # None -> Extracted(c.records[r])
    [] OTHER -> Default

Content(c, r) ==
  CASE c.op = "install" -> Profile(c.template, Default)
    [] c.op = "repair" -> Profile(c.template, Repaired(c, r))
    [] c.op = "configure" -> Profile(c.template, c.settings)

Replaces(c, r) == c.op # "install" /\ c.records[r] # Missing
Written(c, r) == [c EXCEPT !.pc = "work", !.todo = @ \ {r}, !.backup = Missing]

(* writeAtomic without replacement: the rename takes the place of whatever  *)
(* is there by now.                                                         *)
PlaceNew(s) ==
  LET c == call[s] r == NextRole(c) IN
  /\ c.pc = "work" /\ c.todo # {} /\ c.op # "remove" /\ ~Replaces(c, r)
  /\ Put(s, r, Content(c, r), Written(c, r))
  /\ UNCHANGED <<plugin, pins, excluded, asked, calm, calls, meddling>>

(* With replacement: the old one becomes the backup, then the new one takes *)
(* its place.  The first rename throws if the profile is gone by now.       *)
MoveAway(s) ==
  LET c == call[s] r == NextRole(c) IN
  /\ c.pc = "work" /\ c.todo # {} /\ c.op # "remove" /\ Replaces(c, r)
  /\ \/ file[c.project][r] # Missing /\ Put(s, r, Missing, [c EXCEPT !.pc = "place", !.backup = file[c.project][r]])
     \/ file[c.project][r] = Missing /\ Ends(s) /\ UNCHANGED file
  /\ UNCHANGED <<plugin, pins, excluded, asked, calm, calls, meddling>>

Place(s) ==
  LET c == call[s] r == NextRole(c) IN
  /\ c.pc = "place"
  /\ Put(s, r, Content(c, r), Written(c, r))
  /\ UNCHANGED <<plugin, pins, excluded, asked, calm, calls, meddling>>

(* The second rename fails: what was moved away is put back, in the place   *)
(* of whatever is there, if that can be done, and deleted if it cannot.     *)
PlaceFails(s) ==
  LET c == call[s] r == NextRole(c) IN
  /\ c.pc = "place" /\ meddling < MaxMeddling
  /\ \E f \in {c.backup, file[c.project][r]} : Put(s, r, f, Idle)
  /\ meddling' = meddling + 1
  /\ UNCHANGED <<plugin, pins, excluded, asked, calm, calls>>

Remove(s) ==
  LET c == call[s] r == NextRole(c) IN
  /\ c.pc = "work" /\ c.todo # {} /\ c.op = "remove"
  /\ \/ file[c.project][r] # Missing /\ Put(s, r, Missing, Written(c, r))
     \/ file[c.project][r] = Missing /\ Ends(s) /\ UNCHANGED file
  /\ UNCHANGED <<plugin, pins, excluded, asked, calm, calls, meddling>>

WorkDone(s) ==
  /\ call[s].pc = "work" /\ call[s].todo = {}
  /\ Go(s, IF call[s].op = "configure" THEN "read record" ELSE "after")
  /\ UNCHANGED <<plugin, file, pins, excluded, asked, calm, calls, meddling>>

(***************************************************************************)
(* The record of pins is read and written back whole, for a configuration  *)
(* only; "inherit" is the absence of a pin.                                *)
(***************************************************************************)
ReadRecord(s) ==
  /\ call[s].pc = "read record"
  /\ call' = [call EXCEPT ![s].pc = "write record", ![s].pins = pins[call[s].project]]
  /\ UNCHANGED <<plugin, file, pins, excluded, asked, calm, calls, meddling>>

(* Slips: "inherit" recorded as a pin; a record of the role in hand alone. *)
PinAlways(settings) == settings
Pin(settings) == IF settings.model = "inherit" THEN None ELSE settings
RecordAlone(c) == [[r \in Roles |-> None] EXCEPT ![c.role] = Pin(c.settings)]
Record(c) == [c.pins EXCEPT ![c.role] = Pin(c.settings)]

WriteRecord(s) ==
  LET c == call[s] IN
  /\ c.pc = "write record"
  /\ pins' = [pins EXCEPT ![c.project] = Record(c)]
  /\ asked' = [asked EXCEPT ![c.project][c.role] = Pin(c.settings)]
  /\ call' = [Disturbed EXCEPT ![s] = [c EXCEPT !.pc = "after"]]
  /\ UNCHANGED <<plugin, file, excluded, calm, calls, meddling>>

(* The profiles are looked at again, then the record.                       *)
InspectAgain(s) ==
  /\ call[s].pc = "after"
  /\ call' = [call EXCEPT ![s].pc = "after pins", ![s].records = file[call[s].project]]
  /\ UNCHANGED <<plugin, file, pins, excluded, asked, calm, calls, meddling>>

Reported(c, ps) == [c EXCEPT !.pc = "report", !.pins = ps]

ReadPinsForReport(s) ==
  LET c == call[s] IN
  /\ c.pc = "after pins"
  /\ call' = [call EXCEPT ![s] =
       [Reported(c, pins[c.project]) EXCEPT !.pc = IF c.op \in {"install", "repair"} THEN "exclude" ELSE @]]
  /\ UNCHANGED <<plugin, file, pins, excluded, asked, calm, calls, meddling>>

(* excludeManagedProfilesFromGit warns if it does not succeed.              *)
Exclude(s) ==
  LET c == call[s] IN
  /\ c.pc = "exclude"
  /\ \/ c.project \in Git /\ excluded' = excluded \cup {c.project} /\ Go(s, "report")
        /\ UNCHANGED meddling
     \/ c.project \in Git /\ meddling < MaxMeddling /\ meddling' = meddling + 1
        /\ call' = [call EXCEPT ![s].warned = TRUE, ![s].pc = "report"] /\ UNCHANGED excluded
     \/ c.project \notin Git
        /\ call' = [call EXCEPT ![s].warned = TRUE, ![s].pc = "report"] /\ UNCHANGED <<excluded, meddling>>
  /\ UNCHANGED <<plugin, file, pins, asked, calm, calls>>

(* report *)
Drift(c) == {r \in Roles : c.records[r] # Missing /\ LostPin(c, r, c.pins)}
Ready(c) == Drift(c) = {} /\ \A r \in Roles : State(c.records[r], c.template) = "current"

Answer(s) ==
  /\ call[s].pc = "report" /\ Ends(s)
  /\ UNCHANGED <<plugin, file, pins, excluded, asked, calm, calls, meddling>>

(***************************************************************************)
(* What else happens: a server is killed in a call; the host rewrites a    *)
(* profile from its template; the user changes its text or its settings,   *)
(* puts a file of another kind there, or deletes it; an upgrade.           *)
(***************************************************************************)
Crash(s) ==
  /\ Busy(s) /\ Ends(s)
  /\ meddling < MaxMeddling /\ meddling' = meddling + 1
  /\ UNCHANGED <<plugin, file, pins, excluded, asked, calm, calls>>

Rewritten(f) ==
  {Missing, Foreign} \cup
    (IF IsManaged(f)
     THEN {Profile(plugin, Default), Profile(0, f.settings), Profile(f.template, None)}
          \cup {Profile(f.template, s) : s \in Settings}
     ELSE {})

Meddle ==
  \E p \in Projects, r \in Roles : \E f \in Rewritten(file[p][r]) \ {file[p][r]} :
    /\ meddling < MaxMeddling /\ meddling' = meddling + 1
    /\ file' = [file EXCEPT ![p][r] = f]
    /\ call' = Disturbed
    /\ UNCHANGED <<plugin, pins, excluded, asked, calm, calls>>

Upgrade ==
  \E v \in Versions :
    /\ v > plugin /\ plugin' = v
    /\ meddling < MaxMeddling /\ meddling' = meddling + 1
    /\ UNCHANGED <<file, pins, excluded, call, asked, calm, calls>>

Step(s) ==
  \/ Begin(s) \/ ReadPinsForRepair(s)
  \/ PlaceNew(s) \/ MoveAway(s) \/ Place(s) \/ Remove(s) \/ WorkDone(s)
  \/ ReadRecord(s) \/ WriteRecord(s)
  \/ InspectAgain(s) \/ ReadPinsForReport(s) \/ Exclude(s) \/ Answer(s)

Next ==
  \/ \E s \in Servers : Step(s) \/ PlaceFails(s) \/ Crash(s)
  \/ Meddle \/ Upgrade

Spec == Init /\ [][Next]_vars

(***************************************************************************)
(* Properties.                                                             *)
(***************************************************************************)
(* A pin is a supported choice of a model other than "inherit", a profile   *)
(* is a file of one of the known kinds, and a call that writes has a role   *)
(* in hand.                                                                 *)
TypeOK ==
  /\ plugin \in Versions /\ excluded \subseteq Git
  /\ file \in [Projects -> [Roles -> Files]]
  /\ \A p \in Projects, r \in Roles : pins[p][r] \in {None} \cup {s \in Supported : s.model # "inherit"}
  /\ calls \in 0 .. MaxCalls /\ meddling \in 0 .. MaxMeddling
  /\ \A s \in Servers : call[s].todo \subseteq Roles /\ (call[s].pc = "place" => call[s].todo # {})

(* A report of a call that ran alone.                                       *)
Reports(s) == call[s].pc = "report" /\ ~call[s].disturbed

(* A pin is not lost quietly (role-profiles.ts 45-64).  What was asked for  *)
(* is on record until it is asked for otherwise, through crashes of a call  *)
(* at any step, repairs, removals and whatever happens to the profiles, as  *)
(* long as configurations do not overlap; and every report names each role  *)
(* whose profile would be dispatched on another model, and is not ready.    *)
PinsAreNotLostQuietly ==
  calm =>
    /\ pins = asked
    /\ \A s \in Servers : Reports(s) =>
         \A r \in Roles : LET f == file[call[s].project][r] a == asked[call[s].project][r] IN
           a # None /\ f # Missing /\ (IsManaged(f) => f.settings = None \/ f.settings.model # a.model)
             => r \in Drift(call[s]) /\ ~Ready(call[s])

(* A repair leaves the project ready (role-profiles.ts 140-169): every      *)
(* profile is there and follows the template, a pinned role carries its     *)
(* model again, whether it was damaged or rewritten intact from the         *)
(* template, and the profiles are kept out of the project's changes or the  *)
(* report warns that they are not.                                          *)
RepairMakesReady ==
  \A s \in Servers : LET c == call[s] IN
    Reports(s) /\ c.op = "repair" =>
      /\ Ready(c)
      /\ \A r \in Roles :
           /\ State(file[c.project][r], c.template) = "current"
           /\ calm /\ asked[c.project][r] # None =>
                file[c.project][r].settings.model = asked[c.project][r].model
      /\ c.project \in excluded \/ c.warned
=============================================================================
