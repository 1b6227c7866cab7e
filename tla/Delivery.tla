------------------------------ MODULE Delivery ------------------------------
(***************************************************************************)
(* candidate::promote_bound: the approved bytes of a candidate replace the *)
(* base version of its files in the user's project, all of them or none,   *)
(* while the user may edit the same files and the daemon may die between   *)
(* any two file operations.                                                *)
(*                                                                         *)
(* A path holds the base version, the approved version, bytes the user     *)
(* wrote, or nothing.  Next to each path the delivery keeps an incoming    *)
(* copy, a backup and a copy of a concurrent edit; their names carry the   *)
(* nonce of the journal.  The journal and the committed marker are files   *)
(* of the git directory, the reservation and the digest of its journal are *)
(* a row of the store.                                                     *)
(***************************************************************************)
EXTENDS Integers, FiniteSets

CONSTANTS
  Modified, Added, Deleted,  \* the files of the manifest, by kind: 1 .. N
  UserBytes,                 \* contents the user may write
  Digests,                   \* digests of journals (each has a fresh nonce)
  MaxEdits, MaxCrashes, MaxErrors

Files == Modified \cup Added \cup Deleted
N == Cardinality(Files)

ASSUME FilesAssumption == N \in Nat /\ Files = 1 .. N /\ N > 0
ASSUME KindsAssumption ==
  Modified \cap Added = {} /\ Modified \cap Deleted = {} /\ Added \cap Deleted = {}
ASSUME BoundsAssumption ==
  /\ MaxEdits \in Nat /\ MaxCrashes \in Nat /\ MaxErrors \in Nat
  /\ Cardinality(UserBytes) >= MaxEdits

VARIABLES
  path, backup, incoming, concurrent,  \* the files and what is kept next to them
  kept,        \* concurrent edits kept under the names of earlier journals
  journal,     \* digest of the journal on disk
  marker,      \* the committed marker exists
  reserved,    \* the delivery reservation, and
  bound,       \* the digest bound to it
  completed,   \* the workflow is Completed
  pc,          \* what the promotion does next, for which file
  owed,        \* bytes the user wrote and has not himself replaced
  raced,       \* those written between a check of their path and what it guards
  touched,     \* files the user has edited
  edits, crashes, errors

project == <<path, backup, incoming, concurrent, kept>>
records == <<journal, marker>>
row == <<reserved, bound, completed>>
user == <<owed, raced, touched, edits>>
faults == <<crashes, errors>>
vars == <<project, records, row, pc, user, faults>>

None == "None"
Payload == "payload"   \* delivery_payload_digest, bound when there is no journal

ASSUME ContentsAssumption ==
  {None, "base", "approved"} \cap UserBytes = {} /\ {None, Payload} \cap Digests = {}

Before(f) == IF f \in Added THEN None ELSE "base"
After(f) == IF f \in Deleted THEN None ELSE "approved"
Nothing == [f \in Files |-> None]

(* Slip: the digests of the files that are there are not compared. *)
PromotedByName == \A f \in Files : (path[f] = None) <=> (After(f) = None)

(* verify_promoted_fs and validate_preimage. *)
Promoted == \A f \in Files : path[f] = After(f)
AtBase == \A f \in Files : path[f] = Before(f)

Idle == [at |-> "idle", f |-> 1, why |-> None, expected |-> None, digest |-> None]

Init ==
  /\ path = [f \in Files |-> Before(f)]
  /\ backup = Nothing /\ incoming = Nothing /\ concurrent = Nothing /\ kept = {}
  /\ journal = None /\ marker = FALSE
  /\ reserved = FALSE /\ bound = None /\ completed = FALSE
  /\ pc = Idle
  /\ owed = {} /\ raced = {} /\ touched = {} /\ edits = 0 /\ crashes = 0 /\ errors = 0

(***************************************************************************)
(* Control.  `why` says what follows a cleanup or a rollback: the rest of  *)
(* the promotion (recover), the delivery (commit) or the error (abort).    *)
(***************************************************************************)
At(place) == pc.at = place
Goto(place) == pc' = [pc EXCEPT !.at = place, !.f = 1]
Stay(place) == pc' = [pc EXCEPT !.at = place]
Fail == Goto("failed")
Rollback(why) == pc' = [pc EXCEPT !.at = "undo", !.f = 1, !.why = why]

(* Slip: one file too many. *)
NextFilePastEnd(place, after) ==
  IF pc.f > N THEN Goto(after) ELSE pc' = [pc EXCEPT !.at = place, !.f = @ + 1]

NextFile(place, after) ==
  IF pc.f = N THEN Goto(after) ELSE pc' = [pc EXCEPT !.at = place, !.f = @ + 1]

(* PromoteCandidate reserves the delivery, then recovers what an earlier   *)
(* attempt left.                                                           *)
BeginPromotion ==
  /\ At("idle")
  /\ reserved' = TRUE
  /\ pc' = [Idle EXCEPT !.at = "recover", !.expected = bound]
  /\ UNCHANGED <<project, records, bound, completed, user, faults>>

(* Slip: a marker is believed without looking at the files. *)
RecoverBelievingMarker ==
  /\ At("recover")
  /\ IF journal = None THEN marker' = FALSE /\ Goto("compare")
     ELSE /\ UNCHANGED marker
          /\ IF marker THEN pc' = [pc EXCEPT !.at = "clean", !.why = "commit"]
             ELSE Rollback("recover")
  /\ UNCHANGED <<project, journal, row, user, faults>>

(* recover_delivery_bound. *)
Recover ==
  /\ At("recover")
  /\ \/ /\ journal = None /\ (marker => Promoted)
        /\ marker' = FALSE /\ Goto("compare")
     \/ /\ journal # None /\ journal = pc.expected /\ marker /\ Promoted
        /\ pc' = [pc EXCEPT !.at = "clean", !.why = "recover"] /\ UNCHANGED marker
     \/ /\ journal # None /\ journal = pc.expected /\ ~marker
        /\ Rollback("recover") /\ UNCHANGED marker
     \/ /\ (marker /\ ~Promoted) \/ (journal # None /\ journal # pc.expected)
        /\ Fail /\ UNCHANGED marker
  /\ UNCHANGED <<project, journal, row, user, faults>>

(***************************************************************************)
(* apply_payload.                                                          *)
(***************************************************************************)
Bind(digest) == bound = pc.expected /\ bound' = digest

(* Already there: bind and report.  Otherwise every file must be at its    *)
(* base, and the journal is captured with a fresh nonce.                   *)
Compare ==
  /\ At("compare")
  /\ \/ /\ Promoted
        /\ LET digest == IF pc.expected = None THEN Payload ELSE pc.expected
           IN Bind(digest) /\ pc' = [pc EXCEPT !.at = "deliver", !.digest = digest]
     \/ /\ ~Promoted /\ AtBase
        /\ \E d \in Digests \ {bound} : pc' = [pc EXCEPT !.at = "bind", !.digest = d]
        /\ UNCHANGED bound
     \/ /\ (Promoted /\ bound # pc.expected) \/ (~Promoted /\ ~AtBase)
        /\ Fail /\ UNCHANGED bound
  /\ UNCHANGED <<project, records, reserved, completed, user, faults>>

(* Slip: the journal is published before its digest is bound. *)
BindLater ==
  /\ At("bind") /\ Goto("journal")
  /\ UNCHANGED <<project, records, row, user, faults>>

BindJournal ==
  /\ At("bind")
  /\ \/ Bind(pc.digest) /\ Goto("journal")
     \/ bound # pc.expected /\ Fail /\ UNCHANGED bound
  /\ UNCHANGED <<project, records, reserved, completed, user, faults>>

(* The names next to the paths are new from here on. *)
WriteJournal ==
  /\ At("journal")
  /\ journal' = pc.digest
  /\ kept' = kept \cup ({concurrent[f] : f \in Files} \ {None})
  /\ concurrent' = Nothing
  /\ Goto("recheck")
  /\ UNCHANGED <<path, backup, incoming, marker, row, user, faults>>

(* The second git_apply_check only asks whether the diff still applies. *)
Recheck ==
  /\ At("recheck")
  /\ Goto("stage") \/ (~AtBase /\ Fail)
  /\ UNCHANGED <<project, records, row, user, faults>>

(***************************************************************************)
(* apply_payload_staged: write the incoming copies, move the files aside,  *)
(* link the incoming copies in place.  An error while staging leaves the   *)
(* journal for the next attempt, a later one rolls back.  The nonce makes  *)
(* the names of the incoming copies new, so none of them exists.           *)
(***************************************************************************)
Stage ==
  /\ At("stage")
  /\ incoming' = [incoming EXCEPT ![pc.f] = After(pc.f)]
  /\ NextFile("stage", "move")
  /\ UNCHANGED <<path, backup, concurrent, kept, records, row, user, faults>>

MoveAside ==
  /\ At("move")
  /\ IF path[pc.f] = None THEN NextFile("move", "install") /\ UNCHANGED <<path, backup>>
     ELSE IF backup[pc.f] # None THEN Rollback("abort") /\ UNCHANGED <<path, backup>>
     ELSE /\ backup' = [backup EXCEPT ![pc.f] = path[pc.f]]
          /\ path' = [path EXCEPT ![pc.f] = None]
          /\ Stay("moved")
  /\ UNCHANGED <<incoming, concurrent, kept, records, row, user, faults>>

CheckMoved ==
  /\ At("moved")
  /\ IF backup[pc.f] = Before(pc.f) THEN NextFile("move", "install")
     ELSE IF path[pc.f] = None THEN Stay("putback") ELSE Rollback("abort")
  /\ UNCHANGED <<project, records, row, user, faults>>

PutBack ==
  /\ At("putback")
  /\ path' = [path EXCEPT ![pc.f] = backup[pc.f]]
  /\ backup' = [backup EXCEPT ![pc.f] = None]
  /\ Rollback("abort")
  /\ UNCHANGED <<incoming, concurrent, kept, records, row, user, faults>>

(* hard_link does not replace a file that is there. *)
Install ==
  /\ At("install")
  /\ IF pc.f \in Deleted THEN NextFile("install", "verify") /\ UNCHANGED path
     ELSE IF path[pc.f] # None THEN Rollback("abort") /\ UNCHANGED path
     ELSE path' = [path EXCEPT ![pc.f] = incoming[pc.f]] /\ Stay("linked")
  /\ UNCHANGED <<backup, incoming, concurrent, kept, records, row, user, faults>>

Unstage ==
  /\ At("linked")
  /\ incoming' = [incoming EXCEPT ![pc.f] = None]
  /\ NextFile("install", "verify")
  /\ UNCHANGED <<path, backup, concurrent, kept, records, row, user, faults>>

Verify ==
  /\ At("verify")
  /\ IF Promoted THEN Goto("commit") ELSE Rollback("abort")
  /\ UNCHANGED <<project, records, row, user, faults>>

Commit ==
  /\ At("commit")
  /\ marker' = TRUE
  /\ pc' = [pc EXCEPT !.at = "clean", !.why = "commit"]
  /\ UNCHANGED <<project, journal, row, user, faults>>

(***************************************************************************)
(* cleanup_delivery, and the end it shares with rollback_payload: first    *)
(* the journal is removed, then the marker.                                *)
(***************************************************************************)
Clean ==
  /\ At("clean")
  /\ backup' = [backup EXCEPT ![pc.f] = None]
  /\ incoming' = [incoming EXCEPT ![pc.f] = None]
  /\ NextFile("clean", "unjournal")
  /\ UNCHANGED <<path, concurrent, kept, records, row, user, faults>>

DropJournal ==
  /\ At("unjournal")
  /\ journal' = None /\ Goto("unmark")
  /\ UNCHANGED <<project, marker, row, user, faults>>

DropMarker ==
  /\ At("unmark")
  /\ marker' = FALSE
  /\ Goto(CASE pc.why = "recover" -> "compare" [] pc.why = "commit" -> "deliver"
            [] OTHER -> "failed")
  /\ UNCHANGED <<project, journal, row, user, faults>>

(***************************************************************************)
(* rollback_payload: take away what was installed, keep what somebody else *)
(* wrote, put the backups back.                                            *)
(***************************************************************************)
(* Slip: whatever is at the path is taken for the approved bytes. *)
UndoBlindly ==
  /\ At("undo")
  /\ IF path[pc.f] \in {None, Before(pc.f)} THEN NextFile("undo", "restore")
     ELSE Stay("remove")
  /\ UNCHANGED <<project, records, row, user, faults>>

Undo ==
  /\ At("undo")
  /\ IF path[pc.f] \in {None, Before(pc.f)}
     THEN /\ incoming' = [incoming EXCEPT ![pc.f] = None]
          /\ NextFile("undo", "restore") /\ UNCHANGED concurrent
     ELSE /\ UNCHANGED incoming
          /\ IF path[pc.f] = After(pc.f) THEN Stay("remove") /\ UNCHANGED concurrent
             ELSE IF concurrent[pc.f] # None THEN Fail /\ UNCHANGED concurrent
             ELSE /\ concurrent' = [concurrent EXCEPT ![pc.f] = path[pc.f]]
                  /\ Stay("remove")
  /\ UNCHANGED <<path, backup, kept, records, row, user, faults>>

Remove ==
  /\ At("remove")
  /\ IF path[pc.f] = None THEN Fail /\ UNCHANGED <<path, incoming>>
     ELSE /\ path' = [path EXCEPT ![pc.f] = None]
          /\ incoming' = [incoming EXCEPT ![pc.f] = None]
          /\ NextFile("undo", "restore")
  /\ UNCHANGED <<backup, concurrent, kept, records, row, user, faults>>

Restore ==
  /\ At("restore")
  /\ IF backup[pc.f] = None THEN NextFile("restore", "unjournal") /\ UNCHANGED path
     ELSE /\ path' = IF path[pc.f] = None THEN [path EXCEPT ![pc.f] = backup[pc.f]] ELSE path
          /\ IF backup[pc.f] = Before(pc.f) /\ path[pc.f] \in {None, Before(pc.f)}
             THEN Stay("unback") ELSE Fail
  /\ UNCHANGED <<backup, incoming, concurrent, kept, records, row, user, faults>>

DropBackup ==
  /\ At("unback")
  /\ backup' = [backup EXCEPT ![pc.f] = None]
  /\ NextFile("restore", "unjournal")
  /\ UNCHANGED <<path, incoming, concurrent, kept, records, row, user, faults>>

(***************************************************************************)
(* The outcome: delivered, or failed with the reservation kept exactly     *)
(* when a later attempt has something to recover.                          *)
(***************************************************************************)
RecoveryRequired == journal # None \/ marker

KeepReservation == RecoveryRequired

Failed ==
  /\ At("failed")
  /\ IF KeepReservation THEN UNCHANGED <<reserved, bound>>
     ELSE reserved' = FALSE /\ bound' = None
  /\ pc' = Idle
  /\ UNCHANGED <<project, records, completed, user, faults>>

Deliver ==
  /\ At("deliver")
  /\ IF bound = pc.digest
     THEN completed' = TRUE /\ reserved' = FALSE /\ bound' = None ELSE UNCHANGED row
  /\ pc' = Idle
  /\ UNCHANGED <<project, records, user, faults>>

(***************************************************************************)
(* Faults and the user.                                                    *)
(***************************************************************************)
Crash ==
  /\ ~At("idle") /\ crashes < MaxCrashes /\ crashes' = crashes + 1
  /\ pc' = Idle
  /\ UNCHANGED <<project, records, row, user, errors>>

RolledBackOnError == {"move", "moved", "putback", "install", "linked", "verify", "commit"}

(* A file operation fails.  The marker may exist although writing it       *)
(* failed (sync_all after create_new).                                     *)
IoFails ==
  /\ ~At("idle") /\ errors < MaxErrors /\ errors' = errors + 1
  /\ IF At("failed") \/ At("deliver") THEN pc' = Idle
     ELSE IF pc.at \in RolledBackOnError THEN Rollback("abort") ELSE Fail
  /\ \/ UNCHANGED marker
     \/ At("commit") /\ marker' = TRUE
  /\ UNCHANGED <<project, journal, row, user, crashes>>

(* Between a check of a path and the operation that relies on it.          *)
CheckedPlaces == {"putback", "remove"}
InWindow(f) == pc.at \in CheckedPlaces /\ pc.f = f

Copies == {path[f] : f \in Files} \cup {backup[f] : f \in Files}
            \cup {concurrent[f] : f \in Files} \cup kept

(* The user writes, removes or restores a file. *)
UserEdits(f, new) ==
  /\ edits < MaxEdits /\ edits' = edits + 1
  /\ path[f] # new /\ path' = [path EXCEPT ![f] = new]
  /\ owed' = (owed \ {path[f]}) \cup ({new} \cap UserBytes)
  /\ raced' = (raced \ {new}) \cup (IF InWindow(f) THEN {new} \cap UserBytes ELSE {})
  /\ touched' = touched \cup {f}
  /\ UNCHANGED <<backup, incoming, concurrent, kept, records, row, pc, faults>>

Promote ==
  \/ Recover \/ Compare \/ BindJournal \/ WriteJournal \/ Recheck
  \/ Stage \/ MoveAside \/ CheckMoved \/ PutBack \/ Install \/ Unstage \/ Verify \/ Commit
  \/ Clean \/ DropJournal \/ DropMarker
  \/ Undo \/ Remove \/ Restore \/ DropBackup
  \/ Failed \/ Deliver

UserActs ==
  \E f \in Files : \E new \in (UserBytes \ (Copies \cup owed)) \cup {None, Before(f)} :
    UserEdits(f, new)

Next == BeginPromotion \/ Promote \/ Crash \/ IoFails \/ UserActs

Spec == Init /\ [][Next]_vars

(***************************************************************************)
(* Properties.                                                             *)
(***************************************************************************)
Untouched == Files \ touched
Contents == {"base", "approved"} \cup UserBytes
Places == {"idle", "recover", "compare", "bind", "journal", "recheck", "stage", "move",
           "moved", "putback", "install", "linked", "verify", "commit", "clean",
           "unjournal", "unmark", "undo", "remove", "restore", "unback", "failed", "deliver"}

TypeOK ==
  /\ \A copy \in {path, backup, incoming, concurrent} : copy \in [Files -> Contents \cup {None}]
  /\ kept \subseteq UserBytes /\ owed \subseteq UserBytes /\ raced \subseteq UserBytes
  /\ touched \subseteq Files
  /\ journal \in Digests \cup {None} /\ bound \in Digests \cup {Payload, None}
  /\ {marker, reserved, completed} \subseteq BOOLEAN
  /\ pc \in [at : Places, f : Files, why : {None, "recover", "commit", "abort"},
             expected : Digests \cup {Payload, None}, digest : Digests \cup {Payload, None}]
  /\ edits \in 0 .. MaxEdits /\ crashes \in 0 .. MaxCrashes /\ errors \in 0 .. MaxErrors

(* Whatever the user writes to a file of the candidate, before, during or  *)
(* after a promotion that is interrupted and rolled back at any point, is  *)
(* still at a path or kept next to one, by preserve_concurrent, the        *)
(* comparison of what was moved aside and hard_link, unless he writes it   *)
(* between a check of that very path and the rename or removal the check   *)
(* guards (candidate.rs 684-688, 805-806, 1210-1217).  Those two windows   *)
(* are the only way to lose an edit; that they do is DeliveryClaims.       *)
NoUserBytesLost == owed \ raced \subseteq Copies

(* All or nothing, through crashes, failing operations and edits           *)
(* (apply_payload_staged, rollback_payload and cleanup_delivery together). *)
(* When nothing is left to recover, the files the user left alone are all  *)
(* at their base or all at their approved version.  As long as a journal   *)
(* without marker may have to be rolled back, the base version of each of  *)
(* them is at its path or in its backup.  What a crash leaves in the git   *)
(* directory is covered by a reservation, which keeps every other command  *)
(* off the workflow, and a journal on disk is the one whose digest is      *)
(* bound, without which recover_delivery_bound refuses it for ever.        *)
(* Backups and incoming copies do not outlive the journal that names them. *)
AllOrNothing ==
  /\ At("idle") /\ ~RecoveryRequired =>
       \/ \A f \in Untouched : path[f] = Before(f)
       \/ \A f \in Untouched : path[f] = After(f)
  /\ journal # None /\ ~marker =>
       \A f \in Untouched \ Added : "base" \in {path[f], backup[f]}
  /\ RecoveryRequired => reserved
  /\ journal # None => bound = journal
  /\ journal = None => backup = Nothing /\ incoming = Nothing

(* The workflow is completed in the store only by a promotion after which  *)
(* every file the user left alone has its approved version.                *)
CompletedWasDelivered ==
  [][completed' /\ ~completed => \A f \in Untouched : path[f] = After(f)]_vars

(* Crashes, at any operation and any number of times, also while an        *)
(* earlier crash is recovered from, never make a delivery impossible: a    *)
(* promotion that runs to its end, without an edit of the user or a        *)
(* failing operation, ends delivered, with nothing left next to the files, *)
(* in the git directory or in the store (recover_delivery_bound and        *)
(* apply_payload_staged).                                                  *)
CrashesAreRecovered ==
  [][ ~At("idle") /\ pc'.at = "idle" /\ crashes' = crashes /\ edits = 0 /\ errors' = 0 =>
        /\ completed' /\ ~reserved' /\ bound' = None
        /\ journal' = None /\ ~marker' /\ backup' = Nothing /\ incoming' = Nothing
        /\ \A f \in Files : path'[f] = After(f) ]_vars

=============================================================================
