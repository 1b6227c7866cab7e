---------------------------- MODULE DeliveryProofs ----------------------------
(***************************************************************************)
(* Proofs about the delivery, for any number of files of every kind, any   *)
(* contents the user may write, and any number of edits, crashes and       *)
(* failing operations.                                                     *)
(*                                                                         *)
(* The argument.  What is on disk and in the store is known at every place *)
(* of an attempt (RecordsFit), and so is which copies exist next to a      *)
(* path, whatever the user does (CopiesFit).  A file the user has left     *)
(* alone can be put back to its base version as long as a journal without  *)
(* marker is there (Recoverable), and where it stands follows from the     *)
(* place and the file the attempt is at (FileFits).  So when the journal   *)
(* goes, all such files are at their base or all approved (AllOrNone).     *)
(* None of this needs the user to keep off.  His bytes are kept            *)
(* (BytesAreKept) because what a rename or a removal is about to replace   *)
(* is none of them, or kept next to the path, or was written after the     *)
(* check.                                                                  *)
(***************************************************************************)
EXTENDS Delivery, TLAPS

(***************************************************************************)
(* The inductive invariant.                                                *)
(***************************************************************************)
Texts(f) == {None, Before(f), After(f)} \cup UserBytes
FileMap == [Files -> Contents \cup {None}]
PcType ==
  [at : Places, f : Files, why : {None, "recover", "commit", "abort"},
   expected : Digests \cup {Payload, None}, digest : Digests \cup {Payload, None}]

StateOK ==
  /\ path \in FileMap /\ backup \in FileMap /\ incoming \in FileMap /\ concurrent \in FileMap
  /\ \A f \in Files : /\ path[f] \in Texts(f) /\ backup[f] \in Texts(f)
                      /\ incoming[f] \in {None, After(f)}
                      /\ concurrent[f] \in UserBytes \cup {None}
  /\ kept \subseteq UserBytes /\ owed \subseteq UserBytes /\ raced \subseteq UserBytes
  /\ touched \subseteq Files
  /\ journal \in Digests \cup {None} /\ bound \in Digests \cup {Payload, None}
  /\ marker \in BOOLEAN /\ reserved \in BOOLEAN /\ completed \in BOOLEAN
  /\ pc \in PcType
  /\ edits \in 0 .. MaxEdits /\ crashes \in 0 .. MaxCrashes /\ errors \in 0 .. MaxErrors

(* The places of an attempt, by what is on disk. *)
Preparing == {"compare", "bind", "journal", "deliver"}
Applying == {"recheck", "stage", "move", "moved", "putback", "install", "linked", "verify",
             "commit"}
Undoing == {"undo", "remove", "restore", "unback"}

RecordsFit ==
  /\ ~At("idle") \/ journal # None \/ marker => reserved
  /\ journal # None => bound = journal
  /\ pc.at \in Preparing => journal = None /\ ~marker
  /\ At("unmark") => journal = None
  /\ pc.at \in Applying => journal # None /\ ~marker
  /\ pc.at \in Undoing \cup {"clean", "unjournal"} => journal # None
  /\ At("clean") => marker
  /\ At("recover") \/ At("commit") => pc.f = 1
  /\ pc.at \in Undoing => pc.why \in {"recover", "abort"}
  /\ pc.at \in {"bind", "journal"} => pc.digest \in Digests
  /\ At("journal") => bound = pc.digest

(* The files the delivery keeps next to a path, whatever the user does.    *)
Staged(f) ==
  \/ At("stage") /\ f < pc.f
  \/ At("move") \/ At("moved")
  \/ At("install") /\ f >= pc.f
  \/ At("linked") /\ f > pc.f

NothingStaged(f) ==
  \/ (At("undo") \/ At("remove") \/ At("clean")) /\ f < pc.f
  \/ At("restore") \/ At("unback") \/ At("unjournal")
  \/ journal = None

NoBackup(f) ==
  \/ At("recheck") \/ At("stage")
  \/ At("move") /\ f >= pc.f
  \/ (At("moved") \/ At("putback")) /\ f > pc.f
  \/ (At("clean") \/ At("restore") \/ At("unback")) /\ f < pc.f
  \/ At("unjournal")
  \/ journal = None

BackupCompared(f) ==
  \/ At("move")
  \/ At("moved") /\ f < pc.f
  \/ At("install") \/ At("linked") \/ At("verify") \/ At("commit")
  \/ marker
  \/ At("unback") /\ f = pc.f

CopiesFit(f) ==
  /\ Staged(f) => incoming[f] = After(f)
  /\ NothingStaged(f) => incoming[f] = None
  /\ NoBackup(f) => backup[f] = None
  /\ BackupCompared(f) => backup[f] \in {None, Before(f)}

(* A file the user has left alone can be put back to its base version. *)
Recoverable(f) ==
  /\ path[f] \in {None, Before(f), After(f)}
  /\ backup[f] \in {None, Before(f)}
  /\ Before(f) \in {path[f], backup[f]}

(* Where such a file stands. *)
NotYetMoved(f) ==
  \/ At("bind") \/ At("journal") \/ At("recheck") \/ At("stage")
  \/ At("move") /\ f >= pc.f
  \/ At("moved") /\ f > pc.f

PutBackAgain(f) ==
  \/ (At("restore") \/ At("unback")) /\ f < pc.f
  \/ At("unback") /\ f = pc.f

TakenAway(f) ==
  \/ (At("undo") \/ At("remove")) /\ f < pc.f
  \/ At("restore") \/ At("unback")

FileFits(f) ==
  /\ journal # None /\ (~marker \/ pc.at \in Undoing) => Recoverable(f)
  /\ NotYetMoved(f) \/ PutBackAgain(f) => path[f] = Before(f)
  /\ At("putback") => f # pc.f
  /\ At("remove") /\ f = pc.f => path[f] = After(f)
  /\ At("commit") \/ At("clean") \/ At("deliver") => path[f] = After(f)
  /\ TakenAway(f) => path[f] \in {None, Before(f)}

UntouchedAtBase == \A f \in Untouched : path[f] = Before(f)
UntouchedApproved == \A f \in Untouched : path[f] = After(f)

AllOrNone ==
  /\ journal = None => UntouchedAtBase \/ UntouchedApproved
  /\ At("unjournal") => UntouchedAtBase \/ (marker /\ UntouchedApproved)
  /\ (At("unjournal") \/ At("unmark")) /\ pc.why = "commit" => UntouchedApproved

IInv ==
  /\ StateOK /\ RecordsFit /\ AllOrNone
  /\ \A f \in Files : CopiesFit(f)
  /\ \A f \in Untouched : FileFits(f)

(* What keeps the user's bytes: what a rename or a removal is about to     *)
(* replace is no edit of his, or kept next to the path, or was written     *)
(* after the check.                                                        *)
Owed == owed \ raced
BytesAreKept ==
  /\ Owed \subseteq Copies
  /\ At("putback") => path[pc.f] \notin Owed
  /\ At("remove") => path[pc.f] \notin Owed \/ path[pc.f] = concurrent[pc.f]

LEMMA Constants ==
  /\ N \in Nat /\ N >= 1 /\ Files = 1 .. N /\ 1 \in Files /\ N \in Files
  /\ \A f \in Files : /\ Before(f) # After(f)
                      /\ Before(f) \in {None, "base"} /\ After(f) \in {None, "approved"}
                      /\ (Before(f) = "base") <=> (f \notin Added)
  /\ None # "base" /\ None # "approved" /\ "base" # "approved"
  /\ None \notin UserBytes /\ "base" \notin UserBytes /\ "approved" \notin UserBytes
  /\ None \notin Digests /\ Payload \notin Digests /\ Payload # None
  /\ MaxEdits \in Nat /\ MaxCrashes \in Nat /\ MaxErrors \in Nat
<1>1. N \in Nat /\ N >= 1 /\ Files = 1 .. N /\ 1 \in Files /\ N \in Files
  BY FilesAssumption
<1>2. \A f \in Files : /\ Before(f) # After(f)
                       /\ Before(f) \in {None, "base"} /\ After(f) \in {None, "approved"}
                       /\ (Before(f) = "base") <=> (f \notin Added)
  BY KindsAssumption DEF Before, After, Files, None
<1>3. QED
  BY <1>1, <1>2, ContentsAssumption, BoundsAssumption DEF None, Payload

(***************************************************************************)
(* Where an action leaves the promotion.                                   *)
(***************************************************************************)
SameCourse ==
  pc'.why = pc.why /\ pc'.expected = pc.expected /\ pc'.digest = pc.digest

LEMMA Starts ==
  ASSUME pc \in PcType, NEW place \in Places, Goto(place)
  PROVE  pc' \in PcType /\ pc'.at = place /\ pc'.f = 1 /\ SameCourse
BY Constants DEF Goto, PcType, SameCourse

LEMMA Stays ==
  ASSUME pc \in PcType, NEW place \in Places, Stay(place)
  PROVE  pc' \in PcType /\ pc'.at = place /\ pc'.f = pc.f /\ SameCourse
BY DEF Stay, PcType, SameCourse

LEMMA RollsBack ==
  ASSUME pc \in PcType, NEW why \in {"recover", "abort"}, Rollback(why)
  PROVE  /\ pc' \in PcType /\ pc'.at = "undo" /\ pc'.f = 1 /\ pc'.why = why
         /\ pc'.expected = pc.expected /\ pc'.digest = pc.digest
BY Constants DEF Rollback, PcType, Places

LEMMA GoesOn ==
  ASSUME pc \in PcType, NEW place \in Places, NEW after \in Places, NextFile(place, after)
  PROVE  /\ pc' \in PcType /\ SameCourse
         /\ \/ pc.f = N /\ pc'.at = after /\ pc'.f = 1
            \/ pc.f < N /\ pc'.at = place /\ pc'.f = pc.f + 1
<1>1. pc.f \in 1 .. N
  BY Constants DEF PcType
<1>2. CASE pc.f = N
  BY <1>2, Starts DEF NextFile
<1>3. CASE pc.f # N
  <2>1. pc' = [pc EXCEPT !.at = place, !.f = pc.f + 1] /\ pc.f < N
    BY <1>1, <1>3, Constants DEF NextFile, PcType
  <2>2. pc.f + 1 \in Files
    BY <1>1, <2>1, Constants
  <2>3. QED
    BY <2>1, <2>2 DEF PcType, SameCourse
<1>4. QED
  BY <1>2, <1>3

LEMMA IdleIsAPlace ==
  /\ Idle \in PcType /\ Idle.at = "idle" /\ Idle.f = 1
  /\ \A e \in Digests \cup {Payload, None} :
       LET begun == [Idle EXCEPT !.at = "recover", !.expected = e]
       IN begun \in PcType /\ begun.at = "recover" /\ begun.f = 1 /\ begun.expected = e
BY Constants DEF Idle, PcType, Places, None

LEMMA InitEstablishes == Init => IInv
<1> SUFFICES ASSUME Init PROVE IInv
  OBVIOUS
<1>1. StateOK
  <2>1. path \in FileMap
    BY Constants DEF Init, FileMap, Contents
  <2>2. Nothing \in FileMap /\ \A f \in Files : Nothing[f] = None
    BY DEF Nothing, FileMap
  <2>3. \A f \in Files : path[f] = Before(f)
    BY DEF Init
  <2>4. \A f \in Files : /\ path[f] \in Texts(f) /\ backup[f] \in Texts(f)
                          /\ incoming[f] \in {None, After(f)}
                          /\ concurrent[f] \in UserBytes \cup {None}
    BY <2>2, <2>3 DEF Init, Texts
  <2>5. /\ edits \in 0 .. MaxEdits /\ crashes \in 0 .. MaxCrashes /\ errors \in 0 .. MaxErrors
        /\ marker \in BOOLEAN /\ reserved \in BOOLEAN /\ completed \in BOOLEAN
    <3>1. edits = 0 /\ crashes = 0 /\ errors = 0
      BY DEF Init
    <3>2. marker \in BOOLEAN /\ reserved \in BOOLEAN /\ completed \in BOOLEAN
      BY Zenon DEF Init
    <3>3. QED
      BY ONLY <3>1, <3>2, BoundsAssumption
  <2>6. pc \in PcType
    BY IdleIsAPlace DEF Init
  <2>7. QED
    BY <2>1, <2>2, <2>4, <2>5, <2>6 DEF Init, StateOK
<1>2. RecordsFit /\ AllOrNone
  BY IdleIsAPlace
  DEF Init, RecordsFit, AllOrNone, UntouchedAtBase, Untouched, At, Preparing, Applying, Undoing
<1>3. \A f \in Files : CopiesFit(f)
  BY IdleIsAPlace
  DEF Init, CopiesFit, Staged, NothingStaged, NoBackup, BackupCompared, Nothing, At
<1>4. \A f \in Untouched : FileFits(f)
  BY IdleIsAPlace DEF Init, FileFits, NotYetMoved, PutBackAgain, TakenAway, Untouched, At
<1>5. QED
  BY <1>1, <1>2, <1>3, <1>4 DEF IInv

(***************************************************************************)
(* The steps of a promotion.                                               *)
(***************************************************************************)
LEMMA Maps ==
  ASSUME NEW m \in FileMap, NEW g \in Files, NEW x \in Contents \cup {None}
  PROVE  /\ [m EXCEPT ![g] = x] \in FileMap
         /\ \A f \in Files : [m EXCEPT ![g] = x][f] = IF f = g THEN x ELSE m[f]
BY DEF FileMap

LEMMA Facts ==
  ASSUME IInv
  PROVE  /\ pc \in PcType /\ pc.f \in Files /\ pc.f \in Nat /\ pc.at \in Places
         /\ path \in FileMap /\ backup \in FileMap /\ incoming \in FileMap
         /\ concurrent \in FileMap
         /\ \A f \in Files : /\ path[f] \in Texts(f) /\ backup[f] \in Texts(f)
                             /\ incoming[f] \in {None, After(f)}
                             /\ concurrent[f] \in UserBytes \cup {None}
                             /\ {path[f], backup[f], incoming[f], concurrent[f]}
                                  \subseteq Contents \cup {None}
         /\ Untouched \subseteq Files
<1>1. StateOK
  BY DEF IInv
<1>2. pc.f \in Files /\ pc.f \in Nat /\ pc.at \in Places
  BY <1>1, Constants DEF StateOK, PcType
<1>3. \A f \in Files :
        {path[f], backup[f], incoming[f], concurrent[f]} \subseteq Contents \cup {None}
  BY <1>1 DEF StateOK, FileMap
<1>4. QED
  BY <1>1, <1>2, <1>3 DEF StateOK, Untouched

LEMMA StageStep == IInv /\ Stage => IInv'
<1> SUFFICES ASSUME IInv, Stage PROVE IInv'
  OBVIOUS
<1> DEFINE g == pc.f
<1>a. RecordsFit /\ AllOrNone /\ StateOK
  BY DEF IInv
<1>b. (\A f \in Files : CopiesFit(f)) /\ (\A f \in Untouched : FileFits(f))
  BY DEF IInv
<1>c. /\ pc.at = "stage"
      /\ pc' \in PcType
      /\ SameCourse
      /\ \/ (pc.f = N /\ pc'.at = "move" /\ pc'.f = 1)
         \/ (pc.f < N /\ pc'.at = "stage" /\ pc'.f = pc.f + 1)
  BY Facts, GoesOn DEF Stage, At, Places
<1>d. UNCHANGED <<path, backup, concurrent, kept, journal, marker, reserved, bound, completed,
                  owed, raced, touched, edits, crashes, errors>>
  BY DEF Stage, project, records, row, user, faults
<1>m1. /\ incoming' \in FileMap
       /\ \A f \in Files : incoming'[f] = IF f = g THEN After(g) ELSE incoming[f]
  <2>1. incoming' = [incoming EXCEPT ![g] = After(g)]
    BY DEF Stage
  <2>2. incoming \in FileMap /\ g \in Files /\ After(g) \in Contents \cup {None}
    BY Facts, Constants DEF Contents
  <2>3. QED
    BY <2>1, <2>2 DEF FileMap
<1>1. StateOK'
  BY <1>a, <1>b, <1>c, <1>d, <1>m1, Facts, Constants
  DEF StateOK, Texts
<1>2. RecordsFit'
  BY <1>a, <1>b, <1>c, <1>d, <1>m1, Facts, Constants
  DEF RecordsFit, At, Preparing, Applying, Undoing, SameCourse
<1>3. AllOrNone'
  BY <1>a, <1>b, <1>c, <1>d, <1>m1, Facts, Constants
  DEF AllOrNone, UntouchedAtBase, UntouchedApproved, Untouched, At, SameCourse, FileFits,
      NotYetMoved, PutBackAgain, TakenAway, RecordsFit, Recoverable, Preparing, Applying,
      Undoing
<1>4. \A f \in Files : CopiesFit(f)'
  BY <1>a, <1>b, <1>c, <1>d, <1>m1, Facts, Constants
  DEF CopiesFit, Staged, NothingStaged, NoBackup, BackupCompared, At, RecordsFit, Preparing,
      Applying, Undoing
<1>5. \A f \in Untouched' : FileFits(f)'
  BY <1>a, <1>b, <1>c, <1>d, <1>m1, Facts, Constants
  DEF FileFits, NotYetMoved, PutBackAgain, TakenAway, CopiesFit, Staged, NothingStaged,
      NoBackup, BackupCompared, Recoverable, Untouched, At, RecordsFit, Preparing, Applying,
      Undoing
<1>6. QED
  BY <1>1, <1>2, <1>3, <1>4, <1>5 DEF IInv

LEMMA UnstageStep == IInv /\ Unstage => IInv'
<1> SUFFICES ASSUME IInv, Unstage PROVE IInv'
  OBVIOUS
<1> DEFINE g == pc.f
<1>a. RecordsFit /\ AllOrNone /\ StateOK
  BY DEF IInv
<1>b. (\A f \in Files : CopiesFit(f)) /\ (\A f \in Untouched : FileFits(f))
  BY DEF IInv
<1>c. /\ pc.at = "linked"
      /\ pc' \in PcType
      /\ SameCourse
      /\ \/ (pc.f = N /\ pc'.at = "verify" /\ pc'.f = 1)
         \/ (pc.f < N /\ pc'.at = "install" /\ pc'.f = pc.f + 1)
  BY Facts, GoesOn DEF Unstage, At, Places
<1>d. UNCHANGED <<path, backup, concurrent, kept, journal, marker, reserved, bound, completed,
                  owed, raced, touched, edits, crashes, errors>>
  BY DEF Unstage, project, records, row, user, faults
<1>m1. /\ incoming' \in FileMap
       /\ \A f \in Files : incoming'[f] = IF f = g THEN None ELSE incoming[f]
  <2>1. incoming' = [incoming EXCEPT ![g] = None]
    BY DEF Unstage
  <2>2. incoming \in FileMap /\ g \in Files /\ None \in Contents \cup {None}
    BY Facts, Constants DEF Contents
  <2>3. QED
    BY <2>1, <2>2 DEF FileMap
<1>1. StateOK'
  BY <1>a, <1>b, <1>c, <1>d, <1>m1, Facts, Constants
  DEF StateOK, Texts
<1>2. RecordsFit'
  BY <1>a, <1>b, <1>c, <1>d, <1>m1, Facts, Constants
  DEF RecordsFit, At, Preparing, Applying, Undoing, SameCourse
<1>3. AllOrNone'
  BY <1>a, <1>b, <1>c, <1>d, <1>m1, Facts, Constants
  DEF AllOrNone, UntouchedAtBase, UntouchedApproved, Untouched, At, SameCourse, FileFits,
      NotYetMoved, PutBackAgain, TakenAway, RecordsFit, Recoverable, Preparing, Applying,
      Undoing
<1>4. \A f \in Files : CopiesFit(f)'
  BY <1>a, <1>b, <1>c, <1>d, <1>m1, Facts, Constants
  DEF CopiesFit, Staged, NothingStaged, NoBackup, BackupCompared, At, RecordsFit, Preparing,
      Applying, Undoing
<1>5. \A f \in Untouched' : FileFits(f)'
  BY <1>a, <1>b, <1>c, <1>d, <1>m1, Facts, Constants
  DEF FileFits, NotYetMoved, PutBackAgain, TakenAway, CopiesFit, Staged, NothingStaged,
      NoBackup, BackupCompared, Recoverable, Untouched, At, RecordsFit, Preparing, Applying,
      Undoing
<1>6. QED
  BY <1>1, <1>2, <1>3, <1>4, <1>5 DEF IInv

LEMMA DropBackupStep == IInv /\ DropBackup => IInv'
<1> SUFFICES ASSUME IInv, DropBackup PROVE IInv'
  OBVIOUS
<1> DEFINE g == pc.f
<1>a. RecordsFit /\ AllOrNone /\ StateOK
  BY DEF IInv
<1>b. (\A f \in Files : CopiesFit(f)) /\ (\A f \in Untouched : FileFits(f))
  BY DEF IInv
<1>c. /\ pc.at = "unback"
      /\ pc' \in PcType
      /\ SameCourse
      /\ \/ (pc.f = N /\ pc'.at = "unjournal" /\ pc'.f = 1)
         \/ (pc.f < N /\ pc'.at = "restore" /\ pc'.f = pc.f + 1)
  BY Facts, GoesOn DEF DropBackup, At, Places
<1>d. UNCHANGED <<path, incoming, concurrent, kept, journal, marker, reserved, bound,
                  completed, owed, raced, touched, edits, crashes, errors>>
  BY DEF DropBackup, project, records, row, user, faults
<1>m1. backup' \in FileMap /\ \A f \in Files : backup'[f] = IF f = g THEN None ELSE backup[f]
  <2>1. backup' = [backup EXCEPT ![g] = None]
    BY DEF DropBackup
  <2>2. backup \in FileMap /\ g \in Files /\ None \in Contents \cup {None}
    BY Facts, Constants DEF Contents
  <2>3. QED
    BY <2>1, <2>2 DEF FileMap
<1>1. StateOK'
  BY <1>a, <1>b, <1>c, <1>d, <1>m1, Facts, Constants
  DEF StateOK, Texts
<1>2. RecordsFit'
  BY <1>a, <1>b, <1>c, <1>d, <1>m1, Facts, Constants
  DEF RecordsFit, At, Preparing, Applying, Undoing, SameCourse
<1>3. AllOrNone'
  <2>1. CASE pc.f < N
    BY <2>1, <1>a, <1>b, <1>c, <1>d, Facts, Constants
    DEF AllOrNone, RecordsFit, At, Undoing
  <2>2. CASE pc.f = N
    <3>1. \A f \in Untouched : f <= pc.f
      BY <2>2, Facts, Constants
    <3>2. UntouchedAtBase'
      <4>1. ASSUME NEW f \in Untouched PROVE path[f] = Before(f)
        <5>1. FileFits(f) /\ f \in Nat /\ pc.f \in Nat /\ f <= pc.f
          BY <3>1, <1>b, Facts, Constants
        <5>2. f < pc.f \/ f = pc.f
          BY <5>1
        <5>3. QED
          BY <5>1, <5>2, <1>c DEF FileFits, NotYetMoved, PutBackAgain, TakenAway, At
      <4>2. QED
        BY <4>1, <1>d DEF UntouchedAtBase, Untouched
    <3>3. pc'.why # "commit"
      BY <1>a, <1>c DEF RecordsFit, SameCourse, Undoing
    <3>4. journal' # None /\ pc'.at = "unjournal"
      BY <2>2, <1>a, <1>c, <1>d, Constants DEF RecordsFit, Undoing
    <3>5. QED
      BY <3>2, <3>3, <3>4 DEF AllOrNone, At
  <2>3. QED
    BY <2>1, <2>2, <1>c
<1>4. \A f \in Files : CopiesFit(f)'
  BY <1>a, <1>b, <1>c, <1>d, <1>m1, Facts, Constants
  DEF CopiesFit, Staged, NothingStaged, NoBackup, BackupCompared, At, RecordsFit, Preparing,
      Applying, Undoing
<1>5. \A f \in Untouched' : FileFits(f)'
  BY <1>a, <1>b, <1>c, <1>d, <1>m1, Facts, Constants
  DEF FileFits, NotYetMoved, PutBackAgain, TakenAway, CopiesFit, Staged, NothingStaged,
      NoBackup, BackupCompared, Recoverable, Untouched, At, RecordsFit, Preparing, Applying,
      Undoing
<1>6. QED
  BY <1>1, <1>2, <1>3, <1>4, <1>5 DEF IInv

LEMMA CleanStep == IInv /\ Clean => IInv'
<1> SUFFICES ASSUME IInv, Clean PROVE IInv'
  OBVIOUS
<1> DEFINE g == pc.f
<1>a. RecordsFit /\ AllOrNone /\ StateOK
  BY DEF IInv
<1>b. (\A f \in Files : CopiesFit(f)) /\ (\A f \in Untouched : FileFits(f))
  BY DEF IInv
<1>c. /\ pc.at = "clean"
      /\ pc' \in PcType
      /\ SameCourse
      /\ \/ (pc.f = N /\ pc'.at = "unjournal" /\ pc'.f = 1)
         \/ (pc.f < N /\ pc'.at = "clean" /\ pc'.f = pc.f + 1)
  BY Facts, GoesOn DEF Clean, At, Places
<1>d. UNCHANGED <<path, concurrent, kept, journal, marker, reserved, bound, completed, owed, raced,
                  touched, edits, crashes, errors>>
  BY DEF Clean, project, records, row, user, faults
<1>m1. backup' \in FileMap /\ \A f \in Files : backup'[f] = IF f = g THEN None ELSE backup[f]
  <2>1. backup' = [backup EXCEPT ![g] = None]
    BY DEF Clean
  <2>2. backup \in FileMap /\ g \in Files /\ None \in Contents \cup {None}
    BY Facts, Constants DEF Contents
  <2>3. QED
    BY <2>1, <2>2 DEF FileMap
<1>m2. /\ incoming' \in FileMap
       /\ \A f \in Files : incoming'[f] = IF f = g THEN None ELSE incoming[f]
  <2>1. incoming' = [incoming EXCEPT ![g] = None]
    BY DEF Clean
  <2>2. incoming \in FileMap /\ g \in Files /\ None \in Contents \cup {None}
    BY Facts, Constants DEF Contents
  <2>3. QED
    BY <2>1, <2>2 DEF FileMap
<1>1. StateOK'
  BY <1>a, <1>b, <1>c, <1>d, <1>m1, <1>m2, Facts, Constants
  DEF StateOK, Texts
<1>2. RecordsFit'
  BY <1>a, <1>b, <1>c, <1>d, <1>m1, <1>m2, Facts, Constants
  DEF RecordsFit, At, Preparing, Applying, Undoing, SameCourse
<1>3. AllOrNone'
  BY <1>a, <1>b, <1>c, <1>d, <1>m1, <1>m2, Facts, Constants
  DEF AllOrNone, UntouchedAtBase, UntouchedApproved, Untouched, At, SameCourse, FileFits,
      NotYetMoved, PutBackAgain, TakenAway, RecordsFit, Recoverable, Preparing, Applying,
      Undoing
<1>4. \A f \in Files : CopiesFit(f)'
  BY <1>a, <1>b, <1>c, <1>d, <1>m1, <1>m2, Facts, Constants
  DEF CopiesFit, Staged, NothingStaged, NoBackup, BackupCompared, At, RecordsFit, Preparing,
      Applying, Undoing
<1>5. \A f \in Untouched' : FileFits(f)'
  BY <1>a, <1>b, <1>c, <1>d, <1>m1, <1>m2, Facts, Constants
  DEF FileFits, NotYetMoved, PutBackAgain, TakenAway, CopiesFit, Staged, NothingStaged,
      NoBackup, BackupCompared, Recoverable, Untouched, At, RecordsFit, Preparing, Applying,
      Undoing
<1>6. QED
  BY <1>1, <1>2, <1>3, <1>4, <1>5 DEF IInv

LEMMA BeginPromotionStep == IInv /\ BeginPromotion => IInv'
<1> SUFFICES ASSUME IInv, BeginPromotion PROVE IInv'
  OBVIOUS
<1>a. RecordsFit /\ AllOrNone /\ StateOK
  BY DEF IInv
<1>b. (\A f \in Files : CopiesFit(f)) /\ (\A f \in Untouched : FileFits(f))
  BY DEF IInv
<1>c. pc.at = "idle" /\ pc' \in PcType /\ pc'.at = "recover" /\ pc'.f = 1
  BY Facts, IdleIsAPlace DEF BeginPromotion, At, IInv, StateOK
<1>d. UNCHANGED <<path, backup, incoming, concurrent, kept, journal, marker, bound, completed,
                  owed, raced, touched, edits, crashes, errors>>
  BY DEF BeginPromotion, project, records, row, user, faults
<1>m1. reserved' = TRUE
  BY DEF BeginPromotion
<1>1. StateOK'
  BY <1>a, <1>b, <1>c, <1>d, <1>m1, Facts, Constants
  DEF StateOK, Texts
<1>2. RecordsFit'
  BY <1>a, <1>b, <1>c, <1>d, <1>m1, Facts, Constants
  DEF RecordsFit, At, Preparing, Applying, Undoing, SameCourse
<1>3. AllOrNone'
  BY <1>a, <1>b, <1>c, <1>d, <1>m1, Facts, Constants
  DEF AllOrNone, UntouchedAtBase, UntouchedApproved, Untouched, At, SameCourse, FileFits,
      NotYetMoved, PutBackAgain, TakenAway, RecordsFit, Recoverable, Preparing, Applying,
      Undoing
<1>4. \A f \in Files : CopiesFit(f)'
  BY <1>a, <1>b, <1>c, <1>d, <1>m1, Facts, Constants
  DEF CopiesFit, Staged, NothingStaged, NoBackup, BackupCompared, At, RecordsFit, Preparing,
      Applying, Undoing
<1>5. \A f \in Untouched' : FileFits(f)'
  BY <1>a, <1>b, <1>c, <1>d, <1>m1, Facts, Constants
  DEF FileFits, NotYetMoved, PutBackAgain, TakenAway, CopiesFit, Staged, NothingStaged,
      NoBackup, BackupCompared, Recoverable, Untouched, At, RecordsFit, Preparing, Applying,
      Undoing
<1>6. QED
  BY <1>1, <1>2, <1>3, <1>4, <1>5 DEF IInv

LEMMA RecoverStep == IInv /\ Recover => IInv'
<1> SUFFICES ASSUME IInv, Recover PROVE IInv'
  OBVIOUS
<1>a. RecordsFit /\ AllOrNone /\ StateOK
  BY DEF IInv
<1>b. (\A f \in Files : CopiesFit(f)) /\ (\A f \in Untouched : FileFits(f))
  BY DEF IInv
<1>c. /\ pc.at = "recover" /\ pc' \in PcType /\ marker' \in BOOLEAN
      /\ \/ journal = None /\ ~marker' /\ pc'.at = "compare"
         \/ /\ journal # None /\ marker /\ marker' /\ Promoted
            /\ pc'.at = "clean" /\ pc'.f = pc.f /\ pc'.why = "recover"
         \/ /\ journal # None /\ ~marker /\ ~marker' /\ pc'.at = "undo" /\ pc'.f = 1
            /\ pc'.why = "recover"
         \/ marker' = marker /\ pc'.at = "failed"
  <2>1. CASE journal = None /\ marker' = FALSE /\ Goto("compare")
    BY <2>1, Facts, Starts DEF Recover, At, Places
  <2>2. CASE /\ journal # None /\ marker /\ Promoted
             /\ pc' = [pc EXCEPT !.at = "clean", !.why = "recover"] /\ UNCHANGED marker
    BY <2>2, <1>a, Facts DEF Recover, At, Places, PcType, StateOK
  <2>3. CASE journal # None /\ ~marker /\ Rollback("recover") /\ UNCHANGED marker
    BY <2>3, <1>a, Facts, RollsBack DEF Recover, At, StateOK
  <2>4. CASE Fail /\ UNCHANGED marker
    BY <2>4, <1>a, Facts, Starts DEF Recover, At, Fail, Places, StateOK
  <2>5. QED
    BY <2>1, <2>2, <2>3, <2>4 DEF Recover
<1>d. UNCHANGED <<path, backup, incoming, concurrent, kept, journal, reserved, bound,
                  completed, owed, raced, touched, edits, crashes, errors>>
  BY DEF Recover, project, records, row, user, faults
<1>1. StateOK'
  BY <1>a, <1>b, <1>c, <1>d, Facts, Constants
  DEF StateOK, Texts
<1>2. RecordsFit'
  BY <1>a, <1>b, <1>c, <1>d, Facts, Constants
  DEF RecordsFit, At, Preparing, Applying, Undoing, SameCourse
<1>3. AllOrNone'
  BY <1>a, <1>b, <1>c, <1>d, Facts, Constants
  DEF AllOrNone, UntouchedAtBase, UntouchedApproved, Untouched, At
<1>4. \A f \in Files : CopiesFit(f)'
  BY <1>a, <1>b, <1>c, <1>d, Facts, Constants
  DEF CopiesFit, Staged, NothingStaged, NoBackup, BackupCompared, At, RecordsFit, Preparing,
      Applying, Undoing
<1>5. \A f \in Untouched' : FileFits(f)'
  BY <1>a, <1>b, <1>c, <1>d, Facts, Constants
  DEF FileFits, NotYetMoved, PutBackAgain, TakenAway, Recoverable, Untouched, At, Promoted,
      Undoing
<1>6. QED
  BY <1>1, <1>2, <1>3, <1>4, <1>5 DEF IInv

LEMMA CompareStep == IInv /\ Compare => IInv'
<1> SUFFICES ASSUME IInv, Compare PROVE IInv'
  OBVIOUS
<1>a. RecordsFit /\ AllOrNone /\ StateOK
  BY DEF IInv
<1>b. (\A f \in Files : CopiesFit(f)) /\ (\A f \in Untouched : FileFits(f))
  BY DEF IInv
<1>c. /\ pc.at = "compare" /\ pc' \in PcType /\ bound' \in Digests \cup {Payload, None}
      /\ \/ Promoted /\ pc'.at = "deliver"
         \/ AtBase /\ pc'.at = "bind" /\ pc'.digest \in Digests /\ bound' = bound
         \/ pc'.at = "failed" /\ bound' = bound
  <2>1. CASE /\ Promoted
             /\ LET digest == IF pc.expected = None THEN Payload ELSE pc.expected
                IN Bind(digest) /\ pc' = [pc EXCEPT !.at = "deliver", !.digest = digest]
    BY <2>1, <1>a, Facts DEF Compare, At, Places, PcType, Bind
  <2>2. CASE /\ AtBase
             /\ \E d \in Digests \ {bound} : pc' = [pc EXCEPT !.at = "bind", !.digest = d]
             /\ UNCHANGED bound
    BY <2>2, <1>a, Facts DEF Compare, At, Places, PcType, StateOK
  <2>3. CASE Fail /\ UNCHANGED bound
    BY <2>3, <1>a, Facts, Starts DEF Compare, At, Fail, Places, StateOK
  <2>4. QED
    BY <2>1, <2>2, <2>3 DEF Compare
<1>d. UNCHANGED <<path, backup, incoming, concurrent, kept, journal, marker, reserved,
                  completed, owed, raced, touched, edits, crashes, errors>>
  BY DEF Compare, project, records, row, user, faults
<1>1. StateOK'
  BY <1>a, <1>c, <1>d DEF StateOK, Texts
<1>2. RecordsFit'
  BY <1>a, <1>b, <1>c, <1>d, Facts, Constants
  DEF RecordsFit, At, Preparing, Applying, Undoing, SameCourse
<1>3. AllOrNone'
  BY <1>a, <1>b, <1>c, <1>d, Facts, Constants
  DEF AllOrNone, UntouchedAtBase, UntouchedApproved, Untouched, At, SameCourse, FileFits,
      NotYetMoved, PutBackAgain, TakenAway, RecordsFit, Recoverable, Preparing, Applying,
      Undoing
<1>4. \A f \in Files : CopiesFit(f)'
  BY <1>a, <1>b, <1>c, <1>d, Facts, Constants
  DEF CopiesFit, Staged, NothingStaged, NoBackup, BackupCompared, At, RecordsFit, Preparing,
      Applying, Undoing
<1>5. \A f \in Untouched' : FileFits(f)'
  BY <1>a, <1>b, <1>c, <1>d, Facts, Constants
  DEF FileFits, NotYetMoved, PutBackAgain, TakenAway, RecordsFit, Untouched, At, Promoted,
      AtBase, Preparing
<1>6. QED
  BY <1>1, <1>2, <1>3, <1>4, <1>5 DEF IInv

LEMMA BindJournalStep == IInv /\ BindJournal => IInv'
<1> SUFFICES ASSUME IInv, BindJournal PROVE IInv'
  OBVIOUS
<1>a. RecordsFit /\ AllOrNone /\ StateOK
  BY DEF IInv
<1>b. (\A f \in Files : CopiesFit(f)) /\ (\A f \in Untouched : FileFits(f))
  BY DEF IInv
<1>c. /\ pc.at = "bind" /\ pc' \in PcType /\ SameCourse
      /\ \/ bound' = pc.digest /\ pc'.at = "journal"
         \/ bound' = bound /\ pc'.at = "failed"
  BY Facts, Starts DEF BindJournal, Bind, Fail, At, Places
<1>d. UNCHANGED <<path, backup, incoming, concurrent, kept, journal, marker, reserved,
                  completed, owed, raced, touched, edits, crashes, errors>>
  BY DEF BindJournal, project, records, row, user, faults
<1>m1. bound' \in Digests \cup {Payload, None}
  BY <1>a, <1>c DEF StateOK, PcType
<1>1. StateOK'
  BY <1>a, <1>b, <1>c, <1>d, <1>m1, Facts, Constants
  DEF StateOK, Texts
<1>2. RecordsFit'
  BY <1>a, <1>b, <1>c, <1>d, <1>m1, Facts, Constants
  DEF RecordsFit, At, Preparing, Applying, Undoing, SameCourse
<1>3. AllOrNone'
  BY <1>a, <1>b, <1>c, <1>d, <1>m1, Facts, Constants
  DEF AllOrNone, UntouchedAtBase, UntouchedApproved, Untouched, At, SameCourse, FileFits,
      NotYetMoved, PutBackAgain, TakenAway, RecordsFit, Recoverable, Preparing, Applying,
      Undoing
<1>4. \A f \in Files : CopiesFit(f)'
  BY <1>a, <1>b, <1>c, <1>d, <1>m1, Facts, Constants
  DEF CopiesFit, Staged, NothingStaged, NoBackup, BackupCompared, At, RecordsFit, Preparing,
      Applying, Undoing
<1>5. \A f \in Untouched' : FileFits(f)'
  BY <1>a, <1>b, <1>c, <1>d, <1>m1, Facts, Constants
  DEF FileFits, NotYetMoved, PutBackAgain, TakenAway, CopiesFit, Staged, NothingStaged,
      NoBackup, BackupCompared, Recoverable, Untouched, At, RecordsFit, Preparing, Applying,
      Undoing
<1>6. QED
  BY <1>1, <1>2, <1>3, <1>4, <1>5 DEF IInv

LEMMA WriteJournalStep == IInv /\ WriteJournal => IInv'
<1> SUFFICES ASSUME IInv, WriteJournal PROVE IInv'
  OBVIOUS
<1>a. RecordsFit /\ AllOrNone /\ StateOK
  BY DEF IInv
<1>b. (\A f \in Files : CopiesFit(f)) /\ (\A f \in Untouched : FileFits(f))
  BY DEF IInv
<1>c. /\ pc.at = "journal" /\ pc' \in PcType /\ SameCourse /\ pc'.at = "recheck" /\ pc'.f = 1
      /\ journal' = pc.digest
  BY Facts, Starts DEF WriteJournal, At, Places
<1>d. UNCHANGED <<path, backup, incoming, marker, reserved, bound, completed, owed, raced, touched,
                  edits, crashes, errors>>
  BY DEF WriteJournal, project, records, row, user, faults
<1>m1. concurrent' \in FileMap /\ \A f \in Files : concurrent'[f] = None
  BY DEF WriteJournal, Nothing, FileMap
<1>m2. kept' \subseteq UserBytes
  BY <1>a, Facts DEF WriteJournal, StateOK
<1>m3. journal' \in Digests
  BY <1>a, <1>c DEF RecordsFit, At
<1>1. StateOK'
  BY <1>a, <1>b, <1>c, <1>d, <1>m1, <1>m2, <1>m3, Facts, Constants
  DEF StateOK, Texts
<1>2. RecordsFit'
  BY <1>a, <1>b, <1>c, <1>d, <1>m1, <1>m2, <1>m3, Facts, Constants
  DEF RecordsFit, At, Preparing, Applying, Undoing, SameCourse
<1>3. AllOrNone'
  BY <1>a, <1>b, <1>c, <1>d, <1>m1, <1>m2, <1>m3, Facts, Constants
  DEF AllOrNone, UntouchedAtBase, UntouchedApproved, Untouched, At, SameCourse, FileFits,
      NotYetMoved, PutBackAgain, TakenAway, RecordsFit, Recoverable, Preparing, Applying,
      Undoing
<1>4. \A f \in Files : CopiesFit(f)'
  BY <1>a, <1>b, <1>c, <1>d, <1>m1, <1>m2, <1>m3, Facts, Constants
  DEF CopiesFit, Staged, NothingStaged, NoBackup, BackupCompared, At, RecordsFit, Preparing,
      Applying, Undoing
<1>5. \A f \in Untouched' : FileFits(f)'
  <2>1. \A f \in Untouched : path[f] = Before(f) /\ backup[f] = None
    <3>1. journal = None /\ At("journal")
      BY <1>a, <1>c DEF RecordsFit, At, Preparing
    <3>2. ASSUME NEW f \in Untouched PROVE path[f] = Before(f) /\ backup[f] = None
      <4>1. f \in Files /\ CopiesFit(f) /\ FileFits(f)
        BY <1>b, Facts
      <4>2. QED
        BY <3>1, <4>1
        DEF FileFits, NotYetMoved, PutBackAgain, TakenAway, CopiesFit, Staged, NothingStaged,
            NoBackup, BackupCompared
    <3>3. QED
      BY <3>2
  <2>2. QED
    BY <2>1, <1>c, <1>d
    DEF FileFits, NotYetMoved, PutBackAgain, TakenAway, Recoverable, Untouched, At, Undoing
<1>6. QED
  BY <1>1, <1>2, <1>3, <1>4, <1>5 DEF IInv

LEMMA RecheckStep == IInv /\ Recheck => IInv'
<1> SUFFICES ASSUME IInv, Recheck PROVE IInv'
  OBVIOUS
<1>a. RecordsFit /\ AllOrNone /\ StateOK
  BY DEF IInv
<1>b. (\A f \in Files : CopiesFit(f)) /\ (\A f \in Untouched : FileFits(f))
  BY DEF IInv
<1>c. /\ pc.at = "recheck" /\ pc' \in PcType /\ SameCourse
      /\ pc'.at \in {"stage", "failed"} /\ pc'.f = 1
  BY Facts, Starts DEF Recheck, Fail, At, Places
<1>d. UNCHANGED <<path, backup, incoming, concurrent, kept, journal, marker, reserved, bound,
                  completed, owed, raced, touched, edits, crashes, errors>>
  BY DEF Recheck, project, records, row, user, faults
<1>1. StateOK'
  BY <1>a, <1>b, <1>c, <1>d, Facts, Constants
  DEF StateOK, Texts
<1>2. RecordsFit'
  BY <1>a, <1>b, <1>c, <1>d, Facts, Constants
  DEF RecordsFit, At, Preparing, Applying, Undoing, SameCourse
<1>3. AllOrNone'
  BY <1>a, <1>b, <1>c, <1>d, Facts, Constants
  DEF AllOrNone, UntouchedAtBase, UntouchedApproved, Untouched, At, SameCourse, FileFits,
      NotYetMoved, PutBackAgain, TakenAway, RecordsFit, Recoverable, Preparing, Applying,
      Undoing
<1>4. \A f \in Files : CopiesFit(f)'
  BY <1>a, <1>b, <1>c, <1>d, Facts, Constants
  DEF CopiesFit, Staged, NothingStaged, NoBackup, BackupCompared, At, RecordsFit, Preparing,
      Applying, Undoing
<1>5. \A f \in Untouched' : FileFits(f)'
  BY <1>a, <1>b, <1>c, <1>d, Facts, Constants
  DEF FileFits, NotYetMoved, PutBackAgain, TakenAway, CopiesFit, Staged, NothingStaged,
      NoBackup, BackupCompared, Recoverable, Untouched, At, RecordsFit, Preparing, Applying,
      Undoing
<1>6. QED
  BY <1>1, <1>2, <1>3, <1>4, <1>5 DEF IInv

(***************************************************************************)
(* Moving aside and installing.                                            *)
(***************************************************************************)
LEMMA SkipStep ==
  ASSUME IInv, MoveAside, path[pc.f] = None
  PROVE  IInv'
<1>a. RecordsFit /\ AllOrNone /\ StateOK
  BY DEF IInv
<1>b. (\A f \in Files : CopiesFit(f)) /\ (\A f \in Untouched : FileFits(f))
  BY DEF IInv
<1>c. /\ pc.at = "move"
      /\ pc' \in PcType
      /\ SameCourse
      /\ path[pc.f] = None
      /\ \/ (pc.f = N /\ pc'.at = "install" /\ pc'.f = 1)
         \/ (pc.f < N /\ pc'.at = "move" /\ pc'.f = pc.f + 1)
  BY Facts, GoesOn DEF MoveAside, At, Places
<1>d. UNCHANGED <<path, backup, incoming, concurrent, kept, journal, marker, reserved, bound,
                  completed, owed, raced, touched, edits, crashes, errors>>
  BY DEF MoveAside, project, records, row, user, faults
<1>1. StateOK'
  BY <1>a, <1>b, <1>c, <1>d, Facts, Constants
  DEF StateOK, Texts
<1>2. RecordsFit'
  BY <1>a, <1>b, <1>c, <1>d, Facts, Constants
  DEF RecordsFit, At, Preparing, Applying, Undoing, SameCourse
<1>3. AllOrNone'
  BY <1>a, <1>b, <1>c, <1>d, Facts, Constants
  DEF AllOrNone, UntouchedAtBase, UntouchedApproved, Untouched, At, SameCourse, FileFits,
      NotYetMoved, PutBackAgain, TakenAway, RecordsFit, Recoverable, Preparing, Applying,
      Undoing
<1>4. \A f \in Files : CopiesFit(f)'
  BY <1>a, <1>b, <1>c, <1>d, Facts, Constants
  DEF CopiesFit, Staged, NothingStaged, NoBackup, BackupCompared, At, RecordsFit, Preparing,
      Applying, Undoing
<1>5. \A f \in Untouched' : FileFits(f)'
  BY <1>a, <1>b, <1>c, <1>d, Facts, Constants
  DEF FileFits, NotYetMoved, PutBackAgain, TakenAway, CopiesFit, Staged, NothingStaged,
      NoBackup, BackupCompared, Recoverable, Untouched, At, RecordsFit, Preparing, Applying,
      Undoing
<1>6. QED
  BY <1>1, <1>2, <1>3, <1>4, <1>5 DEF IInv

LEMMA SetAsideStep ==
  ASSUME IInv, MoveAside, path[pc.f] # None, backup[pc.f] = None
  PROVE  IInv'
<1> DEFINE g == pc.f
<1>a. RecordsFit /\ AllOrNone /\ StateOK
  BY DEF IInv
<1>b. (\A f \in Files : CopiesFit(f)) /\ (\A f \in Untouched : FileFits(f))
  BY DEF IInv
<1>c. /\ pc.at = "move"
      /\ pc' \in PcType
      /\ SameCourse
      /\ path[pc.f] # None
      /\ backup[pc.f] = None
      /\ pc'.at = "moved"
      /\ pc'.f = pc.f
  BY Facts, Stays DEF MoveAside, At, Places
<1>d. UNCHANGED <<incoming, concurrent, kept, journal, marker, reserved, bound, completed,
                  owed, raced, touched, edits, crashes, errors>>
  BY DEF MoveAside, project, records, row, user, faults
<1>m1. path' \in FileMap /\ \A f \in Files : path'[f] = IF f = g THEN None ELSE path[f]
  <2>1. path' = [path EXCEPT ![g] = None]
    BY DEF MoveAside
  <2>2. path \in FileMap /\ g \in Files /\ None \in Contents \cup {None}
    BY Facts, Constants DEF Contents
  <2>3. QED
    BY <2>1, <2>2 DEF FileMap
<1>m2. backup' \in FileMap /\ \A f \in Files : backup'[f] = IF f = g THEN path[g] ELSE backup[f]
  <2>1. backup' = [backup EXCEPT ![g] = path[g]]
    BY DEF MoveAside
  <2>2. backup \in FileMap /\ g \in Files /\ path[g] \in Contents \cup {None}
    BY Facts, Constants DEF Contents
  <2>3. QED
    BY <2>1, <2>2 DEF FileMap
<1>1. StateOK'
  BY <1>a, <1>b, <1>c, <1>d, <1>m1, <1>m2, Facts, Constants
  DEF StateOK, Texts
<1>2. RecordsFit'
  BY <1>a, <1>b, <1>c, <1>d, <1>m1, <1>m2, Facts, Constants
  DEF RecordsFit, At, Preparing, Applying, Undoing, SameCourse
<1>3. AllOrNone'
  BY <1>a, <1>b, <1>c, <1>d, <1>m1, <1>m2, Facts, Constants
  DEF AllOrNone, UntouchedAtBase, UntouchedApproved, Untouched, At, SameCourse, FileFits,
      NotYetMoved, PutBackAgain, TakenAway, RecordsFit, Recoverable, Preparing, Applying,
      Undoing
<1>4. \A f \in Files : CopiesFit(f)'
  BY <1>a, <1>b, <1>c, <1>d, <1>m1, <1>m2, Facts, Constants
  DEF CopiesFit, Staged, NothingStaged, NoBackup, BackupCompared, At, RecordsFit, Preparing,
      Applying, Undoing
<1>5. \A f \in Untouched' : FileFits(f)'
  BY <1>a, <1>b, <1>c, <1>d, <1>m1, <1>m2, Facts, Constants
  DEF FileFits, NotYetMoved, PutBackAgain, TakenAway, CopiesFit, Staged, NothingStaged,
      NoBackup, BackupCompared, Recoverable, Untouched, At, RecordsFit, Preparing, Applying,
      Undoing
<1>6. QED
  BY <1>1, <1>2, <1>3, <1>4, <1>5 DEF IInv

LEMMA RollBackStep ==
  ASSUME IInv, pc.at \in RolledBackOnError, Rollback("abort"),
         UNCHANGED <<project, journal, row, user>>,
         marker' \in BOOLEAN, marker' # marker => pc.at = "commit",
         crashes' \in 0 .. MaxCrashes, errors' \in 0 .. MaxErrors
  PROVE  IInv'
<1>a. RecordsFit /\ AllOrNone /\ StateOK
  BY DEF IInv
<1>b. (\A f \in Files : CopiesFit(f)) /\ (\A f \in Untouched : FileFits(f))
  BY DEF IInv
<1>c. /\ pc.at \in Applying /\ pc.at \notin {"recheck", "stage"} /\ pc' \in PcType
      /\ pc'.at = "undo" /\ pc'.f = 1 /\ pc'.why = "abort"
      /\ pc'.digest = pc.digest
  BY Facts, RollsBack DEF RolledBackOnError, Applying
<1>d. UNCHANGED <<path, backup, incoming, concurrent, kept, journal, reserved, bound,
                  completed, owed, raced, touched, edits>>
  BY DEF RolledBackOnError, project, records, row, user, faults
<1>m1. marker' \in BOOLEAN /\ (marker' # marker => pc.at = "commit")
  OBVIOUS
<1>m2. crashes' \in 0 .. MaxCrashes
  OBVIOUS
<1>m3. errors' \in 0 .. MaxErrors
  OBVIOUS
<1>1. StateOK'
  BY <1>a, <1>b, <1>c, <1>d, <1>m1, <1>m2, <1>m3, Facts, Constants
  DEF StateOK, Texts
<1>2. RecordsFit'
  BY <1>a, <1>b, <1>c, <1>d, <1>m1, <1>m2, <1>m3, Facts, Constants
  DEF RecordsFit, At, Preparing, Applying, Undoing, SameCourse
<1>3. AllOrNone'
  BY <1>a, <1>b, <1>c, <1>d, <1>m1, <1>m2, <1>m3, Facts, Constants
  DEF AllOrNone, UntouchedAtBase, UntouchedApproved, Untouched, At, SameCourse, FileFits,
      NotYetMoved, PutBackAgain, TakenAway, RecordsFit, Recoverable, Preparing, Applying,
      Undoing
<1>4. \A f \in Files : CopiesFit(f)'
  BY <1>a, <1>b, <1>c, <1>d, <1>m1, <1>m2, <1>m3, Facts, Constants
  DEF CopiesFit, Staged, NothingStaged, NoBackup, BackupCompared, At, RecordsFit, Preparing,
      Applying, Undoing
<1>5. \A f \in Untouched' : FileFits(f)'
  BY <1>a, <1>b, <1>c, <1>d, <1>m1, <1>m2, <1>m3, Facts, Constants
  DEF FileFits, NotYetMoved, PutBackAgain, TakenAway, CopiesFit, Staged, NothingStaged,
      NoBackup, BackupCompared, Recoverable, Untouched, At, RecordsFit, Preparing, Applying,
      Undoing
<1>6. QED
  BY <1>1, <1>2, <1>3, <1>4, <1>5 DEF IInv

LEMMA CheckedMovedStep ==
  ASSUME IInv, CheckMoved, backup[pc.f] = Before(pc.f)
  PROVE  IInv'
<1>a. RecordsFit /\ AllOrNone /\ StateOK
  BY DEF IInv
<1>b. (\A f \in Files : CopiesFit(f)) /\ (\A f \in Untouched : FileFits(f))
  BY DEF IInv
<1>c. /\ pc.at = "moved"
      /\ pc' \in PcType
      /\ SameCourse
      /\ backup[pc.f] = Before(pc.f)
      /\ \/ (pc.f = N /\ pc'.at = "install" /\ pc'.f = 1)
         \/ (pc.f < N /\ pc'.at = "move" /\ pc'.f = pc.f + 1)
  BY Facts, GoesOn DEF CheckMoved, At, Places
<1>d. UNCHANGED <<path, backup, incoming, concurrent, kept, journal, marker, reserved, bound,
                  completed, owed, raced, touched, edits, crashes, errors>>
  BY DEF CheckMoved, project, records, row, user, faults
<1>1. StateOK'
  BY <1>a, <1>b, <1>c, <1>d, Facts, Constants
  DEF StateOK, Texts
<1>2. RecordsFit'
  BY <1>a, <1>b, <1>c, <1>d, Facts, Constants
  DEF RecordsFit, At, Preparing, Applying, Undoing, SameCourse
<1>3. AllOrNone'
  BY <1>a, <1>b, <1>c, <1>d, Facts, Constants
  DEF AllOrNone, UntouchedAtBase, UntouchedApproved, Untouched, At, SameCourse, FileFits,
      NotYetMoved, PutBackAgain, TakenAway, RecordsFit, Recoverable, Preparing, Applying,
      Undoing
<1>4. \A f \in Files : CopiesFit(f)'
  BY <1>a, <1>b, <1>c, <1>d, Facts, Constants
  DEF CopiesFit, Staged, NothingStaged, NoBackup, BackupCompared, At, RecordsFit, Preparing,
      Applying, Undoing
<1>5. \A f \in Untouched' : FileFits(f)'
  BY <1>a, <1>b, <1>c, <1>d, Facts, Constants
  DEF FileFits, NotYetMoved, PutBackAgain, TakenAway, CopiesFit, Staged, NothingStaged,
      NoBackup, BackupCompared, Recoverable, Untouched, At, RecordsFit, Preparing, Applying,
      Undoing
<1>6. QED
  BY <1>1, <1>2, <1>3, <1>4, <1>5 DEF IInv

LEMMA MovedAnEditStep ==
  ASSUME IInv, CheckMoved, backup[pc.f] # Before(pc.f), path[pc.f] = None
  PROVE  IInv'
<1>a. RecordsFit /\ AllOrNone /\ StateOK
  BY DEF IInv
<1>b. (\A f \in Files : CopiesFit(f)) /\ (\A f \in Untouched : FileFits(f))
  BY DEF IInv
<1>c. /\ pc.at = "moved"
      /\ pc' \in PcType
      /\ SameCourse
      /\ backup[pc.f] # Before(pc.f)
      /\ path[pc.f] = None
      /\ pc'.at = "putback"
      /\ pc'.f = pc.f
  BY Facts, Stays DEF CheckMoved, At, Places
<1>d. UNCHANGED <<path, backup, incoming, concurrent, kept, journal, marker, reserved, bound,
                  completed, owed, raced, touched, edits, crashes, errors>>
  BY DEF CheckMoved, project, records, row, user, faults
<1>1. StateOK'
  BY <1>a, <1>b, <1>c, <1>d, Facts, Constants
  DEF StateOK, Texts
<1>2. RecordsFit'
  BY <1>a, <1>b, <1>c, <1>d, Facts, Constants
  DEF RecordsFit, At, Preparing, Applying, Undoing, SameCourse
<1>3. AllOrNone'
  BY <1>a, <1>b, <1>c, <1>d, Facts, Constants
  DEF AllOrNone, UntouchedAtBase, UntouchedApproved, Untouched, At, SameCourse, FileFits,
      NotYetMoved, PutBackAgain, TakenAway, RecordsFit, Recoverable, Preparing, Applying,
      Undoing
<1>4. \A f \in Files : CopiesFit(f)'
  BY <1>a, <1>b, <1>c, <1>d, Facts, Constants
  DEF CopiesFit, Staged, NothingStaged, NoBackup, BackupCompared, At, RecordsFit, Preparing,
      Applying, Undoing
<1>5. \A f \in Untouched' : FileFits(f)'
  BY <1>a, <1>b, <1>c, <1>d, Facts, Constants
  DEF FileFits, NotYetMoved, PutBackAgain, TakenAway, CopiesFit, Staged, NothingStaged,
      NoBackup, BackupCompared, Recoverable, Untouched, At, RecordsFit, Preparing, Applying,
      Undoing
<1>6. QED
  BY <1>1, <1>2, <1>3, <1>4, <1>5 DEF IInv

LEMMA PutBackStep == IInv /\ PutBack => IInv'
<1> SUFFICES ASSUME IInv, PutBack PROVE IInv'
  OBVIOUS
<1> DEFINE g == pc.f
<1>a. RecordsFit /\ AllOrNone /\ StateOK
  BY DEF IInv
<1>b. (\A f \in Files : CopiesFit(f)) /\ (\A f \in Untouched : FileFits(f))
  BY DEF IInv
<1>c. /\ pc.at = "putback"
      /\ pc' \in PcType
      /\ pc'.at = "undo"
      /\ pc'.f = 1
      /\ pc'.why = "abort"
      /\ pc'.digest = pc.digest
  BY Facts, RollsBack DEF PutBack, At
<1>d. UNCHANGED <<incoming, concurrent, kept, journal, marker, reserved, bound, completed,
                  owed, raced, touched, edits, crashes, errors>>
  BY DEF PutBack, project, records, row, user, faults
<1>m1. path' \in FileMap /\ \A f \in Files : path'[f] = IF f = g THEN backup[g] ELSE path[f]
  <2>1. path' = [path EXCEPT ![g] = backup[g]]
    BY DEF PutBack
  <2>2. path \in FileMap /\ g \in Files /\ backup[g] \in Contents \cup {None}
    BY Facts, Constants DEF Contents
  <2>3. QED
    BY <2>1, <2>2 DEF FileMap
<1>m2. backup' \in FileMap /\ \A f \in Files : backup'[f] = IF f = g THEN None ELSE backup[f]
  <2>1. backup' = [backup EXCEPT ![g] = None]
    BY DEF PutBack
  <2>2. backup \in FileMap /\ g \in Files /\ None \in Contents \cup {None}
    BY Facts, Constants DEF Contents
  <2>3. QED
    BY <2>1, <2>2 DEF FileMap
<1>1. StateOK'
  BY <1>a, <1>b, <1>c, <1>d, <1>m1, <1>m2, Facts, Constants
  DEF StateOK, Texts
<1>2. RecordsFit'
  BY <1>a, <1>b, <1>c, <1>d, <1>m1, <1>m2, Facts, Constants
  DEF RecordsFit, At, Preparing, Applying, Undoing, SameCourse
<1>3. AllOrNone'
  BY <1>a, <1>b, <1>c, <1>d, <1>m1, <1>m2, Facts, Constants
  DEF AllOrNone, UntouchedAtBase, UntouchedApproved, Untouched, At, SameCourse, FileFits,
      NotYetMoved, PutBackAgain, TakenAway, RecordsFit, Recoverable, Preparing, Applying,
      Undoing
<1>4. \A f \in Files : CopiesFit(f)'
  BY <1>a, <1>b, <1>c, <1>d, <1>m1, <1>m2, Facts, Constants
  DEF CopiesFit, Staged, NothingStaged, NoBackup, BackupCompared, At, RecordsFit, Preparing,
      Applying, Undoing
<1>5. \A f \in Untouched' : FileFits(f)'
  BY <1>a, <1>b, <1>c, <1>d, <1>m1, <1>m2, Facts, Constants
  DEF FileFits, NotYetMoved, PutBackAgain, TakenAway, CopiesFit, Staged, NothingStaged,
      NoBackup, BackupCompared, Recoverable, Untouched, At, RecordsFit, Preparing, Applying,
      Undoing
<1>6. QED
  BY <1>1, <1>2, <1>3, <1>4, <1>5 DEF IInv

LEMMA SkipDeletedStep ==
  ASSUME IInv, Install, pc.f \in Deleted
  PROVE  IInv'
<1>a. RecordsFit /\ AllOrNone /\ StateOK
  BY DEF IInv
<1>b. (\A f \in Files : CopiesFit(f)) /\ (\A f \in Untouched : FileFits(f))
  BY DEF IInv
<1>c. /\ pc.at = "install"
      /\ pc' \in PcType
      /\ SameCourse
      /\ pc.f \in Deleted
      /\ \/ (pc.f = N /\ pc'.at = "verify" /\ pc'.f = 1)
         \/ (pc.f < N /\ pc'.at = "install" /\ pc'.f = pc.f + 1)
  BY Facts, GoesOn DEF Install, At, Places
<1>d. UNCHANGED <<path, backup, incoming, concurrent, kept, journal, marker, reserved, bound,
                  completed, owed, raced, touched, edits, crashes, errors>>
  BY DEF Install, project, records, row, user, faults
<1>1. StateOK'
  BY <1>a, <1>b, <1>c, <1>d, Facts, Constants
  DEF StateOK, Texts
<1>2. RecordsFit'
  BY <1>a, <1>b, <1>c, <1>d, Facts, Constants
  DEF RecordsFit, At, Preparing, Applying, Undoing, SameCourse
<1>3. AllOrNone'
  BY <1>a, <1>b, <1>c, <1>d, Facts, Constants
  DEF AllOrNone, UntouchedAtBase, UntouchedApproved, Untouched, At, SameCourse, FileFits,
      NotYetMoved, PutBackAgain, TakenAway, RecordsFit, Recoverable, Preparing, Applying,
      Undoing
<1>4. \A f \in Files : CopiesFit(f)'
  BY <1>a, <1>b, <1>c, <1>d, Facts, Constants
  DEF CopiesFit, Staged, NothingStaged, NoBackup, BackupCompared, At, RecordsFit, Preparing,
      Applying, Undoing
<1>5. \A f \in Untouched' : FileFits(f)'
  BY <1>a, <1>b, <1>c, <1>d, Facts, Constants
  DEF FileFits, NotYetMoved, PutBackAgain, TakenAway, CopiesFit, Staged, NothingStaged,
      NoBackup, BackupCompared, Recoverable, Untouched, At, RecordsFit, Preparing, Applying,
      Undoing
<1>6. QED
  BY <1>1, <1>2, <1>3, <1>4, <1>5 DEF IInv

LEMMA LinkStep ==
  ASSUME IInv, Install, pc.f \notin Deleted, path[pc.f] = None
  PROVE  IInv'
<1> DEFINE g == pc.f
<1>a. RecordsFit /\ AllOrNone /\ StateOK
  BY DEF IInv
<1>b. (\A f \in Files : CopiesFit(f)) /\ (\A f \in Untouched : FileFits(f))
  BY DEF IInv
<1>c. /\ pc.at = "install"
      /\ pc' \in PcType
      /\ SameCourse
      /\ pc.f \notin Deleted
      /\ path[pc.f] = None
      /\ pc'.at = "linked"
      /\ pc'.f = pc.f
  BY Facts, Stays DEF Install, At, Places
<1>d. UNCHANGED <<backup, incoming, concurrent, kept, journal, marker, reserved, bound,
                  completed, owed, raced, touched, edits, crashes, errors>>
  BY DEF Install, project, records, row, user, faults
<1>m1. path' \in FileMap /\ \A f \in Files : path'[f] = IF f = g THEN incoming[g] ELSE path[f]
  <2>1. path' = [path EXCEPT ![g] = incoming[g]]
    BY DEF Install
  <2>2. path \in FileMap /\ g \in Files /\ incoming[g] \in Contents \cup {None}
    BY Facts, Constants DEF Contents
  <2>3. QED
    BY <2>1, <2>2 DEF FileMap
<1>1. StateOK'
  BY <1>a, <1>b, <1>c, <1>d, <1>m1, Facts, Constants
  DEF StateOK, Texts
<1>2. RecordsFit'
  BY <1>a, <1>b, <1>c, <1>d, <1>m1, Facts, Constants
  DEF RecordsFit, At, Preparing, Applying, Undoing, SameCourse
<1>3. AllOrNone'
  BY <1>a, <1>b, <1>c, <1>d, <1>m1, Facts, Constants
  DEF AllOrNone, UntouchedAtBase, UntouchedApproved, Untouched, At, SameCourse, FileFits,
      NotYetMoved, PutBackAgain, TakenAway, RecordsFit, Recoverable, Preparing, Applying,
      Undoing
<1>4. \A f \in Files : CopiesFit(f)'
  BY <1>a, <1>b, <1>c, <1>d, <1>m1, Facts, Constants
  DEF CopiesFit, Staged, NothingStaged, NoBackup, BackupCompared, At, RecordsFit, Preparing,
      Applying, Undoing
<1>5. \A f \in Untouched' : FileFits(f)'
  BY <1>a, <1>b, <1>c, <1>d, <1>m1, Facts, Constants
  DEF FileFits, NotYetMoved, PutBackAgain, TakenAway, CopiesFit, Staged, NothingStaged,
      NoBackup, BackupCompared, Recoverable, Untouched, At, RecordsFit, Preparing, Applying,
      Undoing
<1>6. QED
  BY <1>1, <1>2, <1>3, <1>4, <1>5 DEF IInv

LEMMA VerifiedStep ==
  ASSUME IInv, Verify, Promoted
  PROVE  IInv'
<1>a. RecordsFit /\ AllOrNone /\ StateOK
  BY DEF IInv
<1>b. (\A f \in Files : CopiesFit(f)) /\ (\A f \in Untouched : FileFits(f))
  BY DEF IInv
<1>c. /\ pc.at = "verify"
      /\ pc' \in PcType
      /\ SameCourse
      /\ Promoted
      /\ pc'.at = "commit"
      /\ pc'.f = 1
  BY Facts, Starts DEF Verify, At, Places
<1>d. UNCHANGED <<path, backup, incoming, concurrent, kept, journal, marker, reserved, bound,
                  completed, owed, raced, touched, edits, crashes, errors>>
  BY DEF Verify, project, records, row, user, faults
<1>1. StateOK'
  BY <1>a, <1>b, <1>c, <1>d, Facts, Constants
  DEF StateOK, Texts
<1>2. RecordsFit'
  BY <1>a, <1>b, <1>c, <1>d, Facts, Constants
  DEF RecordsFit, At, Preparing, Applying, Undoing, SameCourse
<1>3. AllOrNone'
  BY <1>a, <1>b, <1>c, <1>d, Facts, Constants
  DEF AllOrNone, UntouchedAtBase, UntouchedApproved, Untouched, At, SameCourse, FileFits,
      NotYetMoved, PutBackAgain, TakenAway, RecordsFit, Recoverable, Preparing, Applying,
      Undoing
<1>4. \A f \in Files : CopiesFit(f)'
  BY <1>a, <1>b, <1>c, <1>d, Facts, Constants
  DEF CopiesFit, Staged, NothingStaged, NoBackup, BackupCompared, At, RecordsFit, Preparing,
      Applying, Undoing
<1>5. \A f \in Untouched' : FileFits(f)'
  BY <1>a, <1>b, <1>c, <1>d, Facts, Constants
  DEF FileFits, NotYetMoved, PutBackAgain, TakenAway, Promoted, RecordsFit, Recoverable,
      Untouched, At, Applying, Undoing
<1>6. QED
  BY <1>1, <1>2, <1>3, <1>4, <1>5 DEF IInv

LEMMA CommitStep == IInv /\ Commit => IInv'
<1> SUFFICES ASSUME IInv, Commit PROVE IInv'
  OBVIOUS
<1>a. RecordsFit /\ AllOrNone /\ StateOK
  BY DEF IInv
<1>b. (\A f \in Files : CopiesFit(f)) /\ (\A f \in Untouched : FileFits(f))
  BY DEF IInv
<1>c. /\ pc.at = "commit"
      /\ pc' \in PcType
      /\ pc'.at = "clean"
      /\ pc'.f = pc.f
      /\ pc'.why = "commit"
      /\ pc'.digest = pc.digest
  BY Facts DEF Commit, At, Places, PcType
<1>d. UNCHANGED <<path, backup, incoming, concurrent, kept, journal, reserved, bound,
                  completed, owed, raced, touched, edits, crashes, errors>>
  BY DEF Commit, project, records, row, user, faults
<1>m1. marker' = TRUE
  BY DEF Commit
<1>1. StateOK'
  BY <1>a, <1>b, <1>c, <1>d, <1>m1, Facts, Constants
  DEF StateOK, Texts
<1>2. RecordsFit'
  BY <1>a, <1>b, <1>c, <1>d, <1>m1, Facts, Constants
  DEF RecordsFit, At, Preparing, Applying, Undoing, SameCourse
<1>3. AllOrNone'
  BY <1>a, <1>b, <1>c, <1>d, <1>m1, Facts, Constants
  DEF AllOrNone, UntouchedAtBase, UntouchedApproved, Untouched, At, SameCourse, FileFits,
      NotYetMoved, PutBackAgain, TakenAway, RecordsFit, Recoverable, Preparing, Applying,
      Undoing
<1>4. \A f \in Files : CopiesFit(f)'
  BY <1>a, <1>b, <1>c, <1>d, <1>m1, Facts, Constants
  DEF CopiesFit, Staged, NothingStaged, NoBackup, BackupCompared, At, RecordsFit, Preparing,
      Applying, Undoing
<1>5. \A f \in Untouched' : FileFits(f)'
  BY <1>a, <1>b, <1>c, <1>d, <1>m1, Facts, Constants
  DEF FileFits, NotYetMoved, PutBackAgain, TakenAway, CopiesFit, Staged, NothingStaged,
      NoBackup, BackupCompared, Recoverable, Untouched, At, RecordsFit, Preparing, Applying,
      Undoing
<1>6. QED
  BY <1>1, <1>2, <1>3, <1>4, <1>5 DEF IInv

LEMMA DropJournalStep == IInv /\ DropJournal => IInv'
<1> SUFFICES ASSUME IInv, DropJournal PROVE IInv'
  OBVIOUS
<1>a. RecordsFit /\ AllOrNone /\ StateOK
  BY DEF IInv
<1>b. (\A f \in Files : CopiesFit(f)) /\ (\A f \in Untouched : FileFits(f))
  BY DEF IInv
<1>c. pc.at = "unjournal" /\ pc' \in PcType /\ SameCourse /\ pc'.at = "unmark" /\ pc'.f = 1
  BY Facts, Starts DEF DropJournal, At, Places
<1>d. UNCHANGED <<path, backup, incoming, concurrent, kept, marker, reserved, bound,
                  completed, owed, raced, touched, edits, crashes, errors>>
  BY DEF DropJournal, project, records, row, user, faults
<1>m1. journal' = None
  BY DEF DropJournal
<1>1. StateOK'
  BY <1>a, <1>b, <1>c, <1>d, <1>m1, Facts, Constants
  DEF StateOK, Texts
<1>2. RecordsFit'
  BY <1>a, <1>b, <1>c, <1>d, <1>m1, Facts, Constants
  DEF RecordsFit, At, Preparing, Applying, Undoing, SameCourse
<1>3. AllOrNone'
  BY <1>a, <1>b, <1>c, <1>d, <1>m1, Facts, Constants
  DEF AllOrNone, UntouchedAtBase, UntouchedApproved, Untouched, At, SameCourse, FileFits,
      NotYetMoved, PutBackAgain, TakenAway, RecordsFit, Recoverable, Preparing, Applying,
      Undoing
<1>4. \A f \in Files : CopiesFit(f)'
  BY <1>a, <1>b, <1>c, <1>d, <1>m1, Facts, Constants
  DEF CopiesFit, Staged, NothingStaged, NoBackup, BackupCompared, At, RecordsFit, Preparing,
      Applying, Undoing
<1>5. \A f \in Untouched' : FileFits(f)'
  BY <1>a, <1>b, <1>c, <1>d, <1>m1, Facts, Constants
  DEF FileFits, NotYetMoved, PutBackAgain, TakenAway, CopiesFit, Staged, NothingStaged,
      NoBackup, BackupCompared, Recoverable, Untouched, At, RecordsFit, Preparing, Applying,
      Undoing
<1>6. QED
  BY <1>1, <1>2, <1>3, <1>4, <1>5 DEF IInv

LEMMA DropMarkerStep == IInv /\ DropMarker => IInv'
<1> SUFFICES ASSUME IInv, DropMarker PROVE IInv'
  OBVIOUS
<1>a. RecordsFit /\ AllOrNone /\ StateOK
  BY DEF IInv
<1>b. (\A f \in Files : CopiesFit(f)) /\ (\A f \in Untouched : FileFits(f))
  BY DEF IInv
<1>c. pc.at = "unmark" /\ pc' \in PcType /\ SameCourse /\ pc'.f = 1
      /\ pc'.at = IF pc.why = "recover" THEN "compare"
                   ELSE IF pc.why = "commit" THEN "deliver" ELSE "failed"
  BY Facts, Starts DEF DropMarker, At, Places
<1>d. UNCHANGED <<path, backup, incoming, concurrent, kept, journal, reserved, bound,
                  completed, owed, raced, touched, edits, crashes, errors>>
  BY DEF DropMarker, project, records, row, user, faults
<1>m1. marker' = FALSE
  BY DEF DropMarker
<1>1. StateOK'
  BY <1>a, <1>b, <1>c, <1>d, <1>m1, Facts, Constants
  DEF StateOK, Texts
<1>2. RecordsFit'
  BY <1>a, <1>b, <1>c, <1>d, <1>m1, Facts, Constants
  DEF RecordsFit, At, Preparing, Applying, Undoing, SameCourse
<1>3. AllOrNone'
  BY <1>a, <1>b, <1>c, <1>d, <1>m1, Facts, Constants
  DEF AllOrNone, UntouchedAtBase, UntouchedApproved, Untouched, At, SameCourse, FileFits,
      NotYetMoved, PutBackAgain, TakenAway, RecordsFit, Recoverable, Preparing, Applying,
      Undoing
<1>4. \A f \in Files : CopiesFit(f)'
  BY <1>a, <1>b, <1>c, <1>d, <1>m1, Facts, Constants
  DEF CopiesFit, Staged, NothingStaged, NoBackup, BackupCompared, At, RecordsFit, Preparing,
      Applying, Undoing
<1>5. \A f \in Untouched' : FileFits(f)'
  BY <1>a, <1>b, <1>c, <1>d, <1>m1, Facts, Constants
  DEF FileFits, NotYetMoved, PutBackAgain, TakenAway, RecordsFit, AllOrNone, UntouchedApproved,
      Untouched, At, Undoing
<1>6. QED
  BY <1>1, <1>2, <1>3, <1>4, <1>5 DEF IInv

(***************************************************************************)
(* Rolling back.                                                           *)
(***************************************************************************)
LEMMA FailStep ==
  ASSUME IInv, ~At("idle"), Fail, UNCHANGED <<project, records, row, user>>,
         crashes' \in 0 .. MaxCrashes, errors' \in 0 .. MaxErrors
  PROVE  IInv'
<1>a. RecordsFit /\ AllOrNone /\ StateOK
  BY DEF IInv
<1>b. (\A f \in Files : CopiesFit(f)) /\ (\A f \in Untouched : FileFits(f))
  BY DEF IInv
<1>c. pc.at \in Places \ {"idle"} /\ pc' \in PcType /\ pc'.at = "failed"
  BY Facts, Starts DEF At, Fail, Places
<1>d. UNCHANGED <<path, backup, incoming, concurrent, kept, journal, marker, reserved, bound,
                  completed, owed, raced, touched, edits>>
  BY DEF Fail, project, records, row, user, faults
<1>m1. crashes' \in 0 .. MaxCrashes
  OBVIOUS
<1>m2. errors' \in 0 .. MaxErrors
  OBVIOUS
<1>1. StateOK'
  BY <1>a, <1>b, <1>c, <1>d, <1>m1, <1>m2, Facts, Constants
  DEF StateOK, Texts
<1>2. RecordsFit'
  BY <1>a, <1>b, <1>c, <1>d, <1>m1, <1>m2, Facts, Constants
  DEF RecordsFit, At, Preparing, Applying, Undoing, SameCourse
<1>3. AllOrNone'
  BY <1>a, <1>b, <1>c, <1>d, <1>m1, <1>m2, Facts, Constants
  DEF AllOrNone, UntouchedAtBase, UntouchedApproved, Untouched, At, SameCourse, FileFits,
      NotYetMoved, PutBackAgain, TakenAway, RecordsFit, Recoverable, Preparing, Applying,
      Undoing
<1>4. \A f \in Files : CopiesFit(f)'
  BY <1>a, <1>b, <1>c, <1>d, <1>m1, <1>m2, Facts, Constants
  DEF CopiesFit, Staged, NothingStaged, NoBackup, BackupCompared, At, RecordsFit, Preparing,
      Applying, Undoing
<1>5. \A f \in Untouched' : FileFits(f)'
  BY <1>a, <1>b, <1>c, <1>d, <1>m1, <1>m2, Facts, Constants
  DEF FileFits, NotYetMoved, PutBackAgain, TakenAway, CopiesFit, Staged, NothingStaged,
      NoBackup, BackupCompared, Recoverable, Untouched, At, RecordsFit, Preparing, Applying,
      Undoing
<1>6. QED
  BY <1>1, <1>2, <1>3, <1>4, <1>5 DEF IInv

LEMMA NothingToUndoStep ==
  ASSUME IInv, Undo, path[pc.f] \in {None, Before(pc.f)}
  PROVE  IInv'
<1> DEFINE g == pc.f
<1>a. RecordsFit /\ AllOrNone /\ StateOK
  BY DEF IInv
<1>b. (\A f \in Files : CopiesFit(f)) /\ (\A f \in Untouched : FileFits(f))
  BY DEF IInv
<1>c. pc.at = "undo" /\ pc' \in PcType /\ SameCourse /\ path[pc.f] \in {None, Before(pc.f)}
      /\ \/ (pc.f = N /\ pc'.at = "restore" /\ pc'.f = 1)
         \/ (pc.f < N /\ pc'.at = "undo" /\ pc'.f = pc.f + 1)
  BY Facts, GoesOn DEF Undo, At, Places
<1>d. UNCHANGED <<path, backup, concurrent, kept, journal, marker, reserved, bound, completed,
                  owed, raced, touched, edits, crashes, errors>>
  BY DEF Undo, project, records, row, user, faults
<1>m1. /\ incoming' \in FileMap
       /\ \A f \in Files : incoming'[f] = IF f = g THEN None ELSE incoming[f]
  <2>1. incoming' = [incoming EXCEPT ![g] = None]
    BY DEF Undo
  <2>2. incoming \in FileMap /\ g \in Files /\ None \in Contents \cup {None}
    BY Facts, Constants DEF Contents
  <2>3. QED
    BY <2>1, <2>2 DEF FileMap
<1>1. StateOK'
  BY <1>a, <1>b, <1>c, <1>d, <1>m1, Facts, Constants
  DEF StateOK, Texts
<1>2. RecordsFit'
  BY <1>a, <1>b, <1>c, <1>d, <1>m1, Facts, Constants
  DEF RecordsFit, At, Preparing, Applying, Undoing, SameCourse
<1>3. AllOrNone'
  BY <1>a, <1>b, <1>c, <1>d, <1>m1, Facts, Constants
  DEF AllOrNone, UntouchedAtBase, UntouchedApproved, Untouched, At, SameCourse, FileFits,
      NotYetMoved, PutBackAgain, TakenAway, RecordsFit, Recoverable, Preparing, Applying,
      Undoing
<1>4. \A f \in Files : CopiesFit(f)'
  BY <1>a, <1>b, <1>c, <1>d, <1>m1, Facts, Constants
  DEF CopiesFit, Staged, NothingStaged, NoBackup, BackupCompared, At, RecordsFit, Preparing,
      Applying, Undoing
<1>5. \A f \in Untouched' : FileFits(f)'
  BY <1>a, <1>b, <1>c, <1>d, <1>m1, Facts, Constants
  DEF FileFits, NotYetMoved, PutBackAgain, TakenAway, CopiesFit, Staged, NothingStaged,
      NoBackup, BackupCompared, Recoverable, Untouched, At, RecordsFit, Preparing, Applying,
      Undoing
<1>6. QED
  BY <1>1, <1>2, <1>3, <1>4, <1>5 DEF IInv

LEMMA UndoOursStep ==
  ASSUME IInv, Undo, path[pc.f] \notin {None, Before(pc.f)},
         path[pc.f] = After(pc.f)
  PROVE  IInv'
<1>a. RecordsFit /\ AllOrNone /\ StateOK
  BY DEF IInv
<1>b. (\A f \in Files : CopiesFit(f)) /\ (\A f \in Untouched : FileFits(f))
  BY DEF IInv
<1>c. /\ pc.at = "undo"
      /\ pc' \in PcType
      /\ SameCourse
      /\ path[pc.f] = After(pc.f)
      /\ pc'.at = "remove"
      /\ pc'.f = pc.f
  BY Facts, Stays DEF Undo, At, Places
<1>d. UNCHANGED <<path, backup, incoming, concurrent, kept, journal, marker, reserved, bound,
                  completed, owed, raced, touched, edits, crashes, errors>>
  BY DEF Undo, project, records, row, user, faults
<1>1. StateOK'
  BY <1>a, <1>b, <1>c, <1>d, Facts, Constants
  DEF StateOK, Texts
<1>2. RecordsFit'
  BY <1>a, <1>b, <1>c, <1>d, Facts, Constants
  DEF RecordsFit, At, Preparing, Applying, Undoing, SameCourse
<1>3. AllOrNone'
  BY <1>a, <1>b, <1>c, <1>d, Facts, Constants
  DEF AllOrNone, UntouchedAtBase, UntouchedApproved, Untouched, At, SameCourse, FileFits,
      NotYetMoved, PutBackAgain, TakenAway, RecordsFit, Recoverable, Preparing, Applying,
      Undoing
<1>4. \A f \in Files : CopiesFit(f)'
  BY <1>a, <1>b, <1>c, <1>d, Facts, Constants
  DEF CopiesFit, Staged, NothingStaged, NoBackup, BackupCompared, At, RecordsFit, Preparing,
      Applying, Undoing
<1>5. \A f \in Untouched' : FileFits(f)'
  BY <1>a, <1>b, <1>c, <1>d, Facts, Constants
  DEF FileFits, NotYetMoved, PutBackAgain, TakenAway, CopiesFit, Staged, NothingStaged,
      NoBackup, BackupCompared, Recoverable, Untouched, At, RecordsFit, Preparing, Applying,
      Undoing
<1>6. QED
  BY <1>1, <1>2, <1>3, <1>4, <1>5 DEF IInv

LEMMA UndoTheirsStep ==
  ASSUME IInv, Undo, path[pc.f] \notin {None, Before(pc.f)},
         path[pc.f] # After(pc.f), concurrent[pc.f] = None
  PROVE  IInv'
<1> DEFINE g == pc.f
<1>a. RecordsFit /\ AllOrNone /\ StateOK
  BY DEF IInv
<1>b. (\A f \in Files : CopiesFit(f)) /\ (\A f \in Untouched : FileFits(f))
  BY DEF IInv
<1>c. /\ pc.at = "undo"
      /\ pc' \in PcType
      /\ SameCourse
      /\ path[pc.f] \in UserBytes
      /\ pc'.at = "remove"
      /\ pc'.f = pc.f
  BY Facts, Stays DEF Undo, At, Places, Texts
<1>d. UNCHANGED <<path, backup, incoming, kept, journal, marker, reserved, bound, completed,
                  owed, raced, touched, edits, crashes, errors>>
  BY DEF Undo, project, records, row, user, faults
<1>m1. /\ concurrent' \in FileMap
       /\ \A f \in Files : concurrent'[f] = IF f = g THEN path[g] ELSE concurrent[f]
  <2>1. concurrent' = [concurrent EXCEPT ![g] = path[g]]
    BY DEF Undo
  <2>2. concurrent \in FileMap /\ g \in Files /\ path[g] \in Contents \cup {None}
    BY Facts, Constants DEF Contents
  <2>3. QED
    BY <2>1, <2>2 DEF FileMap
<1>1. StateOK'
  BY <1>a, <1>b, <1>c, <1>d, <1>m1, Facts, Constants
  DEF StateOK, Texts
<1>2. RecordsFit'
  BY <1>a, <1>b, <1>c, <1>d, <1>m1, Facts, Constants
  DEF RecordsFit, At, Preparing, Applying, Undoing, SameCourse
<1>3. AllOrNone'
  BY <1>a, <1>b, <1>c, <1>d, <1>m1, Facts, Constants
  DEF AllOrNone, UntouchedAtBase, UntouchedApproved, Untouched, At, SameCourse, FileFits,
      NotYetMoved, PutBackAgain, TakenAway, RecordsFit, Recoverable, Preparing, Applying,
      Undoing
<1>4. \A f \in Files : CopiesFit(f)'
  BY <1>a, <1>b, <1>c, <1>d, <1>m1, Facts, Constants
  DEF CopiesFit, Staged, NothingStaged, NoBackup, BackupCompared, At, RecordsFit, Preparing,
      Applying, Undoing
<1>5. \A f \in Untouched' : FileFits(f)'
  BY <1>a, <1>b, <1>c, <1>d, <1>m1, Facts, Constants
  DEF FileFits, NotYetMoved, PutBackAgain, TakenAway, CopiesFit, Staged, NothingStaged,
      NoBackup, BackupCompared, Recoverable, Untouched, At, RecordsFit, Preparing, Applying,
      Undoing
<1>6. QED
  BY <1>1, <1>2, <1>3, <1>4, <1>5 DEF IInv

LEMMA RemoveStep ==
  ASSUME IInv, Remove, path[pc.f] # None
  PROVE  IInv'
<1> DEFINE g == pc.f
<1>a. RecordsFit /\ AllOrNone /\ StateOK
  BY DEF IInv
<1>b. (\A f \in Files : CopiesFit(f)) /\ (\A f \in Untouched : FileFits(f))
  BY DEF IInv
<1>c. pc.at = "remove" /\ pc' \in PcType /\ SameCourse /\ path[pc.f] # None
      /\ \/ (pc.f = N /\ pc'.at = "restore" /\ pc'.f = 1)
         \/ (pc.f < N /\ pc'.at = "undo" /\ pc'.f = pc.f + 1)
  BY Facts, GoesOn DEF Remove, At, Places
<1>d. UNCHANGED <<backup, concurrent, kept, journal, marker, reserved, bound, completed, owed, raced,
                  touched, edits, crashes, errors>>
  BY DEF Remove, project, records, row, user, faults
<1>m1. path' \in FileMap /\ \A f \in Files : path'[f] = IF f = g THEN None ELSE path[f]
  <2>1. path' = [path EXCEPT ![g] = None]
    BY DEF Remove
  <2>2. path \in FileMap /\ g \in Files /\ None \in Contents \cup {None}
    BY Facts, Constants DEF Contents
  <2>3. QED
    BY <2>1, <2>2 DEF FileMap
<1>m2. /\ incoming' \in FileMap
       /\ \A f \in Files : incoming'[f] = IF f = g THEN None ELSE incoming[f]
  <2>1. incoming' = [incoming EXCEPT ![g] = None]
    BY DEF Remove
  <2>2. incoming \in FileMap /\ g \in Files /\ None \in Contents \cup {None}
    BY Facts, Constants DEF Contents
  <2>3. QED
    BY <2>1, <2>2 DEF FileMap
<1>1. StateOK'
  BY <1>a, <1>b, <1>c, <1>d, <1>m1, <1>m2, Facts, Constants
  DEF StateOK, Texts
<1>2. RecordsFit'
  BY <1>a, <1>b, <1>c, <1>d, <1>m1, <1>m2, Facts, Constants
  DEF RecordsFit, At, Preparing, Applying, Undoing, SameCourse
<1>3. AllOrNone'
  BY <1>a, <1>b, <1>c, <1>d, <1>m1, <1>m2, Facts, Constants
  DEF AllOrNone, UntouchedAtBase, UntouchedApproved, Untouched, At, SameCourse, FileFits,
      NotYetMoved, PutBackAgain, TakenAway, RecordsFit, Recoverable, Preparing, Applying,
      Undoing
<1>4. \A f \in Files : CopiesFit(f)'
  BY <1>a, <1>b, <1>c, <1>d, <1>m1, <1>m2, Facts, Constants
  DEF CopiesFit, Staged, NothingStaged, NoBackup, BackupCompared, At, RecordsFit, Preparing,
      Applying, Undoing
<1>5. \A f \in Untouched' : FileFits(f)'
  BY <1>a, <1>b, <1>c, <1>d, <1>m1, <1>m2, Facts, Constants
  DEF FileFits, NotYetMoved, PutBackAgain, TakenAway, CopiesFit, Staged, NothingStaged,
      NoBackup, BackupCompared, Recoverable, Untouched, At, RecordsFit, Preparing, Applying,
      Undoing
<1>6. QED
  BY <1>1, <1>2, <1>3, <1>4, <1>5 DEF IInv

LEMMA NothingToRestoreStep ==
  ASSUME IInv, Restore, backup[pc.f] = None
  PROVE  IInv'
<1>a. RecordsFit /\ AllOrNone /\ StateOK
  BY DEF IInv
<1>b. (\A f \in Files : CopiesFit(f)) /\ (\A f \in Untouched : FileFits(f))
  BY DEF IInv
<1>c. pc.at = "restore" /\ pc' \in PcType /\ SameCourse /\ backup[pc.f] = None
      /\ \/ (pc.f = N /\ pc'.at = "unjournal" /\ pc'.f = 1)
         \/ (pc.f < N /\ pc'.at = "restore" /\ pc'.f = pc.f + 1)
  BY Facts, GoesOn DEF Restore, At, Places
<1>d. UNCHANGED <<path, backup, incoming, concurrent, kept, journal, marker, reserved, bound,
                  completed, owed, raced, touched, edits, crashes, errors>>
  BY DEF Restore, project, records, row, user, faults
<1>1. StateOK'
  BY <1>a, <1>b, <1>c, <1>d, Facts, Constants
  DEF StateOK, Texts
<1>2. RecordsFit'
  BY <1>a, <1>b, <1>c, <1>d, Facts, Constants
  DEF RecordsFit, At, Preparing, Applying, Undoing, SameCourse
<1>3. AllOrNone'
  <2>1. CASE pc.f < N
    BY <2>1, <1>a, <1>b, <1>c, <1>d, Facts, Constants
    DEF AllOrNone, RecordsFit, At, Undoing
  <2>2. CASE pc.f = N
    <3>1. ASSUME NEW f \in Untouched PROVE path[f] = Before(f)
      <4>1. /\ FileFits(f) /\ f \in Nat /\ pc.f \in Nat /\ f <= pc.f
            /\ journal # None /\ f \in Files
        BY <2>2, <1>a, <1>b, <1>c, Facts, Constants DEF RecordsFit, Undoing
      <4>2. f < pc.f \/ f = pc.f
        BY <4>1
      <4>3. QED
        BY <4>1, <4>2, <1>c, Facts, Constants
        DEF FileFits, NotYetMoved, PutBackAgain, TakenAway, Recoverable, At, Undoing
    <3>2. UntouchedAtBase'
      BY <3>1, <1>d DEF UntouchedAtBase, Untouched
    <3>3. pc'.why # "commit"
      BY <1>a, <1>c DEF RecordsFit, SameCourse, Undoing
    <3>4. journal' # None /\ pc'.at = "unjournal"
      BY <2>2, <1>a, <1>c, <1>d, Constants DEF RecordsFit, Undoing
    <3>5. QED
      BY <3>2, <3>3, <3>4 DEF AllOrNone, At
  <2>3. QED
    BY <2>1, <2>2, <1>c
<1>4. \A f \in Files : CopiesFit(f)'
  BY <1>a, <1>b, <1>c, <1>d, Facts, Constants
  DEF CopiesFit, Staged, NothingStaged, NoBackup, BackupCompared, At, RecordsFit, Preparing,
      Applying, Undoing
<1>5. \A f \in Untouched' : FileFits(f)'
  BY <1>a, <1>b, <1>c, <1>d, Facts, Constants
  DEF FileFits, NotYetMoved, PutBackAgain, TakenAway, CopiesFit, Staged, NothingStaged,
      NoBackup, BackupCompared, Recoverable, Untouched, At, RecordsFit, Preparing, Applying,
      Undoing
<1>6. QED
  BY <1>1, <1>2, <1>3, <1>4, <1>5 DEF IInv

LEMMA PutBackupStep ==
  ASSUME IInv, Restore, backup[pc.f] # None, backup[pc.f] = Before(pc.f),
         path[pc.f] \in {None, Before(pc.f)}
  PROVE  IInv'
<1> DEFINE g == pc.f
<1>a. RecordsFit /\ AllOrNone /\ StateOK
  BY DEF IInv
<1>b. (\A f \in Files : CopiesFit(f)) /\ (\A f \in Untouched : FileFits(f))
  BY DEF IInv
<1>c. /\ pc.at = "restore"
      /\ pc' \in PcType
      /\ SameCourse
      /\ backup[pc.f] # None
      /\ backup[pc.f] = Before(pc.f)
      /\ path[pc.f] \in {None, Before(pc.f)} /\ pc'.at = "unback" /\ pc'.f = pc.f
  BY Facts, Stays DEF Restore, At, Places
<1>d. UNCHANGED <<backup, incoming, concurrent, kept, journal, marker, reserved, bound,
                  completed, owed, raced, touched, edits, crashes, errors>>
  BY DEF Restore, project, records, row, user, faults
<1>m1. path' \in FileMap /\ \A f \in Files : path'[f] = IF f = g THEN Before(g) ELSE path[f]
  <2>1. CASE path[g] = None
    <3>1. path' = [path EXCEPT ![g] = backup[g]]
      BY <2>1 DEF Restore
    <3>2. backup[g] \in Contents \cup {None} /\ g \in Files
      BY Facts
    <3>3. path' \in FileMap /\ \A f \in Files : path'[f] = IF f = g THEN backup[g] ELSE path[f]
      BY <3>1, <3>2, Facts DEF FileMap
    <3>4. QED
      BY <2>1, <3>3, <1>c
  <2>2. CASE path[g] # None
    BY <2>2, <1>c, Facts DEF Restore
  <2>3. QED
    BY <2>1, <2>2
<1>1. StateOK'
  BY <1>a, <1>b, <1>c, <1>d, <1>m1, Facts, Constants
  DEF StateOK, Texts
<1>2. RecordsFit'
  BY <1>a, <1>b, <1>c, <1>d, <1>m1, Facts, Constants
  DEF RecordsFit, At, Preparing, Applying, Undoing, SameCourse
<1>3. AllOrNone'
  BY <1>a, <1>b, <1>c, <1>d, <1>m1, Facts, Constants
  DEF AllOrNone, UntouchedAtBase, UntouchedApproved, Untouched, At, SameCourse, FileFits,
      NotYetMoved, PutBackAgain, TakenAway, RecordsFit, Recoverable, Preparing, Applying,
      Undoing
<1>4. \A f \in Files : CopiesFit(f)'
  BY <1>a, <1>b, <1>c, <1>d, <1>m1, Facts, Constants
  DEF CopiesFit, Staged, NothingStaged, NoBackup, BackupCompared, At, RecordsFit, Preparing,
      Applying, Undoing
<1>5. \A f \in Untouched' : FileFits(f)'
  BY <1>a, <1>b, <1>c, <1>d, <1>m1, Facts, Constants
  DEF FileFits, NotYetMoved, PutBackAgain, TakenAway, CopiesFit, Staged, NothingStaged,
      NoBackup, BackupCompared, Recoverable, Untouched, At, RecordsFit, Preparing, Applying,
      Undoing
<1>6. QED
  BY <1>1, <1>2, <1>3, <1>4, <1>5 DEF IInv

LEMMA RestoreFailsStep ==
  ASSUME IInv, Restore, backup[pc.f] # None,
         ~(backup[pc.f] = Before(pc.f) /\ path[pc.f] \in {None, Before(pc.f)})
  PROVE  IInv'
<1> DEFINE g == pc.f
<1>a. RecordsFit /\ AllOrNone /\ StateOK
  BY DEF IInv
<1>b. (\A f \in Files : CopiesFit(f)) /\ (\A f \in Untouched : FileFits(f))
  BY DEF IInv
<1>c. /\ pc.at = "restore"
      /\ pc' \in PcType
      /\ SameCourse
      /\ backup[pc.f] # None
      /\ pc'.at = "failed"
      /\ pc'.f = 1
      /\ ~(backup[pc.f] = Before(pc.f) /\ path[pc.f] \in {None, Before(pc.f)})
  BY Facts, Starts DEF Restore, Fail, At, Places
<1>d. UNCHANGED <<backup, incoming, concurrent, kept, journal, marker, reserved, bound,
                  completed, owed, raced, touched, edits, crashes, errors>>
  BY DEF Restore, project, records, row, user, faults
<1>m1. /\ path' \in FileMap
       /\ \A f \in Files : path'[f] = IF f = g /\ path[g] = None THEN backup[g] ELSE path[f]
  <2>1. CASE path[g] = None
    <3>1. path' = [path EXCEPT ![g] = backup[g]]
      BY <2>1 DEF Restore
    <3>2. backup[g] \in Contents \cup {None} /\ g \in Files
      BY Facts
    <3>3. path' \in FileMap /\ \A f \in Files : path'[f] = IF f = g THEN backup[g] ELSE path[f]
      BY <3>1, <3>2, Facts DEF FileMap
    <3>4. QED
      BY <2>1, <3>3, <1>c
  <2>2. CASE path[g] # None
    BY <2>2, <1>c, Facts DEF Restore
  <2>3. QED
    BY <2>1, <2>2
<1>1. StateOK'
  BY <1>a, <1>b, <1>c, <1>d, <1>m1, Facts, Constants
  DEF StateOK, Texts
<1>2. RecordsFit'
  BY <1>a, <1>b, <1>c, <1>d, <1>m1, Facts, Constants
  DEF RecordsFit, At, Preparing, Applying, Undoing, SameCourse
<1>3. AllOrNone'
  BY <1>a, <1>b, <1>c, <1>d, <1>m1, Facts, Constants
  DEF AllOrNone, UntouchedAtBase, UntouchedApproved, Untouched, At, SameCourse, FileFits,
      NotYetMoved, PutBackAgain, TakenAway, RecordsFit, Recoverable, Preparing, Applying,
      Undoing
<1>4. \A f \in Files : CopiesFit(f)'
  BY <1>a, <1>b, <1>c, <1>d, <1>m1, Facts, Constants
  DEF CopiesFit, Staged, NothingStaged, NoBackup, BackupCompared, At, RecordsFit, Preparing,
      Applying, Undoing
<1>5. \A f \in Untouched' : FileFits(f)'
  BY <1>a, <1>b, <1>c, <1>d, <1>m1, Facts, Constants
  DEF FileFits, NotYetMoved, PutBackAgain, TakenAway, CopiesFit, Staged, NothingStaged,
      NoBackup, BackupCompared, Recoverable, Untouched, At, RecordsFit, Preparing, Applying,
      Undoing
<1>6. QED
  BY <1>1, <1>2, <1>3, <1>4, <1>5 DEF IInv

LEMMA FailedStep == IInv /\ Failed => IInv'
<1> SUFFICES ASSUME IInv, Failed PROVE IInv'
  OBVIOUS
<1>a. RecordsFit /\ AllOrNone /\ StateOK
  BY DEF IInv
<1>b. (\A f \in Files : CopiesFit(f)) /\ (\A f \in Untouched : FileFits(f))
  BY DEF IInv
<1>c. pc.at = "failed" /\ pc' \in PcType /\ pc'.at = "idle" /\ pc'.f = 1
  BY Facts, IdleIsAPlace DEF Failed, At
<1>d. UNCHANGED <<path, backup, incoming, concurrent, kept, journal, marker, completed, owed, raced,
                  touched, edits, crashes, errors>>
  BY DEF Failed, project, records, row, user, faults
<1>m1. /\ reserved' \in BOOLEAN /\ bound' \in Digests \cup {Payload, None}
       /\ \/ (reserved => reserved') /\ bound' = bound
          \/ journal = None /\ ~marker
  BY <1>a DEF Failed, KeepReservation, RecoveryRequired, StateOK
<1>1. StateOK'
  BY <1>a, <1>b, <1>c, <1>d, <1>m1, Facts, Constants
  DEF StateOK, Texts
<1>2. RecordsFit'
  BY <1>a, <1>b, <1>c, <1>d, <1>m1, Facts, Constants
  DEF RecordsFit, At, Preparing, Applying, Undoing, SameCourse
<1>3. AllOrNone'
  BY <1>a, <1>b, <1>c, <1>d, <1>m1, Facts, Constants
  DEF AllOrNone, UntouchedAtBase, UntouchedApproved, Untouched, At, SameCourse, FileFits,
      NotYetMoved, PutBackAgain, TakenAway, RecordsFit, Recoverable, Preparing, Applying,
      Undoing
<1>4. \A f \in Files : CopiesFit(f)'
  BY <1>a, <1>b, <1>c, <1>d, <1>m1, Facts, Constants
  DEF CopiesFit, Staged, NothingStaged, NoBackup, BackupCompared, At, RecordsFit, Preparing,
      Applying, Undoing
<1>5. \A f \in Untouched' : FileFits(f)'
  BY <1>a, <1>b, <1>c, <1>d, <1>m1, Facts, Constants
  DEF FileFits, NotYetMoved, PutBackAgain, TakenAway, CopiesFit, Staged, NothingStaged,
      NoBackup, BackupCompared, Recoverable, Untouched, At, RecordsFit, Preparing, Applying,
      Undoing
<1>6. QED
  BY <1>1, <1>2, <1>3, <1>4, <1>5 DEF IInv

LEMMA DeliverStep == IInv /\ Deliver => IInv'
<1> SUFFICES ASSUME IInv, Deliver PROVE IInv'
  OBVIOUS
<1>a. RecordsFit /\ AllOrNone /\ StateOK
  BY DEF IInv
<1>b. (\A f \in Files : CopiesFit(f)) /\ (\A f \in Untouched : FileFits(f))
  BY DEF IInv
<1>c. pc.at = "deliver" /\ pc' \in PcType /\ pc'.at = "idle" /\ pc'.f = 1
  BY Facts, IdleIsAPlace DEF Deliver, At
<1>d. UNCHANGED <<path, backup, incoming, concurrent, kept, journal, marker, owed, raced, touched,
                  edits, crashes, errors>>
  BY DEF Deliver, project, records, row, user, faults
<1>m1. /\ reserved' \in BOOLEAN /\ completed' \in BOOLEAN
       /\ bound' \in Digests \cup {Payload, None}
  BY <1>a DEF Deliver, StateOK, row
<1>1. StateOK'
  BY <1>a, <1>b, <1>c, <1>d, <1>m1, Facts, Constants
  DEF StateOK, Texts
<1>2. RecordsFit'
  BY <1>a, <1>b, <1>c, <1>d, <1>m1, Facts, Constants
  DEF RecordsFit, At, Preparing, Applying, Undoing, SameCourse
<1>3. AllOrNone'
  BY <1>a, <1>b, <1>c, <1>d, <1>m1, Facts, Constants
  DEF AllOrNone, UntouchedAtBase, UntouchedApproved, Untouched, At, SameCourse, FileFits,
      NotYetMoved, PutBackAgain, TakenAway, RecordsFit, Recoverable, Preparing, Applying,
      Undoing
<1>4. \A f \in Files : CopiesFit(f)'
  BY <1>a, <1>b, <1>c, <1>d, <1>m1, Facts, Constants
  DEF CopiesFit, Staged, NothingStaged, NoBackup, BackupCompared, At, RecordsFit, Preparing,
      Applying, Undoing
<1>5. \A f \in Untouched' : FileFits(f)'
  BY <1>a, <1>b, <1>c, <1>d, <1>m1, Facts, Constants
  DEF FileFits, NotYetMoved, PutBackAgain, TakenAway, CopiesFit, Staged, NothingStaged,
      NoBackup, BackupCompared, Recoverable, Untouched, At, RecordsFit, Preparing, Applying,
      Undoing
<1>6. QED
  BY <1>1, <1>2, <1>3, <1>4, <1>5 DEF IInv

LEMMA InterruptedStep ==
  ASSUME IInv, ~At("idle"), pc' = Idle, UNCHANGED <<project, records, row, user>>,
         crashes' \in 0 .. MaxCrashes, errors' \in 0 .. MaxErrors
  PROVE  IInv'
<1>a. RecordsFit /\ AllOrNone /\ StateOK
  BY DEF IInv
<1>b. (\A f \in Files : CopiesFit(f)) /\ (\A f \in Untouched : FileFits(f))
  BY DEF IInv
<1>c. pc.at # "idle" /\ pc' \in PcType /\ pc'.at = "idle" /\ pc'.f = 1
  BY IdleIsAPlace DEF At
<1>d. UNCHANGED <<path, backup, incoming, concurrent, kept, journal, marker, reserved, bound,
                  completed, owed, raced, touched, edits>>
  BY DEF project, records, row, user, faults
<1>m1. crashes' \in 0 .. MaxCrashes
  OBVIOUS
<1>m2. errors' \in 0 .. MaxErrors
  OBVIOUS
<1>1. StateOK'
  BY <1>a, <1>b, <1>c, <1>d, <1>m1, <1>m2, Facts, Constants
  DEF StateOK, Texts
<1>2. RecordsFit'
  BY <1>a, <1>b, <1>c, <1>d, <1>m1, <1>m2, Facts, Constants
  DEF RecordsFit, At, Preparing, Applying, Undoing, SameCourse
<1>3. AllOrNone'
  BY <1>a, <1>b, <1>c, <1>d, <1>m1, <1>m2, Facts, Constants
  DEF AllOrNone, UntouchedAtBase, UntouchedApproved, Untouched, At, SameCourse, FileFits,
      NotYetMoved, PutBackAgain, TakenAway, RecordsFit, Recoverable, Preparing, Applying,
      Undoing
<1>4. \A f \in Files : CopiesFit(f)'
  BY <1>a, <1>b, <1>c, <1>d, <1>m1, <1>m2, Facts, Constants
  DEF CopiesFit, Staged, NothingStaged, NoBackup, BackupCompared, At, RecordsFit, Preparing,
      Applying, Undoing
<1>5. \A f \in Untouched' : FileFits(f)'
  BY <1>a, <1>b, <1>c, <1>d, <1>m1, <1>m2, Facts, Constants
  DEF FileFits, NotYetMoved, PutBackAgain, TakenAway, CopiesFit, Staged, NothingStaged,
      NoBackup, BackupCompared, Recoverable, Untouched, At, RecordsFit, Preparing, Applying,
      Undoing
<1>6. QED
  BY <1>1, <1>2, <1>3, <1>4, <1>5 DEF IInv

(***************************************************************************)
(* The user, and all steps together.                                       *)
(***************************************************************************)
LEMMA EditStep ==
  ASSUME IInv, NEW e \in Files, NEW new \in UserBytes \cup {None, Before(e)}, UserEdits(e, new)
  PROVE  IInv'
<1>a. RecordsFit /\ AllOrNone /\ StateOK
  BY DEF IInv
<1>b. (\A f \in Files : CopiesFit(f)) /\ (\A f \in Untouched : FileFits(f))
  BY DEF IInv
<1>c. pc \in PcType
  BY Facts
<1>d. UNCHANGED <<backup, incoming, concurrent, kept, journal, marker, reserved, bound,
                  completed, crashes, errors, pc>>
  BY DEF UserEdits, project, records, row, user, faults
<1>m1. path' \in FileMap /\ \A f \in Files : path'[f] = IF f = e THEN new ELSE path[f]
  <2>1. path' = [path EXCEPT ![e] = new]
    BY DEF UserEdits
  <2>2. path \in FileMap /\ e \in Files /\ new \in Contents \cup {None}
    BY Facts, Constants DEF Contents
  <2>3. QED
    BY <2>1, <2>2 DEF FileMap
<1>m2. owed' \subseteq UserBytes /\ raced' \subseteq UserBytes
  BY <1>a DEF UserEdits, StateOK
<1>m3. touched' \subseteq Files /\ touched \subseteq touched' /\ e \in touched'
  BY <1>a DEF UserEdits, StateOK
<1>m4. edits' \in 0 .. MaxEdits
  <2>1. edits \in 0 .. MaxEdits /\ edits < MaxEdits /\ edits' = edits + 1 /\ MaxEdits \in Nat
    BY <1>a, Constants DEF UserEdits, StateOK
  <2>2. QED
    BY ONLY <2>1
<1>1. StateOK'
  BY <1>a, <1>b, <1>c, <1>d, <1>m1, <1>m2, <1>m3, <1>m4, Facts, Constants
  DEF StateOK, Texts
<1>2. RecordsFit'
  BY <1>a, <1>b, <1>c, <1>d, <1>m1, <1>m2, <1>m3, <1>m4, Facts, Constants
  DEF RecordsFit, At, Preparing, Applying, Undoing, SameCourse
<1>3. AllOrNone'
  BY <1>a, <1>b, <1>c, <1>d, <1>m1, <1>m2, <1>m3, <1>m4, Facts, Constants
  DEF AllOrNone, UntouchedAtBase, UntouchedApproved, Untouched, At, SameCourse, FileFits,
      NotYetMoved, PutBackAgain, TakenAway, RecordsFit, Recoverable, Preparing, Applying,
      Undoing
<1>4. \A f \in Files : CopiesFit(f)'
  BY <1>a, <1>b, <1>c, <1>d, <1>m1, <1>m2, <1>m3, <1>m4, Facts, Constants
  DEF CopiesFit, Staged, NothingStaged, NoBackup, BackupCompared, At, RecordsFit, Preparing,
      Applying, Undoing
<1>5. \A f \in Untouched' : FileFits(f)'
  BY <1>a, <1>b, <1>c, <1>d, <1>m1, <1>m2, <1>m3, <1>m4, Facts, Constants
  DEF FileFits, NotYetMoved, PutBackAgain, TakenAway, CopiesFit, Staged, NothingStaged,
      NoBackup, BackupCompared, Recoverable, Untouched, At, RecordsFit, Preparing, Applying,
      Undoing
<1>6. QED
  BY <1>1, <1>2, <1>3, <1>4, <1>5 DEF IInv

LEMMA Inductive == IInv /\ [Next]_vars => IInv'
<1> SUFFICES ASSUME IInv, [Next]_vars PROVE IInv'
  OBVIOUS
<1>1. CASE Promote
  <2>0. crashes \in 0 .. MaxCrashes /\ errors \in 0 .. MaxErrors /\ marker \in BOOLEAN
    BY DEF IInv, StateOK
  <2>1. CASE Recover
    BY <2>1, RecoverStep
  <2>2. CASE Compare
    BY <2>2, CompareStep
  <2>3. CASE BindJournal
    BY <2>3, BindJournalStep
  <2>4. CASE WriteJournal
    BY <2>4, WriteJournalStep
  <2>5. CASE Recheck
    BY <2>5, RecheckStep
  <2>6. CASE Stage
    BY <2>6, StageStep
  <2>7. CASE MoveAside
    <3>1. CASE path[pc.f] # None /\ backup[pc.f] # None
      <4>1. /\ Rollback("abort") /\ pc.at = "move"
            /\ UNCHANGED <<project, records, row, user, faults>>
        BY <2>7, <3>1 DEF MoveAside, At, project
      <4>2. QED
        BY <2>0, <4>1, RollBackStep DEF RolledBackOnError, records, faults
    <3>2. QED
      BY <2>7, <3>1, SkipStep, SetAsideStep
  <2>8. CASE CheckMoved
    <3>1. CASE backup[pc.f] # Before(pc.f) /\ path[pc.f] # None
      <4>1. /\ Rollback("abort") /\ pc.at = "moved"
            /\ UNCHANGED <<project, records, row, user, faults>>
        BY <2>8, <3>1 DEF CheckMoved, At
      <4>2. QED
        BY <2>0, <4>1, RollBackStep DEF RolledBackOnError, records, faults
    <3>2. QED
      BY <2>8, <3>1, CheckedMovedStep, MovedAnEditStep
  <2>9. CASE PutBack
    BY <2>9, PutBackStep
  <2>10. CASE Install
    <3>1. CASE pc.f \notin Deleted /\ path[pc.f] # None
      <4>1. /\ Rollback("abort") /\ pc.at = "install"
            /\ UNCHANGED <<project, records, row, user, faults>>
        BY <2>10, <3>1 DEF Install, At, project
      <4>2. QED
        BY <2>0, <4>1, RollBackStep DEF RolledBackOnError, records, faults
    <3>2. QED
      BY <2>10, <3>1, SkipDeletedStep, LinkStep
  <2>11. CASE Unstage
    BY <2>11, UnstageStep
  <2>12. CASE Verify
    <3>1. CASE ~Promoted
      <4>1. /\ Rollback("abort") /\ pc.at = "verify"
            /\ UNCHANGED <<project, records, row, user, faults>>
        BY <2>12, <3>1 DEF Verify, At
      <4>2. QED
        BY <2>0, <4>1, RollBackStep DEF RolledBackOnError, records, faults
    <3>2. QED
      BY <2>12, <3>1, VerifiedStep
  <2>13. CASE Commit
    BY <2>13, CommitStep
  <2>14. CASE Clean
    BY <2>14, CleanStep
  <2>15. CASE DropJournal
    BY <2>15, DropJournalStep
  <2>16. CASE DropMarker
    BY <2>16, DropMarkerStep
  <2>17. CASE Undo
    <3>1. CASE /\ path[pc.f] \notin {None, Before(pc.f)} /\ path[pc.f] # After(pc.f)
               /\ concurrent[pc.f] # None
      <4>1. ~At("idle") /\ Fail /\ UNCHANGED <<project, records, row, user, faults>>
        BY <2>17, <3>1 DEF Undo, At, project
      <4>2. QED
        BY <2>0, <4>1, FailStep DEF faults
    <3>2. QED
      BY <2>17, <3>1, NothingToUndoStep, UndoOursStep, UndoTheirsStep
  <2>18. CASE Remove
    <3>1. CASE path[pc.f] = None
      <4>1. ~At("idle") /\ Fail /\ UNCHANGED <<project, records, row, user, faults>>
        BY <2>18, <3>1 DEF Remove, At, project
      <4>2. QED
        BY <2>0, <4>1, FailStep DEF faults
    <3>2. QED
      BY <2>18, <3>1, RemoveStep
  <2>19. CASE Restore
    BY <2>19, NothingToRestoreStep, PutBackupStep, RestoreFailsStep
  <2>20. CASE DropBackup
    BY <2>20, DropBackupStep
  <2>21. CASE Failed
    BY <2>21, FailedStep
  <2>22. CASE Deliver
    BY <2>22, DeliverStep
  <2>23. QED
    BY <1>1, <2>1, <2>2, <2>3, <2>4, <2>5, <2>6, <2>7, <2>8, <2>9, <2>10, <2>11, <2>12, <2>13,
       <2>14, <2>15, <2>16, <2>17, <2>18, <2>19, <2>20, <2>21, <2>22 DEF Promote
<1>2. CASE Crash
  <2>1. /\ crashes \in 0 .. MaxCrashes /\ MaxCrashes \in Nat /\ crashes < MaxCrashes
        /\ crashes' = crashes + 1
    BY <1>2, Constants DEF IInv, StateOK, Crash
  <2>2. crashes' \in 0 .. MaxCrashes
    BY ONLY <2>1
  <2>3. errors' \in 0 .. MaxErrors
    BY <1>2 DEF IInv, StateOK, Crash
  <2>4. ~At("idle") /\ pc' = Idle /\ UNCHANGED <<project, records, row, user>>
    BY <1>2 DEF Crash
  <2>5. QED
    BY <2>2, <2>3, <2>4, InterruptedStep
<1>3. CASE IoFails
  <2>1. /\ errors \in 0 .. MaxErrors /\ MaxErrors \in Nat /\ errors < MaxErrors
        /\ errors' = errors + 1
    BY <1>3, Constants DEF IInv, StateOK, IoFails
  <2>2. errors' \in 0 .. MaxErrors
    BY ONLY <2>1
  <2>3. crashes' \in 0 .. MaxCrashes
    BY <1>3 DEF IInv, StateOK, IoFails
  <2>4. ~At("idle") /\ UNCHANGED <<project, journal, row, user>>
    BY <1>3 DEF IoFails
  <2>5. (marker' = marker \/ marker' = TRUE) /\ (marker' # marker => pc.at = "commit")
    BY <1>3 DEF IoFails, At
  <2>6. marker' \in BOOLEAN
    BY <2>5, Zenon DEF IInv, StateOK
  <2>7. CASE pc.at \in RolledBackOnError
    <3>1. Rollback("abort")
      BY <1>3, <2>7 DEF IoFails, At, RolledBackOnError
    <3>2. QED
      BY <2>2, <2>3, <2>4, <2>5, <2>6, <2>7, <3>1, RollBackStep
  <2>8. CASE pc.at \notin RolledBackOnError
    <3>1. UNCHANGED records
      BY <2>4, <2>5, <2>8 DEF RolledBackOnError, records
    <3>2. pc' = Idle \/ Fail
      BY <1>3, <2>8 DEF IoFails
    <3>3. QED
      BY <2>2, <2>3, <2>4, <3>1, <3>2, FailStep, InterruptedStep
  <2>9. QED
    BY <2>7, <2>8
<1>4. CASE UserActs
  BY <1>4, EditStep DEF UserActs
<1>5. CASE BeginPromotion
  BY <1>5, BeginPromotionStep
<1>6. CASE UNCHANGED vars
  <2>1. UNCHANGED <<path, backup, incoming, concurrent, kept, journal, marker, reserved, bound,
                    completed, pc, owed, raced, touched, edits, crashes, errors>>
    BY <1>6 DEF vars, project, records, row, user, faults
  <2>2. StateOK' /\ RecordsFit'
    BY <2>1 DEF IInv, StateOK, RecordsFit, At
  <2>3. AllOrNone'
    BY <2>1 DEF IInv, AllOrNone, UntouchedAtBase, UntouchedApproved, Untouched, At
  <2>4. \A f \in Files : CopiesFit(f)'
    BY <2>1 DEF IInv, CopiesFit, Staged, NothingStaged, NoBackup, BackupCompared, At
  <2>5. \A f \in Untouched' : FileFits(f)'
    BY <2>1 DEF IInv, FileFits, NotYetMoved, PutBackAgain, TakenAway, Recoverable, Untouched, At
  <2>6. QED
    BY <2>2, <2>3, <2>4, <2>5 DEF IInv
<1>7. QED
  BY <1>1, <1>2, <1>3, <1>4, <1>5, <1>6 DEF Next

(* Every reachable state satisfies the inductive invariant. *)
THEOREM Invariance == Spec => []IInv
<1>1. QED
  BY InitEstablishes, Inductive, PTL DEF Spec

(***************************************************************************)
(* The user's bytes.                                                       *)
(***************************************************************************)
Somewhere(b) ==
  \/ \E f \in Files : path[f] = b \/ backup[f] = b \/ concurrent[f] = b
  \/ b \in kept

LEMMA CopiesAreSomewhere ==
  /\ \A b : b \in Copies <=> Somewhere(b)
  /\ \A b : b \in Copies' <=> Somewhere(b)'
BY DEF Copies, Somewhere

LEMMA WriteJournalKeeps ==
  ASSUME IInv, Owed \subseteq Copies, WriteJournal
  PROVE  Owed \subseteq Copies'
<1>1. kept' = kept \cup ({concurrent[f] : f \in Files} \ {None})
  BY DEF WriteJournal
<1>2. UNCHANGED <<path, backup>>
  BY DEF WriteJournal
<1>3. ASSUME NEW b \in Owed PROVE Somewhere(b)'
  <2>1. Somewhere(b) /\ b \in UserBytes
    BY CopiesAreSomewhere DEF IInv, StateOK, Owed
  <2>2. b \notin {None, "base", "approved"}
    BY <2>1, Constants
  <2>3. \A f \in Files : b # Before(f) /\ b # After(f)
    BY <2>2, Constants
  <2>4. QED
    BY <1>1, <1>2, <2>1, <2>2, <2>3, Facts DEF Somewhere
<1>4. QED
  BY <1>3, CopiesAreSomewhere

LEMMA SetAsideKeeps ==
  ASSUME IInv, Owed \subseteq Copies, MoveAside, path[pc.f] # None, backup[pc.f] = None
  PROVE  Owed \subseteq Copies'
<1> DEFINE g == pc.f
<1>1. path[g] # None /\ backup[g] = None
  OBVIOUS
<1>2. UNCHANGED <<concurrent, kept>>
  BY DEF MoveAside, project
<1>3. \A f \in Files : path'[f] = IF f = g THEN None ELSE path[f]
  <2>1. path' = [path EXCEPT ![g] = None]
    BY <1>1 DEF MoveAside
  <2>2. QED
    BY <2>1, Facts DEF FileMap
<1>4. \A f \in Files : backup'[f] = IF f = g THEN path[g] ELSE backup[f]
  <2>1. backup' = [backup EXCEPT ![g] = path[g]]
    BY <1>1 DEF MoveAside
  <2>2. QED
    BY <2>1, Facts DEF FileMap
<1>5. ASSUME NEW b \in Owed PROVE Somewhere(b)'
  <2>1. Somewhere(b) /\ b \in UserBytes
    BY CopiesAreSomewhere DEF IInv, StateOK, Owed
  <2>2. b \notin {None, "base", "approved"}
    BY <2>1, Constants
  <2>3. \A f \in Files : b # Before(f) /\ b # After(f)
    BY <2>2, Constants
  <2>4. QED
    BY <1>1, <1>2, <1>3, <1>4, <2>1, <2>2, <2>3, Facts DEF Somewhere
<1>6. QED
  BY <1>5, CopiesAreSomewhere

LEMMA PutBackKeeps ==
  ASSUME IInv, Owed \subseteq Copies, PutBack, path[pc.f] \notin Owed
  PROVE  Owed \subseteq Copies'
<1> DEFINE g == pc.f
<1>1. path[g] \notin Owed
  OBVIOUS
<1>2. UNCHANGED <<concurrent, kept>>
  BY DEF PutBack, project
<1>3. \A f \in Files : path'[f] = IF f = g THEN backup[g] ELSE path[f]
  <2>1. path' = [path EXCEPT ![g] = backup[g]]
    BY DEF PutBack
  <2>2. QED
    BY <2>1, Facts DEF FileMap
<1>4. \A f \in Files : backup'[f] = IF f = g THEN None ELSE backup[f]
  <2>1. backup' = [backup EXCEPT ![g] = None]
    BY DEF PutBack
  <2>2. QED
    BY <2>1, Facts DEF FileMap
<1>5. ASSUME NEW b \in Owed PROVE Somewhere(b)'
  <2>1. Somewhere(b) /\ b \in UserBytes
    BY CopiesAreSomewhere DEF IInv, StateOK, Owed
  <2>2. b \notin {None, "base", "approved"}
    BY <2>1, Constants
  <2>3. \A f \in Files : b # Before(f) /\ b # After(f)
    BY <2>2, Constants
  <2>4. QED
    BY <1>1, <1>2, <1>3, <1>4, <2>1, <2>2, <2>3, Facts DEF Somewhere
<1>6. QED
  BY <1>5, CopiesAreSomewhere

LEMMA LinkKeeps ==
  ASSUME IInv, Owed \subseteq Copies, Install, pc.f \notin Deleted, path[pc.f] = None
  PROVE  Owed \subseteq Copies'
<1> DEFINE g == pc.f
<1>1. path[g] = None
  OBVIOUS
<1>2. UNCHANGED <<backup, concurrent, kept>>
  BY DEF Install, project
<1>3. \A f \in Files : path'[f] = IF f = g THEN incoming[g] ELSE path[f]
  <2>1. path' = [path EXCEPT ![g] = incoming[g]]
    BY <1>1 DEF Install
  <2>2. QED
    BY <2>1, Facts DEF FileMap
<1>4. ASSUME NEW b \in Owed PROVE Somewhere(b)'
  <2>1. Somewhere(b) /\ b \in UserBytes
    BY CopiesAreSomewhere DEF IInv, StateOK, Owed
  <2>2. b \notin {None, "base", "approved"}
    BY <2>1, Constants
  <2>3. \A f \in Files : b # Before(f) /\ b # After(f)
    BY <2>2, Constants
  <2>4. QED
    BY <1>1, <1>2, <1>3, <2>1, <2>2, <2>3, Facts DEF Somewhere
<1>5. QED
  BY <1>4, CopiesAreSomewhere

LEMMA CleanKeeps ==
  ASSUME IInv, Owed \subseteq Copies, Clean
  PROVE  Owed \subseteq Copies'
<1> DEFINE g == pc.f
<1>1. backup[g] \in {None, Before(g)}
  BY Facts
  DEF Clean, IInv, RecordsFit, CopiesFit, Staged, NothingStaged, NoBackup, BackupCompared
<1>2. UNCHANGED <<path, concurrent, kept>>
  BY DEF Clean, project
<1>3. \A f \in Files : backup'[f] = IF f = g THEN None ELSE backup[f]
  <2>1. backup' = [backup EXCEPT ![g] = None]
    BY <1>1 DEF Clean
  <2>2. QED
    BY <2>1, Facts DEF FileMap
<1>4. ASSUME NEW b \in Owed PROVE Somewhere(b)'
  <2>1. Somewhere(b) /\ b \in UserBytes
    BY CopiesAreSomewhere DEF IInv, StateOK, Owed
  <2>2. b \notin {None, "base", "approved"}
    BY <2>1, Constants
  <2>3. \A f \in Files : b # Before(f) /\ b # After(f)
    BY <2>2, Constants
  <2>4. QED
    BY <1>1, <1>2, <1>3, <2>1, <2>2, <2>3, Facts DEF Somewhere
<1>5. QED
  BY <1>4, CopiesAreSomewhere

LEMMA UndoTheirsKeeps ==
  ASSUME IInv, Owed \subseteq Copies, Undo, path[pc.f] \notin {None, Before(pc.f)},
         path[pc.f] # After(pc.f), concurrent[pc.f] = None
  PROVE  Owed \subseteq Copies'
<1> DEFINE g == pc.f
<1>1. concurrent[g] = None
  OBVIOUS
<1>2. UNCHANGED <<path, backup, kept>>
  BY DEF Undo, project
<1>3. \A f \in Files : concurrent'[f] = IF f = g THEN path[g] ELSE concurrent[f]
  <2>1. concurrent' = [concurrent EXCEPT ![g] = path[g]]
    BY <1>1 DEF Undo
  <2>2. QED
    BY <2>1, Facts DEF FileMap
<1>4. ASSUME NEW b \in Owed PROVE Somewhere(b)'
  <2>1. Somewhere(b) /\ b \in UserBytes
    BY CopiesAreSomewhere DEF IInv, StateOK, Owed
  <2>2. b \notin {None, "base", "approved"}
    BY <2>1, Constants
  <2>3. \A f \in Files : b # Before(f) /\ b # After(f)
    BY <2>2, Constants
  <2>4. QED
    BY <1>1, <1>2, <1>3, <2>1, <2>2, <2>3, Facts DEF Somewhere
<1>5. QED
  BY <1>4, CopiesAreSomewhere

LEMMA RemoveKeeps ==
  ASSUME IInv, Owed \subseteq Copies, Remove, path[pc.f] # None,
         path[pc.f] \notin Owed \/ path[pc.f] = concurrent[pc.f]
  PROVE  Owed \subseteq Copies'
<1> DEFINE g == pc.f
<1>1. (path[g] \notin Owed \/ path[g] = concurrent[g]) /\ path[g] # None
  OBVIOUS
<1>2. UNCHANGED <<backup, concurrent, kept>>
  BY DEF Remove, project
<1>3. \A f \in Files : path'[f] = IF f = g THEN None ELSE path[f]
  <2>1. path' = [path EXCEPT ![g] = None]
    BY <1>1 DEF Remove
  <2>2. QED
    BY <2>1, Facts DEF FileMap
<1>4. ASSUME NEW b \in Owed PROVE Somewhere(b)'
  <2>1. Somewhere(b) /\ b \in UserBytes
    BY CopiesAreSomewhere DEF IInv, StateOK, Owed
  <2>2. b \notin {None, "base", "approved"}
    BY <2>1, Constants
  <2>3. \A f \in Files : b # Before(f) /\ b # After(f)
    BY <2>2, Constants
  <2>4. QED
    BY <1>1, <1>2, <1>3, <2>1, <2>2, <2>3, Facts DEF Somewhere
<1>5. QED
  BY <1>4, CopiesAreSomewhere

LEMMA RestoreKeeps ==
  ASSUME IInv, Owed \subseteq Copies, Restore, backup[pc.f] # None
  PROVE  Owed \subseteq Copies'
<1> DEFINE g == pc.f
<1>1. backup[g] # None
  OBVIOUS
<1>2. UNCHANGED <<backup, concurrent, kept>>
  BY DEF Restore, project
<1>3. \A f \in Files : path'[f] = path[f] \/ path[f] = None
  <2>1. CASE path[g] = None
    <3>1. path' = [path EXCEPT ![g] = backup[g]]
      BY <2>1 DEF Restore
    <3>2. QED
      BY <2>1, <3>1, Facts DEF FileMap
  <2>2. CASE path[g] # None
    BY <2>2 DEF Restore
  <2>3. QED
    BY <2>1, <2>2
<1>4. ASSUME NEW b \in Owed PROVE Somewhere(b)'
  <2>1. Somewhere(b) /\ b \in UserBytes
    BY CopiesAreSomewhere DEF IInv, StateOK, Owed
  <2>2. b \notin {None, "base", "approved"}
    BY <2>1, Constants
  <2>3. \A f \in Files : b # Before(f) /\ b # After(f)
    BY <2>2, Constants
  <2>4. QED
    BY <1>1, <1>2, <1>3, <2>1, <2>2, <2>3, Facts DEF Somewhere
<1>5. QED
  BY <1>4, CopiesAreSomewhere

LEMMA DropBackupKeeps ==
  ASSUME IInv, Owed \subseteq Copies, DropBackup
  PROVE  Owed \subseteq Copies'
<1> DEFINE g == pc.f
<1>1. backup[g] \in {None, Before(g)}
  BY Facts DEF DropBackup, IInv, CopiesFit, Staged, NothingStaged, NoBackup, BackupCompared
<1>2. UNCHANGED <<path, concurrent, kept>>
  BY DEF DropBackup, project
<1>3. \A f \in Files : backup'[f] = IF f = g THEN None ELSE backup[f]
  <2>1. backup' = [backup EXCEPT ![g] = None]
    BY <1>1 DEF DropBackup
  <2>2. QED
    BY <2>1, Facts DEF FileMap
<1>4. ASSUME NEW b \in Owed PROVE Somewhere(b)'
  <2>1. Somewhere(b) /\ b \in UserBytes
    BY CopiesAreSomewhere DEF IInv, StateOK, Owed
  <2>2. b \notin {None, "base", "approved"}
    BY <2>1, Constants
  <2>3. \A f \in Files : b # Before(f) /\ b # After(f)
    BY <2>2, Constants
  <2>4. QED
    BY <1>1, <1>2, <1>3, <2>1, <2>2, <2>3, Facts DEF Somewhere
<1>5. QED
  BY <1>4, CopiesAreSomewhere

LEMMA EditKeeps ==
  ASSUME IInv, Owed \subseteq Copies, NEW e \in Files, NEW new, UserEdits(e, new)
  PROVE  Owed' \subseteq Copies'
<1>1. e \in Files
  OBVIOUS
<1>2. UNCHANGED <<backup, concurrent, kept>>
  BY DEF UserEdits, project
<1>3. \A f \in Files : path'[f] = IF f = e THEN new ELSE path[f]
  <2>1. path' = [path EXCEPT ![e] = new]
    BY <1>1 DEF UserEdits
  <2>2. QED
    BY <2>1, Facts DEF FileMap
<1>4. ASSUME NEW b \in Owed' PROVE Somewhere(b)'
  <2>1. CASE b = new
    BY <2>1, <1>1, <1>3 DEF Somewhere
  <2>2. CASE b # new
    <3>1. b \in Owed /\ b # path[e]
      BY <2>2 DEF UserEdits, Owed
    <3>2. Somewhere(b)
      BY <3>1, CopiesAreSomewhere
    <3>3. QED
      BY <3>1, <3>2, <1>2, <1>3 DEF Somewhere
  <2>3. QED
    BY <2>1, <2>2
<1>5. QED
  BY <1>4, CopiesAreSomewhere

(* No edit is taken for what the delivery itself puts at a path. *)
LEMMA OwedAreUserBytes ==
  ASSUME IInv
  PROVE  Owed \subseteq UserBytes /\ None \notin Owed /\ \A f \in Files : After(f) \notin Owed
<1>1. Owed \subseteq UserBytes
  BY DEF IInv, StateOK, Owed
<1>2. \A f \in Files : After(f) \in {None, "approved"}
  BY DEF After
<1>3. QED
  BY <1>1, <1>2, Constants

(* An edit in a window is known as one; another does not reach the path.   *)
LEMMA EditInWindow ==
  ASSUME IInv, BytesAreKept, NEW e \in Files,
         NEW new \in (UserBytes \ (Copies \cup owed)) \cup {None, Before(e)},
         UserEdits(e, new), pc.at \in CheckedPlaces
  PROVE  path'[pc.f] \notin Owed' \/ (path'[pc.f] = path[pc.f] /\ path[pc.f] \in Owed)
<1>1. \A f \in Files : path'[f] = IF f = e THEN new ELSE path[f]
  <2>1. path' = [path EXCEPT ![e] = new]
    BY DEF UserEdits
  <2>2. QED
    BY <2>1, Facts DEF FileMap
<1>2. pc.f \in Files
  BY Facts
<1>3. owed \subseteq UserBytes /\ owed' \subseteq UserBytes
  BY DEF UserEdits, IInv, StateOK
<1>4. new \notin UserBytes \/ (new \in UserBytes /\ new \notin Copies)
  BY Constants
<1>5. CASE e = pc.f
  <2>1. path'[pc.f] = new
    BY <1>1, <1>2, <1>5
  <2>2. new \in UserBytes => new \in raced'
    BY <1>5 DEF UserEdits, InWindow
  <2>3. QED
    BY <2>1, <2>2, <1>3 DEF Owed
<1>6. CASE e # pc.f
  <2>1. path'[pc.f] = path[pc.f]
    BY <1>1, <1>2, <1>6
  <2>2. path[pc.f] \in Copies
    BY <1>2 DEF Copies
  <2>3. ASSUME path[pc.f] \in Owed' PROVE path[pc.f] \in Owed
    <3>1. path[pc.f] \in UserBytes /\ path[pc.f] # new
      BY <2>2, <2>3, <1>3, <1>4 DEF Owed
    <3>2. QED
      BY <2>3, <3>1 DEF Owed, UserEdits
  <2>4. QED
    BY <2>1, <2>3
<1>7. QED
  BY <1>5, <1>6

LEMMA LeavesAlone ==
  ASSUME BytesAreKept, UNCHANGED <<path, backup, concurrent, kept, Owed>>,
         pc'.at \notin CheckedPlaces
  PROVE  BytesAreKept'
BY DEF BytesAreKept, Copies, At, CheckedPlaces

LEMMA Leaves ==
  ASSUME Owed' \subseteq Copies', pc'.at \notin CheckedPlaces
  PROVE  BytesAreKept'
BY DEF BytesAreKept, At, CheckedPlaces

LEMMA BytesInductive ==
  ASSUME IInv, BytesAreKept, [Next]_vars
  PROVE  BytesAreKept'
<1>a. Owed \subseteq Copies /\ pc \in PcType
  BY Facts DEF BytesAreKept
<1>1. CASE Promote
  <2>a. Owed' = Owed
    BY <1>1
    DEF Promote, Recover, Compare, BindJournal, WriteJournal, Recheck, Stage, MoveAside,
        CheckMoved, PutBack, Install, Unstage, Verify, Commit, Clean, DropJournal, DropMarker,
        Undo, Remove, Restore, DropBackup, Failed, Deliver, user, Owed
  <2>1. CASE Recover
    <3>1. UNCHANGED <<path, backup, concurrent, kept>>
      BY <2>1 DEF Recover, project
    <3>2. pc'.at \notin CheckedPlaces
      BY <2>1, <1>a, Starts, RollsBack DEF Recover, Fail, Places, CheckedPlaces, PcType
    <3>3. QED
      BY <2>a, <3>1, <3>2, LeavesAlone
  <2>2. CASE Compare
    <3>1. UNCHANGED <<path, backup, concurrent, kept>>
      BY <2>2 DEF Compare, project
    <3>2. pc'.at \notin CheckedPlaces
      BY <2>2, <1>a, Starts DEF Compare, Fail, Places, CheckedPlaces, PcType
    <3>3. QED
      BY <2>a, <3>1, <3>2, LeavesAlone
  <2>3. CASE BindJournal
    <3>1. UNCHANGED <<path, backup, concurrent, kept>>
      BY <2>3 DEF BindJournal, project
    <3>2. pc'.at \notin CheckedPlaces
      BY <2>3, <1>a, Starts DEF BindJournal, Fail, Places, CheckedPlaces, PcType
    <3>3. QED
      BY <2>a, <3>1, <3>2, LeavesAlone
  <2>4. CASE Recheck
    <3>1. UNCHANGED <<path, backup, concurrent, kept>>
      BY <2>4 DEF Recheck, project
    <3>2. pc'.at \notin CheckedPlaces
      BY <2>4, <1>a, Starts DEF Recheck, Fail, Places, CheckedPlaces, PcType
    <3>3. QED
      BY <2>a, <3>1, <3>2, LeavesAlone
  <2>5. CASE Stage
    <3>1. UNCHANGED <<path, backup, concurrent, kept>>
      BY <2>5 DEF Stage, project
    <3>2. pc'.at \notin CheckedPlaces
      BY <2>5, <1>a, GoesOn DEF Stage, Places, CheckedPlaces, PcType
    <3>3. QED
      BY <2>a, <3>1, <3>2, LeavesAlone
  <2>6. CASE Unstage
    <3>1. UNCHANGED <<path, backup, concurrent, kept>>
      BY <2>6 DEF Unstage, project
    <3>2. pc'.at \notin CheckedPlaces
      BY <2>6, <1>a, GoesOn DEF Unstage, Places, CheckedPlaces, PcType
    <3>3. QED
      BY <2>a, <3>1, <3>2, LeavesAlone
  <2>7. CASE Verify
    <3>1. UNCHANGED <<path, backup, concurrent, kept>>
      BY <2>7 DEF Verify, project
    <3>2. pc'.at \notin CheckedPlaces
      BY <2>7, <1>a, Starts, RollsBack DEF Verify, Places, CheckedPlaces, PcType
    <3>3. QED
      BY <2>a, <3>1, <3>2, LeavesAlone
  <2>8. CASE Commit
    <3>1. UNCHANGED <<path, backup, concurrent, kept>>
      BY <2>8 DEF Commit, project
    <3>2. pc'.at \notin CheckedPlaces
      BY <2>8, <1>a DEF Commit, Places, CheckedPlaces, PcType
    <3>3. QED
      BY <2>a, <3>1, <3>2, LeavesAlone
  <2>9. CASE DropJournal
    <3>1. UNCHANGED <<path, backup, concurrent, kept>>
      BY <2>9 DEF DropJournal, project
    <3>2. pc'.at \notin CheckedPlaces
      BY <2>9, <1>a, Starts DEF DropJournal, Places, CheckedPlaces, PcType
    <3>3. QED
      BY <2>a, <3>1, <3>2, LeavesAlone
  <2>10. CASE DropMarker
    <3>1. UNCHANGED <<path, backup, concurrent, kept>>
      BY <2>10 DEF DropMarker, project
    <3>2. pc'.at \notin CheckedPlaces
      BY <2>10, <1>a, Starts DEF DropMarker, Places, CheckedPlaces, PcType
    <3>3. QED
      BY <2>a, <3>1, <3>2, LeavesAlone
  <2>11. CASE Failed
    <3>1. UNCHANGED <<path, backup, concurrent, kept>>
      BY <2>11 DEF Failed, project
    <3>2. pc'.at \notin CheckedPlaces
      BY <2>11, <1>a, IdleIsAPlace DEF Failed, Places, CheckedPlaces, PcType
    <3>3. QED
      BY <2>a, <3>1, <3>2, LeavesAlone
  <2>12. CASE Deliver
    <3>1. UNCHANGED <<path, backup, concurrent, kept>>
      BY <2>12 DEF Deliver, project
    <3>2. pc'.at \notin CheckedPlaces
      BY <2>12, <1>a, IdleIsAPlace DEF Deliver, Places, CheckedPlaces, PcType
    <3>3. QED
      BY <2>a, <3>1, <3>2, LeavesAlone
  <2>13. CASE WriteJournal
    <3>1. Owed' \subseteq Copies'
      BY <2>13, <2>a, <1>a, WriteJournalKeeps
    <3>2. pc'.at \notin CheckedPlaces
      BY <2>13, <1>a, Starts DEF WriteJournal, Places, CheckedPlaces
    <3>3. QED
      BY <3>1, <3>2, Leaves
  <2>14. CASE PutBack
    <3>1. Owed' \subseteq Copies'
      BY <2>14, <2>a, <1>a, PutBackKeeps DEF BytesAreKept, PutBack
    <3>2. pc'.at \notin CheckedPlaces
      BY <2>14, <1>a, RollsBack DEF PutBack, Places, CheckedPlaces
    <3>3. QED
      BY <3>1, <3>2, Leaves
  <2>15. CASE Clean
    <3>1. Owed' \subseteq Copies'
      BY <2>15, <2>a, <1>a, CleanKeeps
    <3>2. pc'.at \notin CheckedPlaces
      BY <2>15, <1>a, GoesOn DEF Clean, Places, CheckedPlaces
    <3>3. QED
      BY <3>1, <3>2, Leaves
  <2>16. CASE DropBackup
    <3>1. Owed' \subseteq Copies'
      BY <2>16, <2>a, <1>a, DropBackupKeeps
    <3>2. pc'.at \notin CheckedPlaces
      BY <2>16, <1>a, GoesOn DEF DropBackup, Places, CheckedPlaces
    <3>3. QED
      BY <3>1, <3>2, Leaves
  <2>17. CASE MoveAside
    <3>1. CASE path[pc.f] = None \/ backup[pc.f] # None
      <4>1. UNCHANGED <<path, backup, concurrent, kept>>
        BY <2>17, <3>1 DEF MoveAside, project
      <4>2. pc'.at \notin CheckedPlaces
        BY <2>17, <3>1, <1>a, GoesOn, RollsBack DEF MoveAside, Fail, Places, CheckedPlaces
      <4>3. QED
        BY <2>a, <4>1, <4>2, LeavesAlone
    <3>2. CASE path[pc.f] # None /\ backup[pc.f] = None
      <4>1. Owed' \subseteq Copies'
        BY <2>17, <2>a, <1>a, <3>2, SetAsideKeeps
      <4>2. pc'.at \notin CheckedPlaces
        BY <2>17, <3>2, <1>a, Stays DEF MoveAside, Places, CheckedPlaces
      <4>3. QED
        BY <4>1, <4>2, Leaves
    <3>3. QED
      BY <3>1, <3>2
  <2>18. CASE CheckMoved
    <3>1. CASE backup[pc.f] = Before(pc.f) \/ path[pc.f] # None
      <4>1. UNCHANGED <<path, backup, concurrent, kept>>
        BY <2>18, <3>1 DEF CheckMoved, project
      <4>2. pc'.at \notin CheckedPlaces
        BY <2>18, <3>1, <1>a, GoesOn, RollsBack DEF CheckMoved, Fail, Places, CheckedPlaces
      <4>3. QED
        BY <2>a, <4>1, <4>2, LeavesAlone
    <3>2. CASE backup[pc.f] # Before(pc.f) /\ path[pc.f] = None
      <4>1. UNCHANGED <<path, backup, concurrent, kept>>
        BY <2>18 DEF CheckMoved, project
      <4>2. pc'.at = "putback" /\ pc'.f = pc.f
        BY <2>18, <3>2, <1>a, Stays DEF CheckMoved, Places
      <4>3. QED
        BY <2>a, <1>a, <3>2, <4>1, <4>2, OwedAreUserBytes DEF BytesAreKept, Copies, At
    <3>3. QED
      BY <3>1, <3>2
  <2>19. CASE Install
    <3>1. CASE pc.f \in Deleted \/ path[pc.f] # None
      <4>1. UNCHANGED <<path, backup, concurrent, kept>>
        BY <2>19, <3>1 DEF Install, project
      <4>2. pc'.at \notin CheckedPlaces
        BY <2>19, <3>1, <1>a, GoesOn, RollsBack DEF Install, Fail, Places, CheckedPlaces
      <4>3. QED
        BY <2>a, <4>1, <4>2, LeavesAlone
    <3>2. CASE pc.f \notin Deleted /\ path[pc.f] = None
      <4>1. Owed' \subseteq Copies'
        BY <2>19, <2>a, <1>a, <3>2, LinkKeeps
      <4>2. pc'.at \notin CheckedPlaces
        BY <2>19, <3>2, <1>a, Stays DEF Install, Places, CheckedPlaces
      <4>3. QED
        BY <4>1, <4>2, Leaves
    <3>3. QED
      BY <3>1, <3>2
  <2>20. CASE Undo
    <3>1. CASE path[pc.f] \in {None, Before(pc.f)}
      <4>1. UNCHANGED <<path, backup, concurrent, kept>>
        BY <2>20, <3>1 DEF Undo, project
      <4>2. pc'.at \notin CheckedPlaces
        BY <2>20, <3>1, <1>a, GoesOn DEF Undo, Fail, Places, CheckedPlaces
      <4>3. QED
        BY <2>a, <4>1, <4>2, LeavesAlone
    <3>2. CASE /\ path[pc.f] \notin {None, Before(pc.f)} /\ path[pc.f] # After(pc.f)
               /\ concurrent[pc.f] # None
      <4>1. UNCHANGED <<path, backup, concurrent, kept>>
        BY <2>20, <3>2 DEF Undo, project
      <4>2. pc'.at \notin CheckedPlaces
        BY <2>20, <3>2, <1>a, Starts DEF Undo, Fail, Places, CheckedPlaces
      <4>3. QED
        BY <2>a, <4>1, <4>2, LeavesAlone
    <3>3. CASE path[pc.f] \notin {None, Before(pc.f)} /\ path[pc.f] = After(pc.f)
      <4>1. UNCHANGED <<path, backup, concurrent, kept>>
        BY <2>20, <3>3 DEF Undo, project
      <4>2. pc'.at = "remove" /\ pc'.f = pc.f
        BY <2>20, <3>3, <1>a, Stays DEF Undo, Places
      <4>3. path[pc.f] \notin Owed
        BY <3>3, OwedAreUserBytes, Facts
      <4>4. QED
        BY <2>a, <1>a, <4>1, <4>2, <4>3 DEF BytesAreKept, Copies, At
    <3>4. CASE /\ path[pc.f] \notin {None, Before(pc.f)} /\ path[pc.f] # After(pc.f)
               /\ concurrent[pc.f] = None
      <4>1. Owed' \subseteq Copies'
        BY <2>20, <2>a, <1>a, <3>4, UndoTheirsKeeps
      <4>2. pc'.at = "remove" /\ pc'.f = pc.f
        BY <2>20, <3>4, <1>a, Stays DEF Undo, Places
      <4>3. concurrent' = [concurrent EXCEPT ![pc.f] = path[pc.f]] /\ path' = path
        BY <2>20, <3>4 DEF Undo
      <4>4. concurrent'[pc.f] = path'[pc.f]
        BY <4>3, Facts DEF FileMap
      <4>5. QED
        BY <4>1, <4>2, <4>4 DEF BytesAreKept, At
    <3>5. QED
      BY <3>1, <3>2, <3>3, <3>4
  <2>21. CASE Remove
    <3>1. CASE path[pc.f] = None
      <4>1. UNCHANGED <<path, backup, concurrent, kept>>
        BY <2>21, <3>1 DEF Remove, project
      <4>2. pc'.at \notin CheckedPlaces
        BY <2>21, <3>1, <1>a, Starts DEF Remove, Fail, Places, CheckedPlaces
      <4>3. QED
        BY <2>a, <4>1, <4>2, LeavesAlone
    <3>2. CASE path[pc.f] # None
      <4>1. path[pc.f] \notin Owed \/ path[pc.f] = concurrent[pc.f]
        BY <2>21 DEF BytesAreKept, Remove
      <4>2. Owed' \subseteq Copies'
        BY <2>21, <2>a, <1>a, <3>2, <4>1, RemoveKeeps
      <4>3. pc'.at \notin CheckedPlaces
        BY <2>21, <3>2, <1>a, GoesOn DEF Remove, Places, CheckedPlaces
      <4>4. QED
        BY <4>2, <4>3, Leaves
    <3>3. QED
      BY <3>1, <3>2
  <2>22. CASE Restore
    <3>1. CASE backup[pc.f] = None
      <4>1. UNCHANGED <<path, backup, concurrent, kept>>
        BY <2>22, <3>1 DEF Restore, project
      <4>2. pc'.at \notin CheckedPlaces
        BY <2>22, <3>1, <1>a, GoesOn DEF Restore, Fail, Places, CheckedPlaces
      <4>3. QED
        BY <2>a, <4>1, <4>2, LeavesAlone
    <3>2. CASE backup[pc.f] # None
      <4>1. Owed' \subseteq Copies'
        BY <2>22, <2>a, <1>a, <3>2, RestoreKeeps
      <4>2. pc'.at \notin CheckedPlaces
        BY <2>22, <3>2, <1>a, Starts, Stays DEF Restore, Fail, Places, CheckedPlaces
      <4>3. QED
        BY <4>1, <4>2, Leaves
    <3>3. QED
      BY <3>1, <3>2
  <2>23. QED
    BY <1>1, <2>1, <2>2, <2>3, <2>4, <2>5, <2>6, <2>7, <2>8, <2>9, <2>10, <2>11, <2>12,
       <2>13, <2>14, <2>15, <2>16, <2>17, <2>18, <2>19, <2>20, <2>21, <2>22 DEF Promote
<1>2. CASE Crash
  <2>1. UNCHANGED <<path, backup, concurrent, kept, Owed>> /\ pc'.at \notin CheckedPlaces
    BY <1>2, IdleIsAPlace DEF Crash, project, user, Owed, CheckedPlaces
  <2>2. QED
    BY <2>1, LeavesAlone
<1>3. CASE IoFails
  <2>1. UNCHANGED <<path, backup, concurrent, kept, Owed>>
    BY <1>3 DEF IoFails, project, user, Owed
  <2>2. pc'.at \notin CheckedPlaces
    <3>1. pc' = Idle \/ Rollback("abort") \/ Goto("failed")
      BY <1>3 DEF IoFails, Fail
    <3>2. QED
      BY <3>1, <1>a, IdleIsAPlace, RollsBack, Starts DEF CheckedPlaces, Places
  <2>3. QED
    BY <2>1, <2>2, LeavesAlone
<1>4. CASE BeginPromotion
  <2>1. UNCHANGED <<path, backup, concurrent, kept, Owed>>
    BY <1>4 DEF BeginPromotion, project, user, Owed
  <2>2. bound \in Digests \cup {Payload, None}
    BY DEF IInv, StateOK
  <2>3. pc'.at \notin CheckedPlaces
    BY <1>4, <2>2, IdleIsAPlace DEF BeginPromotion, CheckedPlaces
  <2>4. QED
    BY <2>1, <2>3, LeavesAlone
<1>5. CASE UserActs
  <2>1. PICK e \in Files :
          \E new \in (UserBytes \ (Copies \cup owed)) \cup {None, Before(e)} : UserEdits(e, new)
    BY <1>5, Zenon DEF UserActs
  <2>2. PICK new \in (UserBytes \ (Copies \cup owed)) \cup {None, Before(e)} : UserEdits(e, new)
    BY <2>1, Zenon
  <2>3. Owed' \subseteq Copies'
    BY <2>2, <1>a, EditKeeps
  <2>4. pc' = pc /\ concurrent' = concurrent
    BY <2>2 DEF UserEdits
  <2>5. CASE pc.at \notin CheckedPlaces
    BY <2>3, <2>4, <2>5, Leaves
  <2>6. CASE pc.at \in CheckedPlaces
    <3>1. path'[pc.f] \notin Owed' \/ (path'[pc.f] = path[pc.f] /\ path[pc.f] \in Owed)
      BY <2>2, <2>6, EditInWindow
    <3>2. QED
      BY <2>3, <2>4, <2>6, <3>1 DEF BytesAreKept, At, CheckedPlaces
  <2>7. QED
    BY <2>5, <2>6
<1>6. CASE UNCHANGED vars
  BY <1>6 DEF vars, project, user, Owed, BytesAreKept, Copies, At
<1>7. QED
  BY <1>1, <1>2, <1>3, <1>4, <1>5, <1>6 DEF Next

(***************************************************************************)
(* Recovery from crashes.  As long as the user has edited nothing and no   *)
(* operation has failed, no attempt is ever aborted: what the place of the *)
(* attempt says of every path (Placed) leaves each step but one way to go, *)
(* and the digest that is bound is the one the attempt expects, or is      *)
(* about to deliver.                                                       *)
(***************************************************************************)
Quiet == edits = 0 /\ errors = 0
Cleaning == {"clean", "unjournal", "unmark"}

Away(f) ==
  \/ At("move") /\ f < pc.f
  \/ At("moved") /\ f <= pc.f
  \/ At("install") /\ f >= pc.f
  \/ At("linked") /\ f > pc.f

InPlace(f) ==
  \/ At("install") /\ f < pc.f
  \/ At("linked") /\ f <= pc.f
  \/ At("verify")
  \/ marker

Placed(f) ==
  /\ Away(f) => path[f] = None
  /\ InPlace(f) => path[f] = After(f)
  /\ At("moved") /\ f = pc.f => Before(f) # None
  /\ At("remove") /\ f = pc.f => path[f] # None

CourseFits ==
  /\ pc.at \notin {"failed", "putback"}
  /\ pc.at \in Undoing => ~marker
  /\ pc.at \in Undoing => pc.why = "recover"
  /\ pc.at \in Cleaning => pc.why \in {"recover", "commit"}
  /\ \/ pc.at \in {"recover", "compare", "bind"}
     \/ pc.at \in Undoing \cup Cleaning /\ pc.why = "recover"
     => bound = pc.expected
  /\ \/ pc.at \in {"journal", "deliver"} \cup Applying
     \/ pc.at \in Cleaning /\ pc.why = "commit"
     => bound = pc.digest

Undisturbed ==
  /\ touched = {}
  /\ CourseFits
  /\ \A f \in Files : Placed(f)

(* What is known of every path when nobody disturbed the delivery. *)
LEMMA QuietFacts ==
  ASSUME IInv, Undisturbed
  PROVE  /\ \A f \in Files : FileFits(f) /\ CopiesFit(f) /\ Placed(f)
         /\ CourseFits /\ RecordsFit /\ AllOrNone /\ Untouched = Files
         /\ journal = None => Promoted \/ AtBase
BY DEF IInv, Undisturbed, Untouched, AllOrNone, UntouchedAtBase, UntouchedApproved, Promoted,
       AtBase

LEMMA QuietPromote ==
  ASSUME IInv, Undisturbed, Promote
  PROVE  Undisturbed'
<1>a. pc \in PcType /\ pc.f \in Files /\ pc.f \in Nat /\ Files \subseteq Nat
  BY Facts, Constants
<1>b. touched' = touched
  BY
  DEF Promote, Recover, Compare, BindJournal, WriteJournal, Recheck, Stage, MoveAside,
      CheckMoved, PutBack, Install, Unstage, Verify, Commit, Clean, DropJournal, DropMarker,
      Undo, Remove, Restore, DropBackup, Failed, Deliver, user
<1>c. SUFFICES CourseFits' /\ \A f \in Files : Placed(f)'
  BY <1>b DEF Undisturbed
<1> USE DEF SameCourse, Places
<1>1. CASE Recover
  <2>1. UNCHANGED <<path, bound>> /\ (marker' => marker)
    BY <1>1 DEF Recover, project, row
  <2>2. \/ pc'.at = "compare" /\ ~marker' /\ SameCourse
        \/ pc'.at = "clean" /\ pc'.why = "recover" /\ pc'.expected = pc.expected
        \/ /\ pc'.at = "undo" /\ pc'.why = "recover" /\ pc'.expected = pc.expected
           /\ ~marker'
    <3>1. bound = pc.expected /\ (journal # None => journal = pc.expected)
      BY <1>1, QuietFacts DEF CourseFits, RecordsFit, Recover, At
    <3>2. marker => Promoted
      BY QuietFacts DEF Placed, InPlace, Promoted
    <3>3. \/ Goto("compare") /\ ~marker'
          \/ pc' = [pc EXCEPT !.at = "clean", !.why = "recover"]
          \/ Rollback("recover") /\ ~marker'
      BY <1>1, <3>1, <3>2 DEF Recover
    <3>4. QED
      BY <3>3, <1>a, Starts, RollsBack DEF PcType
  <2>3. CourseFits'
    BY <1>1, <2>1, <2>2, QuietFacts DEF CourseFits, Recover, At, Undoing, Cleaning, Applying
  <2>4. QED
    BY <2>1, <2>2, <2>3, QuietFacts DEF Placed, Away, InPlace, At
<1>2. CASE Compare
  <2>1. UNCHANGED <<path, marker>> /\ ~marker /\ bound = pc.expected
    BY <1>2, QuietFacts DEF Compare, project, records, RecordsFit, CourseFits, Preparing, At
  <2>2. \/ pc'.at = "deliver" /\ bound' = pc'.digest
        \/ pc'.at = "bind" /\ bound' = bound /\ pc'.expected = pc.expected
    <3>1. Promoted \/ AtBase
      BY <1>2, QuietFacts DEF Compare, RecordsFit, Preparing, At
    <3>2. CASE Promoted
      BY <1>2, <2>1, <3>2, <1>a DEF Compare, Bind, PcType
    <3>3. CASE ~Promoted /\ AtBase
      BY <1>2, <3>3, <1>a DEF Compare, PcType
    <3>4. QED
      BY <3>1, <3>2, <3>3
  <2>3. CourseFits'
    BY <2>1, <2>2 DEF CourseFits, Undoing, Cleaning, Applying
  <2>4. QED
    BY <2>1, <2>2, <2>3 DEF Placed, Away, InPlace, At
<1>3. CASE BindJournal
  <2>1. UNCHANGED <<path, marker>> /\ ~marker /\ bound = pc.expected
    BY <1>3, QuietFacts
    DEF BindJournal, project, records, RecordsFit, CourseFits, Preparing, At
  <2>2. pc'.at = "journal" /\ bound' = pc'.digest
    BY <1>3, <2>1, <1>a, Starts DEF BindJournal, Bind
  <2>3. CourseFits'
    BY <2>1, <2>2 DEF CourseFits, Undoing, Cleaning, Applying
  <2>4. QED
    BY <2>1, <2>2, <2>3 DEF Placed, Away, InPlace, At
<1>4. CASE WriteJournal
  <2>1. UNCHANGED <<path, marker, bound>> /\ ~marker /\ bound = pc.digest
    BY <1>4, QuietFacts DEF WriteJournal, row, RecordsFit, CourseFits, Preparing, At
  <2>2. pc'.at = "recheck" /\ SameCourse
    BY <1>4, <1>a, Starts DEF WriteJournal
  <2>3. CourseFits'
    BY <2>1, <2>2 DEF CourseFits, Undoing, Cleaning, Applying
  <2>4. QED
    BY <2>1, <2>2, <2>3 DEF Placed, Away, InPlace, At
<1>5. CASE Recheck
  <2>1. UNCHANGED <<path, marker, bound>> /\ ~marker /\ bound = pc.digest
    BY <1>5, QuietFacts
    DEF Recheck, project, records, row, RecordsFit, CourseFits, Applying, At
  <2>2. pc'.at = "stage" /\ SameCourse
    <3>1. AtBase
      BY <1>5, QuietFacts DEF Recheck, At, AtBase, FileFits, NotYetMoved
    <3>2. QED
      BY <1>5, <3>1, <1>a, Starts DEF Recheck
  <2>3. CourseFits'
    BY <2>1, <2>2 DEF CourseFits, Undoing, Cleaning, Applying
  <2>4. QED
    BY <2>1, <2>2, <2>3 DEF Placed, Away, InPlace, At
<1>6. CASE Stage
  <2>1. UNCHANGED <<path, marker, bound>> /\ ~marker /\ bound = pc.digest
    BY <1>6, QuietFacts DEF Stage, records, row, RecordsFit, CourseFits, Applying, At
  <2>2. /\ pc'.at \in {"stage", "move"} /\ SameCourse
        /\ pc'.at = "move" => pc'.f = 1
    BY <1>6, <1>a, GoesOn DEF Stage
  <2>3. CourseFits'
    BY <2>1, <2>2 DEF CourseFits, Undoing, Cleaning, Applying
  <2>4. \A f \in Files : f >= 1
    BY Constants
  <2>5. QED
    BY <1>a, <2>1, <2>2, <2>3, <2>4 DEF Placed, Away, InPlace, At
<1>7. CASE MoveAside
  <2>1. UNCHANGED <<marker, bound>> /\ ~marker /\ bound = pc.digest /\ backup[pc.f] = None
    BY <1>7, <1>a, QuietFacts
    DEF MoveAside, records, row, RecordsFit, CourseFits, Applying, At, CopiesFit, NoBackup
  <2>2. \A f \in Files : f < pc.f => path[f] = None
    BY <1>7, QuietFacts DEF MoveAside, At, Placed, Away
  <2>3. CASE path[pc.f] = None
    <3>1. UNCHANGED path /\ NextFile("move", "install")
      BY <1>7, <2>3 DEF MoveAside
    <3>2. /\ SameCourse
          /\ \/ pc.f = N /\ pc'.at = "install" /\ pc'.f = 1
             \/ pc'.at = "move" /\ pc'.f = pc.f + 1
      BY <3>1, <1>a, GoesOn
    <3>3. CourseFits'
      BY <2>1, <3>2 DEF CourseFits, Undoing, Cleaning, Applying
    <3>4. \A f \in Files : f >= 1 /\ f <= N
      BY Constants
    <3>5. QED
      BY <1>a, <2>1, <2>2, <2>3, <3>1, <3>2, <3>3, <3>4 DEF Placed, Away, InPlace, At
  <2>4. CASE path[pc.f] # None
    <3>1. path' = [path EXCEPT ![pc.f] = None] /\ Stay("moved")
      BY <1>7, <2>1, <2>4 DEF MoveAside
    <3>2. pc'.at = "moved" /\ pc'.f = pc.f /\ SameCourse
      BY <3>1, <1>a, Stays
    <3>3. \A f \in Files : path'[f] = IF f = pc.f THEN None ELSE path[f]
      BY <3>1, Facts DEF FileMap
    <3>4. Before(pc.f) # None
      BY <1>7, <1>a, <2>4, QuietFacts DEF MoveAside, At, FileFits, NotYetMoved
    <3>5. CourseFits'
      BY <2>1, <3>2 DEF CourseFits, Undoing, Cleaning, Applying
    <3>6. QED
      BY <1>a, <2>1, <2>2, <3>2, <3>3, <3>4, <3>5 DEF Placed, Away, InPlace, At
  <2>5. QED
    BY <2>3, <2>4
<1>8. CASE CheckMoved
  <2>1. UNCHANGED <<path, marker, bound>> /\ ~marker /\ bound = pc.digest /\ journal # None
    BY <1>8, QuietFacts
    DEF CheckMoved, project, records, row, RecordsFit, CourseFits, Applying, At
  <2>2. \A f \in Files : f <= pc.f => path[f] = None
    BY <1>8, QuietFacts DEF CheckMoved, At, Placed, Away
  <2>3. Before(pc.f) # None /\ path[pc.f] = None
    BY <1>8, <1>a, <2>2, QuietFacts DEF CheckMoved, At, Placed
  <2>4. backup[pc.f] = Before(pc.f)
    BY <1>a, <2>1, <2>3, QuietFacts DEF FileFits, Recoverable
  <2>5. /\ SameCourse
        /\ \/ pc.f = N /\ pc'.at = "install" /\ pc'.f = 1
           \/ pc'.at = "move" /\ pc'.f = pc.f + 1
    BY <1>8, <1>a, <2>4, GoesOn DEF CheckMoved
  <2>6. CourseFits'
    BY <2>1, <2>5 DEF CourseFits, Undoing, Cleaning, Applying
  <2>7. \A f \in Files : f >= 1 /\ f <= N
    BY Constants
  <2>8. CASE pc'.at = "install"
    <3>1. pc'.f = 1 /\ \A f \in Files : path[f] = None
      BY <1>a, <2>2, <2>5, <2>7, <2>8
    <3>2. \A f \in Files : ~(f < 1)
      BY <1>a, <2>7
    <3>3. QED
      BY <2>1, <2>6, <2>8, <3>1, <3>2 DEF Placed, Away, InPlace, At
  <2>9. CASE pc'.at = "move"
    <3>1. \A f \in Files : f < pc'.f => f <= pc.f
      <4>1. pc'.f = pc.f + 1
        BY <2>5, <2>9
      <4>2. QED
        BY <1>a, <4>1
    <3>2. QED
      BY <2>1, <2>2, <2>6, <2>9, <3>1 DEF Placed, Away, InPlace, At
  <2>10. QED
    BY <2>5, <2>8, <2>9
<1>9. CASE PutBack
  BY <1>9, QuietFacts DEF PutBack, At, CourseFits
<1>10. CASE Install
  <2>1. UNCHANGED <<marker, bound>> /\ ~marker /\ bound = pc.digest
    BY <1>10, QuietFacts DEF Install, records, row, RecordsFit, CourseFits, Applying, At
  <2>2. \A f \in Files : /\ f >= pc.f => path[f] = None
                         /\ f < pc.f => path[f] = After(f)
    BY <1>10, QuietFacts DEF Install, At, Placed, Away, InPlace
  <2>3. CASE pc.f \in Deleted
    <3>1. UNCHANGED path /\ NextFile("install", "verify")
      BY <1>10, <2>3 DEF Install
    <3>2. /\ SameCourse
          /\ \/ pc.f = N /\ pc'.at = "verify"
             \/ pc'.at = "install" /\ pc'.f = pc.f + 1
      BY <3>1, <1>a, GoesOn
    <3>3. CourseFits'
      BY <2>1, <3>2 DEF CourseFits, Undoing, Cleaning, Applying
    <3>4. path[pc.f] = After(pc.f)
      BY <1>a, <2>2, <2>3 DEF After
    <3>5. \A f \in Files : f <= N
      BY Constants
    <3>6. QED
      BY <1>a, <2>1, <2>2, <3>1, <3>2, <3>3, <3>4, <3>5 DEF Placed, Away, InPlace, At
  <2>4. CASE pc.f \notin Deleted
    <3>1. path' = [path EXCEPT ![pc.f] = incoming[pc.f]] /\ Stay("linked")
      BY <1>10, <1>a, <2>2, <2>4 DEF Install
    <3>2. pc'.at = "linked" /\ pc'.f = pc.f /\ SameCourse
      BY <3>1, <1>a, Stays
    <3>3. incoming[pc.f] = After(pc.f)
      BY <1>10, <1>a, QuietFacts DEF Install, At, CopiesFit, Staged
    <3>4. \A f \in Files : path'[f] = IF f = pc.f THEN After(f) ELSE path[f]
      BY <3>1, <3>3, Facts DEF FileMap
    <3>5. CourseFits'
      BY <2>1, <3>2 DEF CourseFits, Undoing, Cleaning, Applying
    <3>6. QED
      BY <1>a, <2>1, <2>2, <3>2, <3>4, <3>5 DEF Placed, Away, InPlace, At
  <2>5. QED
    BY <2>3, <2>4
<1>11. CASE Unstage
  <2>1. UNCHANGED <<path, marker, bound>> /\ ~marker /\ bound = pc.digest
    BY <1>11, QuietFacts DEF Unstage, records, row, RecordsFit, CourseFits, Applying, At
  <2>2. \A f \in Files : /\ f > pc.f => path[f] = None
                         /\ f <= pc.f => path[f] = After(f)
    BY <1>11, QuietFacts DEF Unstage, At, Placed, Away, InPlace
  <2>3. /\ SameCourse
        /\ \/ pc.f = N /\ pc'.at = "verify"
           \/ pc'.at = "install" /\ pc'.f = pc.f + 1
    BY <1>11, <1>a, GoesOn DEF Unstage
  <2>4. CourseFits'
    BY <2>1, <2>3 DEF CourseFits, Undoing, Cleaning, Applying
  <2>5. \A f \in Files : f <= N
    BY Constants
  <2>6. QED
    BY <1>a, <2>1, <2>2, <2>3, <2>4, <2>5 DEF Placed, Away, InPlace, At
<1>12. CASE Verify
  <2>1. UNCHANGED <<path, marker, bound>> /\ ~marker /\ bound = pc.digest
    BY <1>12, QuietFacts
    DEF Verify, project, records, row, RecordsFit, CourseFits, Applying, At
  <2>2. Promoted
    BY <1>12, QuietFacts DEF Verify, At, Placed, InPlace, Promoted
  <2>3. pc'.at = "commit" /\ SameCourse
    BY <1>12, <1>a, <2>2, Starts DEF Verify
  <2>4. CourseFits'
    BY <2>1, <2>3 DEF CourseFits, Undoing, Cleaning, Applying
  <2>5. QED
    BY <2>1, <2>3, <2>4 DEF Placed, Away, InPlace, At
<1>13. CASE Commit
  <2>1. UNCHANGED <<path, bound>> /\ bound = pc.digest /\ \A f \in Files : path[f] = After(f)
    BY <1>13, QuietFacts DEF Commit, project, row, CourseFits, Applying, At, FileFits
  <2>2. pc'.at = "clean" /\ pc'.why = "commit" /\ pc'.digest = pc.digest
    BY <1>13, <1>a DEF Commit, PcType
  <2>3. CourseFits'
    BY <2>1, <2>2 DEF CourseFits, Undoing, Cleaning, Applying
  <2>4. QED
    BY <2>1, <2>2, <2>3 DEF Placed, Away, InPlace, At
<1>14. CASE Clean \/ DropJournal \/ DropMarker
  <2>1. UNCHANGED <<path, bound>> /\ (marker' => marker) /\ pc.at \in Cleaning
    BY <1>14 DEF Clean, DropJournal, DropMarker, At, Cleaning, project, records, row
  <2>2. pc.why \in {"recover", "commit"}
    BY <2>1, QuietFacts DEF CourseFits
  <2>3. /\ SameCourse
        /\ \/ pc'.at \in Cleaning
           \/ pc.why = "recover" /\ pc'.at = "compare"
           \/ pc.why = "commit" /\ pc'.at = "deliver"
    <3>1. CASE Clean
      BY <3>1, <1>a, GoesOn DEF Clean, Cleaning
    <3>2. CASE DropJournal
      BY <3>2, <1>a, Starts DEF DropJournal, Cleaning
    <3>3. CASE DropMarker
      BY <3>3, <1>a, <2>2, Starts DEF DropMarker
    <3>4. QED
      BY <1>14, <3>1, <3>2, <3>3
  <2>4. CourseFits'
    BY <2>1, <2>2, <2>3, QuietFacts DEF CourseFits, Undoing, Cleaning, Applying
  <2>5. QED
    BY <2>1, <2>3, <2>4, QuietFacts DEF Placed, Away, InPlace, At, Cleaning
<1>15. CASE Undo
  <2>1. UNCHANGED <<path, marker, bound>>
    BY <1>15 DEF Undo, records, row
  <2>2. ~marker /\ pc.why = "recover" /\ bound = pc.expected /\ journal # None
    BY <1>15, QuietFacts DEF Undo, CourseFits, RecordsFit, Undoing, At
  <2>3. path[pc.f] \in {None, Before(pc.f), After(pc.f)}
    BY <1>a, <2>2, QuietFacts DEF FileFits, Recoverable
  <2>4. CASE path[pc.f] \in {None, Before(pc.f)}
    <3>1. pc'.at \in {"undo", "restore"} /\ SameCourse
      BY <1>15, <1>a, <2>4, GoesOn DEF Undo
    <3>2. CourseFits'
      BY <2>1, <2>2, <3>1 DEF CourseFits, Undoing, Cleaning, Applying
    <3>3. QED
      BY <2>1, <2>2, <3>1, <3>2 DEF Placed, Away, InPlace, At
  <2>5. CASE path[pc.f] \notin {None, Before(pc.f)}
    <3>1. pc'.at = "remove" /\ pc'.f = pc.f /\ SameCourse
      BY <1>15, <1>a, <2>3, <2>5, Stays DEF Undo
    <3>2. CourseFits'
      BY <2>1, <2>2, <3>1 DEF CourseFits, Undoing, Cleaning, Applying
    <3>3. QED
      BY <2>1, <2>2, <2>5, <3>1, <3>2 DEF Placed, Away, InPlace, At
  <2>6. QED
    BY <2>4, <2>5
<1>16. CASE Remove
  <2>1. UNCHANGED <<marker, bound>>
    BY <1>16 DEF Remove, records, row
  <2>2. ~marker /\ pc.why = "recover" /\ bound = pc.expected /\ path[pc.f] # None
    BY <1>16, <1>a, QuietFacts DEF Remove, CourseFits, Undoing, At, Placed
  <2>3. pc'.at \in {"undo", "restore"} /\ SameCourse
    BY <1>16, <1>a, <2>2, GoesOn DEF Remove
  <2>4. CourseFits'
    BY <2>1, <2>2, <2>3 DEF CourseFits, Undoing, Cleaning, Applying
  <2>5. QED
    BY <2>1, <2>2, <2>3, <2>4 DEF Placed, Away, InPlace, At
<1>17. CASE Restore
  <2>1. UNCHANGED <<marker, bound>>
    BY <1>17 DEF Restore, records, row
  <2>2. ~marker /\ pc.why = "recover" /\ bound = pc.expected /\ journal # None
    BY <1>17, QuietFacts DEF Restore, CourseFits, RecordsFit, Undoing, At
  <2>3. backup[pc.f] \in {None, Before(pc.f)} /\ path[pc.f] \in {None, Before(pc.f)}
    BY <1>17, <1>a, <2>2, QuietFacts DEF Restore, At, FileFits, Recoverable, TakenAway
  <2>4. pc'.at \in {"restore", "unjournal", "unback"} /\ SameCourse
    <3>1. CASE backup[pc.f] = None
      BY <1>17, <1>a, <3>1, GoesOn DEF Restore
    <3>2. CASE backup[pc.f] # None
      BY <1>17, <1>a, <2>3, <3>2, Stays DEF Restore
    <3>3. QED
      BY <3>1, <3>2
  <2>5. CourseFits'
    BY <2>1, <2>2, <2>4 DEF CourseFits, Undoing, Cleaning, Applying
  <2>6. QED
    BY <2>1, <2>2, <2>4, <2>5 DEF Placed, Away, InPlace, At
<1>18. CASE DropBackup
  <2>1. UNCHANGED <<path, marker, bound>>
    BY <1>18 DEF DropBackup, records, row
  <2>2. ~marker /\ pc.why = "recover" /\ bound = pc.expected
    BY <1>18, QuietFacts DEF DropBackup, CourseFits, Undoing, At
  <2>3. pc'.at \in {"restore", "unjournal"} /\ SameCourse
    BY <1>18, <1>a, GoesOn DEF DropBackup
  <2>4. CourseFits'
    BY <2>1, <2>2, <2>3 DEF CourseFits, Undoing, Cleaning, Applying
  <2>5. QED
    BY <2>1, <2>2, <2>3, <2>4 DEF Placed, Away, InPlace, At
<1>19. CASE Failed
  BY <1>19, QuietFacts DEF Failed, At, CourseFits
<1>20. CASE Deliver
  <2>1. UNCHANGED <<path, marker>> /\ ~marker /\ pc'.at = "idle"
    BY <1>20, IdleIsAPlace, QuietFacts
    DEF Deliver, project, records, RecordsFit, Preparing, At
  <2>2. QED
    BY <2>1 DEF CourseFits, Placed, Away, InPlace, At, Undoing, Cleaning, Applying
<1>21. QED
  BY <1>1, <1>2, <1>3, <1>4, <1>5, <1>6, <1>7, <1>8, <1>9, <1>10, <1>11, <1>12, <1>13, <1>14,
     <1>15, <1>16, <1>17, <1>18, <1>19, <1>20 DEF Promote

LEMMA QuietInductive ==
  IInv /\ [Next]_vars /\ (Quiet => Undisturbed) => (Quiet' => Undisturbed')
<1> SUFFICES ASSUME IInv, [Next]_vars, Quiet => Undisturbed, Quiet' PROVE Undisturbed'
  OBVIOUS
<1>1. edits \in Nat /\ errors \in Nat
  BY Constants DEF IInv, StateOK
<1>2. CASE Promote
  <2>1. edits' = edits /\ errors' = errors
    BY <1>2
    DEF Promote, Recover, Compare, BindJournal, WriteJournal, Recheck, Stage, MoveAside,
        CheckMoved, PutBack, Install, Unstage, Verify, Commit, Clean, DropJournal, DropMarker,
        Undo, Remove, Restore, DropBackup, Failed, Deliver, user, faults
  <2>2. QED
    BY <1>2, <2>1, QuietPromote DEF Quiet
<1>3. CASE Crash
  <2>1. UNCHANGED <<path, marker, touched, edits, errors>> /\ pc'.at = "idle"
    BY <1>3, IdleIsAPlace DEF Crash, project, records, user
  <2>2. QED
    BY <2>1
    DEF Quiet, Undisturbed, CourseFits, Placed, Away, InPlace, At, Undoing, Cleaning, Applying
<1>4. CASE BeginPromotion
  <2>1. UNCHANGED <<path, marker, bound, touched, edits, errors>>
    BY <1>4 DEF BeginPromotion, project, records, user, faults
  <2>2. pc'.at = "recover" /\ bound = pc'.expected
    BY <1>4, IdleIsAPlace DEF BeginPromotion, IInv, StateOK
  <2>3. QED
    BY <2>1, <2>2
    DEF Quiet, Undisturbed, CourseFits, Placed, Away, InPlace, At, Undoing, Cleaning, Applying
<1>5. CASE IoFails
  BY <1>1, <1>5 DEF IoFails, Quiet
<1>6. CASE UserActs
  BY <1>1, <1>6 DEF UserActs, UserEdits, Quiet
<1>7. CASE UNCHANGED vars
  BY <1>7
  DEF vars, project, records, row, user, faults, Quiet, Undisturbed, CourseFits, Placed, Away,
      InPlace, At
<1>8. QED
  BY <1>2, <1>3, <1>4, <1>5, <1>6, <1>7 DEF Next

(***************************************************************************)
(* The theorems.                                                           *)
(***************************************************************************)
(* Type correctness. *)
THEOREM TypeCorrectness == Spec => []TypeOK
<1>1. IInv => TypeOK
  <2> SUFFICES ASSUME IInv PROVE TypeOK
    OBVIOUS
  <2>1. StateOK
    BY DEF IInv
  <2>2. {marker, reserved, completed} \subseteq BOOLEAN
    BY <2>1, Zenon DEF StateOK
  <2>3. QED
    BY <2>1, <2>2 DEF StateOK, TypeOK, FileMap, PcType
<1>2. QED
  BY <1>1, Invariance, PTL

(* All or nothing, whatever the user does, also if he writes between a     *)
(* check and the operation it guards.                                      *)
THEOREM AllOrNothingSafety == Spec => []AllOrNothing
<1>1. IInv => AllOrNothing
  <2> SUFFICES ASSUME IInv PROVE AllOrNothing
    OBVIOUS
  <2>1. StateOK /\ RecordsFit /\ AllOrNone
    BY DEF IInv
  <2>2. At("idle") /\ ~RecoveryRequired =>
          \/ \A f \in Untouched : path[f] = Before(f)
          \/ \A f \in Untouched : path[f] = After(f)
    BY <2>1 DEF AllOrNone, UntouchedAtBase, UntouchedApproved, RecoveryRequired
  <2>3. ASSUME journal # None, ~marker, NEW f \in Untouched \ Added
        PROVE  "base" \in {path[f], backup[f]}
    <3>1. FileFits(f) /\ Before(f) = "base"
      BY DEF IInv, Before
    <3>2. QED
      BY <2>3, <3>1 DEF FileFits, NotYetMoved, PutBackAgain, TakenAway, Recoverable
  <2>4. RecoveryRequired => reserved
    BY <2>1, Zenon DEF RecordsFit, RecoveryRequired
  <2>5. journal # None => bound = journal
    BY <2>1 DEF RecordsFit
  <2>6. journal = None => backup = Nothing /\ incoming = Nothing
    <3>1. ASSUME journal = None, NEW f \in Files PROVE backup[f] = None /\ incoming[f] = None
      BY <3>1 DEF IInv, CopiesFit, Staged, NothingStaged, NoBackup, BackupCompared
    <3>2. backup \in FileMap /\ incoming \in FileMap
      BY Facts
    <3>3. QED
      BY <3>1, <3>2 DEF FileMap, Nothing
  <2>7. QED
    BY <2>2, <2>3, <2>4, <2>5, <2>6 DEF AllOrNothing
<1>2. QED
  BY <1>1, Invariance, PTL

(* What is completed was delivered. *)
THEOREM CompletionSafety == Spec => CompletedWasDelivered
<1>1. IInv /\ [Next]_vars =>
        [completed' /\ ~completed => \A f \in Untouched : path[f] = After(f)]_vars
  <2> SUFFICES ASSUME IInv, Next, completed', ~completed
               PROVE  \A f \in Untouched : path[f] = After(f)
    OBVIOUS
  <2>1. At("deliver")
    BY
    DEF Next, Promote, UserActs, BeginPromotion, Crash, IoFails, UserEdits, Recover, Compare,
        BindJournal, WriteJournal, Recheck, Stage, MoveAside, CheckMoved, PutBack, Install,
        Unstage, Verify, Commit, Clean, DropJournal, DropMarker, Undo, Remove, Restore,
        DropBackup, Failed, Deliver, row
  <2>2. QED
    BY <2>1 DEF IInv, FileFits, NotYetMoved, PutBackAgain, TakenAway
<1>2. QED
  BY <1>1, Invariance, PTL DEF Spec, CompletedWasDelivered

(* No bytes the user wrote are lost but those he wrote between the check   *)
(* of a path and the rename or removal of that very path.                  *)
THEOREM BytesSafety == Spec => []NoUserBytesLost
<1>1. Init => BytesAreKept
  BY IdleIsAPlace DEF Init, BytesAreKept, Owed, At
<1>2. IInv /\ BytesAreKept /\ [Next]_vars => BytesAreKept'
  BY BytesInductive
<1>3. BytesAreKept => NoUserBytesLost
  BY DEF BytesAreKept, Owed, NoUserBytesLost
<1>4. QED
  BY <1>1, <1>2, <1>3, Invariance, PTL DEF Spec

(* An attempt that nobody disturbs and that runs to its end delivers,      *)
(* however many earlier ones crashed and wherever they did.                *)
THEOREM RecoverySafety == Spec => CrashesAreRecovered
<1>1. Init => (Quiet => Undisturbed)
  BY IdleIsAPlace
  DEF Init, Undisturbed, CourseFits, Placed, Away, InPlace, At, Undoing, Cleaning, Applying
<1>2. ASSUME IInv, Quiet => Undisturbed, [Next]_vars,
             ~At("idle"), pc'.at = "idle", crashes' = crashes, edits = 0, errors' = 0
      PROVE  /\ completed' /\ ~reserved' /\ bound' = None
             /\ journal' = None /\ ~marker' /\ backup' = Nothing /\ incoming' = Nothing
             /\ \A f \in Files : path'[f] = After(f)
  <2>1. errors \in Nat /\ crashes \in Nat
    BY <1>2, Constants DEF IInv, StateOK
  <2>2. pc \in PcType /\ pc.f \in Files
    BY <1>2, Facts
  <2>4. Promote
    <3>1. /\ crashes' # crashes + 1 /\ (errors' # errors + 1 \/ errors < 0)
          /\ pc'.at # pc.at
      BY <1>2, <2>1 DEF At
    <3>2. ~BeginPromotion /\ ~UserActs /\ ~UNCHANGED vars
      BY <1>2, <3>1 DEF BeginPromotion, UserActs, UserEdits, vars, At
    <3>3. ~Crash /\ ~IoFails
      BY <2>1, <3>1 DEF Crash, IoFails
    <3>4. QED
      BY <1>2, <3>2, <3>3 DEF Next
  <2>5. errors = 0
    BY <1>2, <2>4
    DEF Promote, Recover, Compare, BindJournal, WriteJournal, Recheck, Stage, MoveAside,
        CheckMoved, PutBack, Install, Unstage, Verify, Commit, Clean, DropJournal, DropMarker,
        Undo, Remove, Restore, DropBackup, Failed, Deliver, faults
  <2>6. Undisturbed
    BY <1>2, <2>5 DEF Quiet
  <2>7. CASE Deliver
    <3>1. bound = pc.digest /\ journal = None /\ ~marker
      BY <1>2, <2>6, <2>7, QuietFacts DEF Deliver, At, CourseFits, RecordsFit, Preparing
    <3>2. \A f \in Files : path[f] = After(f) /\ backup[f] = None /\ incoming[f] = None
      BY <1>2, <2>6, <2>7, <3>1, QuietFacts
      DEF Deliver, At, FileFits, CopiesFit, NoBackup, NothingStaged
    <3>3. backup = Nothing /\ incoming = Nothing
      BY <1>2, <3>2, Facts DEF FileMap, Nothing
    <3>4. completed' /\ ~reserved' /\ bound' = None
      BY <2>7, <3>1 DEF Deliver
    <3>5. QED
      BY <2>7, <3>1, <3>2, <3>3, <3>4 DEF Deliver, project, records
  <2>8. ~Failed
    BY <1>2, <2>6, QuietFacts DEF Failed, At, CourseFits
  <2>9. CASE ~Deliver /\ ~Failed
    <3>1. \/ \E place \in Places \ {"idle"} : Goto(place)
          \/ \E place \in Places \ {"idle"} : Stay(place)
          \/ \E why \in {"recover", "abort"} : Rollback(why)
          \/ \E place, after \in Places \ {"idle"} : NextFile(place, after)
          \/ pc'.at \in {"clean", "deliver", "bind"}
      BY <2>4, <2>9, <2>2
      DEF Promote, Recover, Compare, BindJournal, WriteJournal, Recheck, Stage, MoveAside,
          CheckMoved, PutBack, Install, Unstage, Verify, Commit, Clean, DropJournal,
          DropMarker, Undo, Remove, Restore, DropBackup, Fail, Places, PcType
    <3>2. QED
      BY <1>2, <2>2, <3>1, Starts, Stays, RollsBack, GoesOn
  <2>10. QED
    BY <2>7, <2>8, <2>9
<1>3. QED
  BY <1>1, <1>2, Invariance, QuietInductive, PTL DEF Spec, CrashesAreRecovered

=============================================================================
