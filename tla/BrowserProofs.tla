--------------------------- MODULE BrowserProofs ---------------------------
(***************************************************************************)
(* Proofs about the managed browser, for every number of sessions, calls,  *)
(* browsers and failures.                                                  *)
(*                                                                         *)
(* The argument: the map, the registry and the calls only ever lead to the *)
(* browsers of their sessions, which are as far as they take them to be    *)
(* (Links), so that a step moves a browser on from where it is; what a     *)
(* browser has done begins with what it had answered, from its launch to   *)
(* its receipt (ReceiptsAreSound); and as long as it is calm, every        *)
(* browser that is launched, open or closing is one that the map, a call   *)
(* or the stopping server answers for (Quiet).                             *)
(***************************************************************************)
EXTENDS Browser, FiniteSetTheorems, TLAPS

(* The values a browser and a call take; the type of the state. *)
Pcs == {"unused", "launching", "open", "failed", "closing", "writing", "removing", "closed",
        "kept", "left"}
Fresh == {"unused", "launching"}
Ending == {"closing", "writing", "removing"}
Words == Operations \cup {"close", "none"}
Actions == Seq(Words)
Receipts == Actions \cup {None, Torn}

BrowserType ==
  [pc : Pcs, session : Sessions \cup {None}, profile : BOOLEAN, runs : BOOLEAN,
   actions : Actions, content : Actions, receipt : Receipts]

CallType ==
  [pc : {"idle", "asked", "launch", "work", "closing"}, session : Sessions \cup {None}, op : Words,
   browser : Browsers \cup {None}]

StateOK ==
  /\ server \in {"up", "stopping", "gone"}
  /\ sessions \in [Sessions -> Browsers \cup {None}]
  /\ records \in [Sessions -> Browsers \cup {None}]
  /\ browser \in [Browsers -> BrowserType]
  /\ call \in [Calls -> CallType]
  /\ stopped \subseteq Browsers
  /\ answered \in [Browsers -> Actions]
  /\ calm \in BOOLEAN
  /\ operations \in 0 .. MaxOperations /\ faults \in 0 .. MaxFaults

(* The call c is one of the session its browser is of, and as far as that is. *)
Fits(c, bs) ==
  /\ c.pc # "idle" => c.session \in Sessions
  /\ c.pc \notin {"idle", "asked"} =>
    /\ c.browser \in Browsers
    /\ bs[c.browser].session = c.session
    /\ IF c.pc = "launch" THEN bs[c.browser].pc = "launching"
       ELSE bs[c.browser].pc \notin Fresh

CallsFit == \A c \in Calls : Fits(call[c], browser)

(* No two calls launch the same browser. *)
LaunchesDiffer ==
  \A c, d \in Calls :
    call[c].pc = "launch" /\ call[d].pc = "launch" /\ c # d => call[c].browser # call[d].browser

(* The map leads to open browsers of their sessions. *)
MapLeads ==
  \A s \in Sessions :
    sessions[s] # None => browser[sessions[s]].pc = "open" /\ browser[sessions[s]].session = s

(* The registry leads to closed browsers of their sessions, whose receipts   *)
(* are whole.                                                                *)
RegistryLeads ==
  \A s \in Sessions :
    records[s] # None =>
      /\ browser[records[s]].pc = "closed" /\ browser[records[s]].session = s
      /\ browser[records[s]].receipt \notin {None, Torn}

(* What the browser r writes, and has written, is complete: done is what it *)
(* had done, and answered, when it was closed.                              *)
Complete(done, receipt) == Last(receipt) = "close" /\ IsPrefix(done, receipt)

Sound(r, done) ==
  /\ r.pc \in Fresh => r.actions = <<>> /\ done = <<>>
  /\ r.pc = "open" => r.actions = done
  /\ r.pc = "closing" => IsPrefix(done, r.actions)
  /\ r.pc \in Fresh \cup {"open", "failed", "closing"} => r.receipt = None
  /\ r.pc = "writing" => Complete(done, r.content)
  /\ r.receipt \notin {None, Torn} => Complete(done, r.receipt)
  /\ r.pc \in {"unused", "closed"} => ~r.profile
  /\ r.pc # "unused" => r.session \in Sessions
  /\ r.pc = "unused" => ~r.runs

ReceiptsAreSound == \A b \in Browsers : Sound(browser[b], answered[b])

(* As long as it is calm. *)
OpenAreMapped == \A b \in Browsers : browser[b].pc = "open" => sessions[browser[b].session] = b
LaunchedAreAwaited ==
  /\ \A b \in Browsers :
       browser[b].pc = "launching" => \E c \in Launching : call[c].browser = b
  /\ \A c, d \in Launching : c = d
  /\ \A c \in Launching : sessions[call[c].session] = None
  /\ server # "up" => \A c \in Calls : call[c].pc \in {"idle", "work"}
Started == {b \in Browsers : browser[b].pc \in {"launching", "open"}}
WithinLimit == Cardinality(Started) <= MaxSessions
EndsAreAwaited ==
  /\ server = "up" =>
       \A b \in Browsers : browser[b].pc \in Ending =>
         \E c \in Calls : call[c].pc = "closing" /\ call[c].browser = b
  /\ server = "stopping" =>
       \A b \in Browsers : browser[b].pc \in {"unused", "closed", "kept"} \/ b \in stopped
  /\ server = "gone" => \A b \in Browsers : browser[b].pc \in {"unused", "closed", "kept"}
NothingFailed == \A b \in Browsers : browser[b].pc \notin {"failed", "left"}


(* While it is calm, nothing is left that nobody answers for. *)
Quiet == OpenAreMapped /\ LaunchedAreAwaited /\ EndsAreAwaited /\ NothingFailed

Calm == calm => Quiet /\ WithinLimit

IInv ==
  StateOK /\ CallsFit /\ LaunchesDiffer /\ MapLeads /\ RegistryLeads /\ ReceiptsAreSound /\ Calm
-----------------------------------------------------------------------------
(* What the proofs use of the constants. *)
LEMMA Constants ==
  /\ None \notin Browsers /\ None \notin Sessions
  /\ "close" \in Words /\ "none" \in Words /\ Operations \subseteq Words
  /\ MaxOperations \in Nat /\ MaxFaults \in Nat /\ MaxSessions \in Nat
  BY AbsenceAssumption, BrowserAssumption DEF Words

(* What the proofs use of lists of actions and of receipts. *)
LEMMA Shapes ==
  /\ <<>> \in Actions /\ Actions \subseteq Receipts /\ None \in Receipts /\ Torn \in Receipts
  /\ \A actions \in Actions, op \in Words : Append(actions, op) \in Actions
  BY DEF Actions, Receipts

(* A browser with other values in its fields. *)
LEMMA Edits ==
  ASSUME NEW r \in BrowserType
  PROVE  /\ \A pc \in Pcs : [r EXCEPT !.pc = pc] \in BrowserType
         /\ \A pc \in Pcs, receipt \in Receipts :
              [r EXCEPT !.pc = pc, !.receipt = receipt] \in BrowserType
         /\ \A actions \in Actions : [r EXCEPT !.actions = actions] \in BrowserType
         /\ \A pc \in Pcs, s \in Sessions :
              [r EXCEPT !.pc = pc, !.session = s, !.profile = TRUE, !.runs = TRUE] \in BrowserType
         /\ \A pc \in Pcs, p \in BOOLEAN : [r EXCEPT !.pc = pc, !.profile = p] \in BrowserType
         /\ \A pc \in Pcs, a \in Actions, receipt \in Receipts :
              [r EXCEPT !.pc = pc, !.runs = FALSE, !.actions = a, !.content = a,
                        !.receipt = receipt] \in BrowserType
  BY DEF BrowserType

(* The places a step takes a browser to. *)
LEMMA PcIn ==
  \A pc \in {"launching", "open", "failed", "closing", "writing", "removing", "closed", "kept",
         "left"} :
    pc \in Pcs
  BY DEF Pcs

(* The browsers, with one of them changed. *)
LEMMA EditedBrowser ==
  ASSUME NEW bs, bs \in [Browsers -> BrowserType], NEW b \in Browsers, NEW r \in BrowserType
  PROVE  [bs EXCEPT ![b] = r] \in [Browsers -> BrowserType]
  OBVIOUS

(* The server starts with nothing. *)
LEMMA InitEstablishes == Init => IInv
<1> SUFFICES ASSUME Init PROVE IInv
  OBVIOUS
<1>1. StateOK
  <2>1. <<>> \in Actions /\ None \in Receipts
    BY Shapes
  <2>2. Unused \in BrowserType
    BY <2>1 DEF Unused, BrowserType, Pcs
  <2>3. Idle \in CallType
    BY Constants DEF Idle, CallType
  <2> QED
    BY <2>1, <2>2, <2>3, Constants DEF StateOK, Init
<1>2. CallsFit /\ LaunchesDiffer
  BY DEF Init, CallsFit, LaunchesDiffer, Fits, Idle
<1>3. MapLeads /\ RegistryLeads
  BY DEF Init, MapLeads, RegistryLeads
<1>4. ReceiptsAreSound
  BY DEF Init, ReceiptsAreSound, Sound, Unused, Fresh, Ending, Complete
<1>5. Calm
  <2>1. OpenAreMapped /\ LaunchedAreAwaited /\ EndsAreAwaited /\ NothingFailed
    BY DEF Init, OpenAreMapped, LaunchedAreAwaited, EndsAreAwaited, NothingFailed, Unused, Idle,
           Launching, Ending
  <2>2. Started = {}
    BY DEF Init, Started, Unused
  <2> QED
    BY <2>1, <2>2, FS_EmptySet, Constants DEF Calm, WithinLimit, Quiet
<1> QED
  BY <1>1, <1>2, <1>3, <1>4, <1>5 DEF IInv

(* A failure is counted, and ends the calm. *)
LEMMA FaultType ==
  ASSUME Fault, faults \in 0 .. MaxFaults
  PROVE  faults' \in 0 .. MaxFaults /\ calm' \in BOOLEAN
<1>1. faults' \in 0 .. MaxFaults
  BY Constants DEF Fault
<1>2. calm' \in BOOLEAN
  BY Zenon DEF Fault
<1> QED
  BY <1>1, <1>2

(* A step leaves the types as they are. *)
LEMMA StateSteps == StateOK /\ CallsFit /\ [Next]_vars => StateOK'
<1> SUFFICES ASSUME StateOK, CallsFit, [Next]_vars PROVE StateOK'
  OBVIOUS
<1> USE Constants
<1>0. Idle \in CallType
  BY DEF Idle, CallType
<1>1. ASSUME NEW c \in Calls, Use(c) PROVE StateOK'
  <2>1. call[c].session \in Sessions /\ call[c].op \in Words
    BY <1>1 DEF Use, Commands, CallsFit, Fits, StateOK, CallType
  <2>2. call' \in [Calls -> CallType]
    BY <1>1, <2>1 DEF Use, Asks, StateOK, CallType
  <2> QED
    BY <1>1, <2>2 DEF StateOK, Use
<1>2. ASSUME NEW c \in Calls, Create(c) PROVE StateOK'
  <2> DEFINE s == call[c].session
  <2>p. PICK b \in Browsers :
             /\ Asks(c, s, call[c].op, "launch", b)
             /\ browser' = [browser EXCEPT ![b].pc = "launching", ![b].session = s,
                                                  ![b].profile = TRUE, ![b].runs = TRUE]
    BY ONLY <1>2 DEF Create
  <2>0. s \in Sessions /\ call[c].op \in Words
    BY <1>2 DEF Create, Commands, CallsFit, Fits, StateOK, CallType
  <2> HIDE DEF s
  <2>1. call' \in [Calls -> CallType]
    BY <2>p, <2>0 DEF StateOK, Asks, CallType
  <2>2. [browser[b] EXCEPT !.pc = "launching", !.session = s, !.profile = TRUE, !.runs = TRUE]
          \in BrowserType
    BY <2>0, Edits, PcIn DEF StateOK
  <2>3. browser' \in [Browsers -> BrowserType]
    BY <2>p, <2>2, EditedBrowser DEF StateOK
  <2>4. calm' \in BOOLEAN
    BY <1>2, Zenon DEF Create
  <2> QED
    BY <1>2, <2>1, <2>3, <2>4 DEF StateOK, Create
<1>3. ASSUME NEW c \in Calls, Launched(c) PROVE StateOK'
  <2>1. call[c].browser \in Browsers /\ call[c].session \in Sessions
    BY <1>3 DEF Launched, CallsFit, Fits
  <2>2. [browser[call[c].browser] EXCEPT !.pc = "open"] \in BrowserType
    BY <2>1, Edits, PcIn DEF StateOK
  <2>3. browser' \in [Browsers -> BrowserType]
    BY <1>3, <2>1, <2>2, EditedBrowser DEF Launched, StateOK
  <2> QED
    BY <1>3, <2>1, <2>3 DEF StateOK, Launched, CallType
<1>4. ASSUME NEW c \in Calls, LaunchFails(c) PROVE StateOK'
  <2>1. call[c].browser \in Browsers
    BY <1>4 DEF LaunchFails, CallsFit, Fits
  <2>2. [browser[call[c].browser] EXCEPT !.pc = "failed"] \in BrowserType
    BY <2>1, Edits, PcIn DEF StateOK
  <2>3. browser' \in [Browsers -> BrowserType]
    BY <1>4, <2>1, <2>2, EditedBrowser DEF LaunchFails, StateOK
  <2>4. faults' \in 0 .. MaxFaults /\ calm' \in BOOLEAN
    BY <1>4, FaultType DEF LaunchFails, StateOK
  <2> QED
    BY <1>4, <1>0, <2>3, <2>4 DEF StateOK, LaunchFails
<1>5. ASSUME NEW c \in Calls, Finish(c) PROVE StateOK'
  <2> DEFINE b == call[c].browser
             op == call[c].op
  <2>1. b \in Browsers /\ op \in Words
    BY <1>5 DEF Finish, CallsFit, Fits, StateOK, CallType
  <2>2. Append(browser[b].actions, op) \in Actions /\ Append(answered[b], op) \in Actions
    BY <2>1, Shapes DEF StateOK, BrowserType
  <2> HIDE DEF b, op
  <2>5. [browser[b] EXCEPT !.actions = Append(browser[b].actions, op)] \in BrowserType
    BY <2>1, <2>2, Edits DEF StateOK
  <2>3. browser' \in [Browsers -> BrowserType]
    BY <1>5, <2>1, <2>5, EditedBrowser DEF Finish, StateOK, Noted, b, op
  <2>4. answered' \in [Browsers -> Actions]
    BY <1>5, <2>1, <2>2 DEF Finish, StateOK, b, op
  <2> QED
    BY <1>5, <1>0, <2>3, <2>4 DEF StateOK, Finish
<1>6. ASSUME NEW c \in Calls, Fails(c) PROVE StateOK'
  BY <1>6, <1>0 DEF StateOK, Fails
<1>7. ASSUME NEW c \in Calls, Close(c) PROVE StateOK'
  <2> DEFINE s == call[c].session
  <2>p. /\ sessions' = [sessions EXCEPT ![s] = None]
        /\ browser' = [browser EXCEPT ![sessions[s]].pc = "closing"]
        /\ Asks(c, s, "close", "closing", sessions[s])
    BY <1>7 DEF Close
  <2>1. s \in Sessions /\ sessions[s] \in Browsers
    BY <1>7 DEF Close, CallsFit, Fits, StateOK
  <2> HIDE DEF s
  <2>2. [browser[sessions[s]] EXCEPT !.pc = "closing"] \in BrowserType
    BY <2>1, Edits, PcIn DEF StateOK
  <2>3. browser' \in [Browsers -> BrowserType]
    BY <2>p, <2>1, <2>2, EditedBrowser DEF StateOK
  <2> QED
    BY <1>7, <2>p, <2>1, <2>3 DEF Close, StateOK, Asks, CallType
<1>8. ASSUME NEW c \in Calls, CloseAnswers(c) PROVE StateOK'
  BY <1>8, <1>0 DEF StateOK, CloseAnswers, Recorded, CallType, In
<1>9. ASSUME NEW b \in Browsers, BrowserCloses(b) PROVE StateOK'
  <2> DEFINE actions == Append(browser[b].actions, "close")
  <2>1. actions \in Actions
    BY Shapes DEF StateOK, BrowserType
  <2> HIDE DEF actions
  <2>2. [browser[b] EXCEPT !.pc = "writing", !.runs = FALSE, !.actions = actions,
                           !.content = actions, !.receipt = Torn] \in BrowserType
    BY <2>1, Edits, PcIn, Shapes DEF StateOK
  <2>3. browser' \in [Browsers -> BrowserType]
    BY <1>9, <2>2, EditedBrowser DEF BrowserCloses, StateOK, actions
  <2> QED
    BY <1>9, <2>3 DEF StateOK, BrowserCloses
<1>10. ASSUME NEW b \in Browsers, ReceiptIsWritten(b) PROVE StateOK'
  <2>1. browser[b].content \in Receipts
    BY Shapes DEF StateOK, BrowserType
  <2>2. [browser[b] EXCEPT !.pc = "removing", !.receipt = browser[b].content] \in BrowserType
    BY <2>1, Edits, PcIn DEF StateOK
  <2>3. browser' \in [Browsers -> BrowserType]
    BY <1>10, <2>2, EditedBrowser DEF ReceiptIsWritten, StateOK
  <2> QED
    BY <1>10, <2>3 DEF StateOK, ReceiptIsWritten
<1>11. ASSUME NEW b \in Browsers, ClosingFails(b) PROVE StateOK'
  <2>2. [browser[b] EXCEPT !.pc = "removing"] \in BrowserType
    BY Edits, PcIn DEF StateOK
  <2>3. browser' \in [Browsers -> BrowserType]
    BY <1>11, <2>2, EditedBrowser DEF ClosingFails, AfterFailure, StateOK
  <2> QED
    BY <1>11, <2>3 DEF StateOK, ClosingFails
<1>12. ASSUME NEW b \in Browsers, ProfileIsRemoved(b) PROVE StateOK'
  <2>2. [browser[b] EXCEPT !.pc = "closed", !.profile = FALSE] \in BrowserType
    BY Edits, PcIn DEF StateOK
  <2>3. browser' \in [Browsers -> BrowserType]
    BY <1>12, <2>2, EditedBrowser DEF ProfileIsRemoved, StateOK
  <2> QED
    BY <1>12, <2>3 DEF StateOK, ProfileIsRemoved
<1>13. CASE Stop
  <2>1. stopped' \subseteq Browsers
    BY <1>13 DEF Stop, StateOK, Mapped
  <2>2. \A b \in Browsers : [browser[b] EXCEPT !.pc = "closing"] \in BrowserType
    BY Edits, PcIn DEF StateOK
  <2>3. browser' \in [Browsers -> BrowserType]
    BY <1>13, <2>2 DEF Stop, StateOK
  <2> QED
    BY <1>13, <2>1, <2>3 DEF Stop, StateOK
<1>14. CASE Gone /\ (UNCHANGED <<calm, faults>> \/ Fault)
  <2>1. \A b \in Browsers : [browser[b] EXCEPT !.pc = "left"] \in BrowserType
    BY Edits, PcIn DEF StateOK
  <2>2. browser' \in [Browsers -> BrowserType]
    BY <1>14, <2>1 DEF Gone, StateOK
  <2>3. faults' \in 0 .. MaxFaults /\ calm' \in BOOLEAN
    <3>1. CASE Fault
      BY <3>1, FaultType DEF StateOK
    <3>2. CASE UNCHANGED <<calm, faults>>
      BY <3>2 DEF StateOK
    <3> QED
      BY <1>14, <3>1, <3>2
  <2> QED
    BY <1>14, <1>0, <2>2, <2>3 DEF Gone, StateOK
<1>15. CASE Restart
  BY <1>15 DEF Restart, StateOK
<1>16. CASE UNCHANGED vars
  BY <1>16 DEF vars, StateOK
<1>17. ASSUME NEW c \in Calls, Arrive(c) PROVE StateOK'
  <2> PICK s \in Sessions, op \in Operations \cup {"close"} :
        /\ operations' \in {operations, operations + 1}
        /\ operations' # operations => operations < MaxOperations
        /\ Asks(c, s, op, "asked", None)
    BY <1>17 DEF Arrive
  <2>1. call' \in [Calls -> CallType]
    BY DEF StateOK, Asks, CallType
  <2>2. operations' \in 0 .. MaxOperations
    BY DEF StateOK
  <2> QED
    BY <1>17, <2>1, <2>2 DEF StateOK, Arrive
<1>18. ASSUME NEW b \in Browsers, RemovalFails(b) PROVE StateOK'
  <2>2. [browser[b] EXCEPT !.pc = "kept"] \in BrowserType
    BY Edits, PcIn DEF StateOK
  <2>3. browser' \in [Browsers -> BrowserType]
    BY <1>18, <2>2, EditedBrowser DEF RemovalFails, StateOK
  <2> QED
    BY <1>18, <2>3 DEF StateOK, RemovalFails
<1> QED
  BY <1>1, <1>2, <1>3, <1>4, <1>5, <1>6, <1>7, <1>8, <1>9, <1>10, <1>11, <1>12, <1>13, <1>14,
     <1>15, <1>16, <1>17, <1>18
  DEF Next, Exit, Kill

(* The map, the registry and the calls lead to the browsers they should.  *)
Links == CallsFit /\ LaunchesDiffer /\ MapLeads /\ RegistryLeads

(* A step leaves the map, the registry and the calls leading where they      *)
(* should: a browser leaves a place only through the one call, or the map,   *)
(* that leads to it.                                                         *)
LEMMA LinkSteps == StateOK /\ Links /\ [Next]_vars => Links'
<1> SUFFICES ASSUME StateOK, Links, [Next]_vars PROVE Links'
  OBVIOUS
<1> USE Constants DEF Links, CallsFit, LaunchesDiffer, MapLeads, RegistryLeads, Fits, Fresh
<1>0. /\ \A b \in Browsers : browser[b] \in BrowserType
      /\ \A c \in Calls : call[c] \in CallType
      /\ \A s \in Sessions : /\ sessions[s] \in Browsers \cup {None}
                            /\ records[s] \in Browsers \cup {None}
  BY DEF StateOK
<1>1. ASSUME NEW c \in Calls, Use(c) PROVE Links'
  <2> DEFINE s == call[c].session
  <2>0. s \in Sessions /\ sessions[s] # None
    BY <1>1 DEF Use, Commands
  <2>1. call' = [call EXCEPT ![c] = [pc |-> "work", session |-> s, op |-> call[c].op,
                                     browser |-> sessions[s]]]
    BY <1>1 DEF Use, Asks
  <2> HIDE DEF s
  <2> QED
    BY <1>0, <1>1, <2>0, <2>1 DEF Use, StateOK
<1>2. ASSUME NEW c \in Calls, Create(c) PROVE Links'
  <2> DEFINE s == call[c].session
             op == call[c].op
  <2>p. PICK b \in Browsers :
             /\ Asks(c, s, op, "launch", b) /\ browser[b].pc = "unused"
             /\ call[c].pc = "asked"
             /\ browser' = [browser EXCEPT ![b].pc = "launching", ![b].session = s,
                                                  ![b].profile = TRUE, ![b].runs = TRUE]
    BY ONLY <1>2 DEF Create, Commands
  <2>0. s \in Sessions
    BY <2>p
  <2> HIDE DEF s, op
  <2>1. call' = [call EXCEPT ![c] = [pc |-> "launch", session |-> s, op |-> op, browser |-> b]]
    BY <2>p DEF Asks
  <2>2. /\ browser'[b].pc = "launching" /\ browser'[b].session = s
        /\ \A x \in Browsers : x # b => browser'[x] = browser[x]
    BY <1>0, <2>p DEF StateOK, BrowserType
  <2>3. UNCHANGED <<sessions, records>>
    BY <1>2 DEF Create
  <2>4. CallsFit'
    BY <1>0, <2>p, <2>0, <2>1, <2>2 DEF StateOK
  <2>5. LaunchesDiffer'
    BY <1>0, <2>p, <2>1, <2>2 DEF StateOK
  <2>6. MapLeads' /\ RegistryLeads'
    BY <1>0, <2>p, <2>2, <2>3 DEF StateOK
  <2> QED
    BY <2>4, <2>5, <2>6
<1>3. ASSUME NEW c \in Calls, Launched(c) PROVE Links'
  <2> DEFINE b == call[c].browser
             s == call[c].session
  <2>1. /\ b \in Browsers /\ s \in Sessions /\ browser[b].session = s
        /\ browser[b].pc = "launching"
    BY <1>3 DEF Launched
  <2>2. /\ browser'[b].pc = "open" /\ browser'[b].session = s
        /\ \A x \in Browsers : x # b => browser'[x] = browser[x]
    BY <1>0, <1>3, <2>1 DEF StateOK, BrowserType, Launched
  <2>3. /\ call'[c].pc = "work" /\ call'[c].browser = b /\ call'[c].session = s
        /\ \A d \in Calls : d # c => call'[d] = call[d]
    BY <1>0, <1>3 DEF StateOK, CallType, Launched
  <2>4. /\ sessions'[s] = b /\ \A t \in Sessions : t # s => sessions'[t] = sessions[t]
        /\ UNCHANGED records
    BY <1>3, <2>1 DEF StateOK, Launched
  <2>5. call[c].pc = "launch"
    BY <1>3 DEF Launched
  <2> HIDE DEF b, s
  <2>6. \A d \in Calls : d # c /\ call[d].pc = "launch" => call[d].browser # b
    BY <2>5 DEF b
  <2>7. CallsFit'
    BY <1>0, <2>1, <2>2, <2>3, <2>6
  <2>8. LaunchesDiffer'
    BY <2>3
  <2>9. MapLeads' /\ RegistryLeads'
    BY <1>0, <2>1, <2>2, <2>4
  <2> QED
    BY <2>7, <2>8, <2>9
<1>4. ASSUME NEW c \in Calls, LaunchFails(c) PROVE Links'
  <2> DEFINE b == call[c].browser
  <2>1. b \in Browsers /\ browser[b].pc = "launching" /\ call[c].pc = "launch"
    BY <1>4 DEF LaunchFails
  <2>2. /\ browser'[b].pc = "failed"
        /\ \A x \in Browsers : x # b => browser'[x] = browser[x]
        /\ \A x \in Browsers : browser'[x].session = browser[x].session
    BY <1>0, <1>4, <2>1 DEF StateOK, BrowserType, LaunchFails
  <2>3. /\ call'[c].pc = "idle" /\ \A d \in Calls : d # c => call'[d] = call[d]
        /\ UNCHANGED <<sessions, records>>
    BY <1>4 DEF StateOK, LaunchFails, Idle
  <2>4. \A d \in Calls : d # c /\ call[d].pc = "launch" => call[d].browser # b
    BY <2>1
  <2> HIDE DEF b
  <2> QED
    BY <1>0, <2>1, <2>2, <2>3, <2>4
<1>5. ASSUME NEW c \in Calls, Finish(c) PROVE Links'
  <2>1. /\ \A x \in Browsers : /\ browser'[x].pc = browser[x].pc
                               /\ browser'[x].session = browser[x].session
                               /\ browser'[x].receipt = browser[x].receipt
    BY <1>0, <1>5 DEF StateOK, BrowserType, Finish, Noted
  <2>2. /\ call'[c].pc = "idle" /\ \A d \in Calls : d # c => call'[d] = call[d]
        /\ UNCHANGED <<sessions, records>>
    BY <1>5 DEF StateOK, Finish, Idle
  <2> QED
    BY <1>0, <2>1, <2>2
<1>6. ASSUME NEW c \in Calls, Fails(c) PROVE Links'
  <2>1. /\ call'[c].pc = "idle" /\ \A d \in Calls : d # c => call'[d] = call[d]
        /\ UNCHANGED <<sessions, records, browser>>
    BY <1>6 DEF StateOK, Fails, Idle
  <2> QED
    BY <1>0, <2>1
<1>7. ASSUME NEW c \in Calls, Close(c) PROVE Links'
  <2> DEFINE s == call[c].session
             b == sessions[s]
  <2>p. /\ sessions' = [sessions EXCEPT ![s] = None]
        /\ browser' = [browser EXCEPT ![b].pc = "closing"]
        /\ Asks(c, s, "close", "closing", b)
    BY <1>7 DEF Close
  <2>1. s \in Sessions /\ b \in Browsers /\ browser[b].pc = "open" /\ browser[b].session = s
    BY <1>7 DEF Close, StateOK
  <2>2. /\ browser'[b].pc = "closing"
        /\ \A x \in Browsers : x # b => browser'[x] = browser[x]
        /\ \A x \in Browsers : browser'[x].session = browser[x].session
    BY <1>0, <2>p, <2>1 DEF StateOK, BrowserType
  <2>3. /\ call'[c].pc = "closing" /\ call'[c].session = s /\ call'[c].browser = b
        /\ \A d \in Calls : d # c => call'[d] = call[d]
    BY <2>p DEF Asks, StateOK
  <2>4. /\ sessions'[s] = None /\ \A t \in Sessions : t # s => sessions'[t] = sessions[t]
        /\ UNCHANGED records
    BY <1>7, <2>1 DEF StateOK, Close
  <2> HIDE DEF b, s
  <2>5. CallsFit' /\ LaunchesDiffer'
    BY <1>0, <2>1, <2>2, <2>3
  <2>6. MapLeads' /\ RegistryLeads'
    BY <1>0, <2>1, <2>2, <2>4
  <2> QED
    BY <2>5, <2>6
<1>8. ASSUME NEW c \in Calls, CloseAnswers(c) PROVE Links'
  <2> DEFINE b == call[c].browser
             s == call[c].session
  <2>1. /\ b \in Browsers /\ s \in Sessions /\ browser[b].session = s
    BY <1>8 DEF CloseAnswers
  <2>2. /\ call'[c].pc = "idle" /\ \A d \in Calls : d # c => call'[d] = call[d]
        /\ UNCHANGED <<sessions, browser>>
    BY <1>8 DEF StateOK, CloseAnswers, Idle
  <2>3. \A t \in Sessions :
          \/ records'[t] = records[t]
          \/ /\ t = s /\ records'[t] = b
             /\ browser[b].pc = "closed" /\ browser[b].receipt \notin {None, Torn}
    <3>1. CASE In(b, "closed") /\ Whole(b)
      <4>1. records' = [records EXCEPT ![s] = b]
        BY <1>8, <3>1 DEF CloseAnswers, Recorded
      <4> HIDE DEF b, s
      <4>2. browser[b].pc = "closed" /\ browser[b].receipt \notin {None, Torn}
        BY <3>1 DEF Whole, In
      <4>3. \A t \in Sessions : records'[t] = IF t = s THEN b ELSE records[t]
        BY ONLY <4>1, <2>1, StateOK DEF StateOK
      <4> QED
        BY ONLY <4>2, <4>3
    <3>2. CASE ~(In(b, "closed") /\ Whole(b))
      <4>1. records' = records
        BY ONLY <1>8, <3>2 DEF CloseAnswers, Recorded
      <4> QED
        BY ONLY <4>1
    <3> QED
      BY <3>1, <3>2
  <2> HIDE DEF b, s
  <2> QED
    BY <1>0, <2>1, <2>2, <2>3
<1>9. ASSUME NEW b \in Browsers, BrowserCloses(b) \/ ReceiptIsWritten(b) \/ ClosingFails(b)
             \/ ProfileIsRemoved(b) \/ RemovalFails(b)
      PROVE Links'
  <2>1. /\ browser[b].pc \in {"closing", "writing", "removing"}
        /\ browser'[b].pc \in {"writing", "removing", "closed", "kept"}
        /\ \A x \in Browsers : x # b => browser'[x] = browser[x]
        /\ \A x \in Browsers : browser'[x].session = browser[x].session
    <3>1. CASE BrowserCloses(b)
      BY <1>0, <3>1 DEF StateOK, BrowserType, BrowserCloses, In
    <3>2. CASE ReceiptIsWritten(b)
      BY <1>0, <3>2 DEF StateOK, BrowserType, ReceiptIsWritten, In
    <3>3. CASE ClosingFails(b)
      BY <1>0, <3>3 DEF StateOK, BrowserType, ClosingFails, AfterFailure
    <3>4. CASE ProfileIsRemoved(b)
      BY <1>0, <3>4 DEF StateOK, BrowserType, ProfileIsRemoved, In
    <3>5. CASE RemovalFails(b)
      BY <1>0, <3>5 DEF StateOK, BrowserType, RemovalFails, In
    <3> QED
      BY <1>9, <3>1, <3>2, <3>3, <3>4, <3>5
  <2>2. UNCHANGED <<sessions, records, call>>
    BY <1>9 DEF BrowserCloses, ReceiptIsWritten, ClosingFails, ProfileIsRemoved, RemovalFails
  <2> QED
    BY <1>0, <2>1, <2>2
<1>10. CASE Stop
  <2>1. /\ \A x \in Browsers : /\ browser'[x].session = browser[x].session
                               /\ browser'[x].receipt = browser[x].receipt
                               /\ \/ browser'[x].pc = browser[x].pc
                                  \/ browser[x].pc = "open" /\ browser'[x].pc = "closing"
    BY <1>0, <1>10 DEF StateOK, BrowserType, Stop, Mapped
  <2>2. UNCHANGED <<records, call>> /\ \A s \in Sessions : sessions'[s] = None
    BY <1>10 DEF Stop
  <2> QED
    BY <1>0, <2>1, <2>2
<1>11. CASE Gone
  <2>1. /\ \A c \in Calls : call'[c].pc = "idle"
        /\ \A s \in Sessions : sessions'[s] = None /\ records'[s] = None
    BY <1>11 DEF Gone, Idle
  <2> QED
    BY <2>1
<1>12. CASE Restart \/ UNCHANGED vars
  BY <1>12 DEF Restart, vars
<1>13. ASSUME NEW c \in Calls, Arrive(c) PROVE Links'
  <2>1. /\ call'[c].pc = "asked" /\ call'[c].session \in Sessions
        /\ \A d \in Calls : d # c => call'[d] = call[d]
        /\ UNCHANGED <<sessions, records, browser>>
    BY <1>13 DEF StateOK, Arrive, Asks
  <2> QED
    BY <1>0, <2>1
<1> QED
  BY <1>1, <1>2, <1>3, <1>4, <1>5, <1>6, <1>7, <1>8, <1>9, <1>10, <1>11, <1>12, <1>13
  DEF Next, Exit, Kill

(* Sequences: what is appended to a list that begins with another is last,   *)
(* and leaves it beginning so.                                               *)
LEMMA PrefixOfItself == ASSUME NEW done \in Actions PROVE IsPrefix(done, done)
  BY DEF IsPrefix, Actions

LEMMA LastOfAppended ==
  ASSUME NEW actions \in Actions, NEW op \in Words PROVE Last(Append(actions, op)) = op
  BY DEF Last, Actions

LEMMA PrefixOfAppended ==
  ASSUME NEW done \in Actions, NEW actions \in Actions, NEW op \in Words,
         IsPrefix(done, actions)
  PROVE  IsPrefix(done, Append(actions, op))
<1>1. /\ Len(done) \in Nat /\ Len(actions) \in Nat /\ Len(done) <= Len(actions)
      /\ SubSeq(done, 1, Len(done)) = SubSeq(actions, 1, Len(done))
  BY DEF IsPrefix, Actions
<1>2. Len(Append(actions, op)) = Len(actions) + 1
  BY DEF Actions
<1>3. SubSeq(Append(actions, op), 1, Len(done)) = SubSeq(actions, 1, Len(done))
  BY <1>1 DEF Actions
<1> QED
  BY <1>1, <1>2, <1>3 DEF IsPrefix

(* A step leaves every receipt sound: an answer is noted together with the   *)
(* action while the browser is open, and afterwards only actions are added,  *)
(* until the close is written down.                                          *)
LEMMA ReceiptSteps ==
  StateOK /\ Links /\ ReceiptsAreSound /\ [Next]_vars => ReceiptsAreSound'
<1> SUFFICES ASSUME StateOK, Links, ReceiptsAreSound, [Next]_vars,
                    NEW x \in Browsers
             PROVE  Sound(browser'[x], answered'[x])
  BY DEF ReceiptsAreSound
<1> DEFINE Same == browser'[x] = browser[x] /\ answered'[x] = answered[x]
<1>0. /\ Sound(browser[x], answered[x])
      /\ browser[x] \in BrowserType
      /\ answered[x] \in Actions /\ browser[x].actions \in Actions
      /\ browser \in [Browsers -> BrowserType] /\ answered \in [Browsers -> Actions]
  BY DEF ReceiptsAreSound, StateOK, BrowserType
<1>s. ASSUME Same PROVE Sound(browser'[x], answered'[x])
  BY <1>s, <1>0
<1>1. ASSUME NEW c \in Calls,
             Arrive(c) \/ Use(c) \/ Fails(c) \/ CloseAnswers(c)
      PROVE  Sound(browser'[x], answered'[x])
  <2>1. Same
    BY <1>1 DEF Arrive, Use, Fails, CloseAnswers
  <2> QED
    BY <2>1, <1>s
<1>2. ASSUME NEW c \in Calls, Create(c) PROVE Sound(browser'[x], answered'[x])
  <2> DEFINE s == call[c].session
  <2>p. PICK b \in Browsers :
             /\ browser[b].pc = "unused"
             /\ browser' = [browser EXCEPT ![b].pc = "launching", ![b].session = s,
                                                  ![b].profile = TRUE, ![b].runs = TRUE]
    BY ONLY <1>2 DEF Create
  <2>q. s \in Sessions
    BY <1>2 DEF Create, Commands, Links, CallsFit, Fits
  <2> HIDE DEF s
  <2>1. CASE x = b
    <3>1. /\ browser'[x].pc = "launching" /\ browser'[x].session = s
          /\ browser'[x].actions = browser[x].actions
          /\ browser'[x].receipt = browser[x].receipt
          /\ answered' = answered
      BY <1>0, <1>2, <2>p, <2>1 DEF Create, BrowserType
    <3>2. browser[x].actions = <<>> /\ answered[x] = <<>> /\ browser[x].receipt = None
      BY <1>0, <2>p, <2>1 DEF Sound, Fresh
    <3> QED
      BY <2>q, <3>1, <3>2 DEF Sound, Fresh
  <2>2. CASE x # b
    BY <1>0, <1>2, <2>p, <2>2, <1>s DEF Create
  <2> QED
    BY <2>1, <2>2
<1>3. ASSUME NEW c \in Calls, Launched(c) PROVE Sound(browser'[x], answered'[x])
  <2> DEFINE b == call[c].browser
  <2>1. b \in Browsers /\ browser[b].pc = "launching"
    BY <1>3 DEF Launched, Links, CallsFit, Fits
  <2>2. browser' = [browser EXCEPT ![b].pc = "open"] /\ answered' = answered
    BY <1>3 DEF Launched
  <2> HIDE DEF b
  <2>3. CASE x = b
    <3>1. /\ browser'[x].pc = "open" /\ browser'[x].session = browser[x].session
          /\ browser'[x].actions = browser[x].actions
          /\ browser'[x].receipt = browser[x].receipt
      BY <1>0, <2>2, <2>3 DEF BrowserType
    <3>2. /\ browser[x].actions = answered[x] /\ browser[x].receipt = None
          /\ browser[x].session \in Sessions
      BY <1>0, <2>1, <2>3 DEF Sound, Fresh
    <3> QED
      BY <2>2, <3>1, <3>2 DEF Sound, Fresh
  <2>4. CASE x # b
    BY <1>0, <2>2, <2>4, <1>s
  <2> QED
    BY <2>3, <2>4
<1>4. ASSUME NEW c \in Calls, LaunchFails(c) PROVE Sound(browser'[x], answered'[x])
  <2> DEFINE b == call[c].browser
  <2>1. b \in Browsers /\ browser[b].pc = "launching"
    BY <1>4 DEF LaunchFails, Links, CallsFit, Fits
  <2>2. browser' = [browser EXCEPT ![b].pc = "failed"] /\ answered' = answered
    BY <1>4 DEF LaunchFails
  <2> HIDE DEF b
  <2>3. CASE x = b
    <3>1. /\ browser'[x].pc = "failed" /\ browser'[x].session = browser[x].session
          /\ browser'[x].receipt = browser[x].receipt
      BY <1>0, <2>2, <2>3 DEF BrowserType
    <3>2. browser[x].receipt = None /\ browser[x].session \in Sessions
      BY <1>0, <2>1, <2>3 DEF Sound, Fresh
    <3> QED
      BY <2>2, <3>1, <3>2 DEF Sound, Fresh
  <2>4. CASE x # b
    BY <1>0, <2>2, <2>4, <1>s
  <2> QED
    BY <2>3, <2>4
<1>5. ASSUME NEW c \in Calls, Finish(c) PROVE Sound(browser'[x], answered'[x])
  <2> DEFINE b == call[c].browser
             op == call[c].op
  <2>1. b \in Browsers /\ browser[b].pc \notin Fresh /\ op \in Words
    BY <1>5 DEF Finish, Links, CallsFit, Fits, StateOK, CallType
  <2>2. /\ browser' = [browser EXCEPT ![b].actions = Append(@, op)]
        /\ answered' = IF browser[b].pc = "open" THEN [answered EXCEPT ![b] = Append(@, op)]
                       ELSE answered
    BY <1>5, <2>1, Constants DEF Finish, Noted, In
  <2> HIDE DEF b, op
  <2>3. CASE x = b
    <3>1. /\ browser'[x].pc = browser[x].pc /\ browser'[x].session = browser[x].session
          /\ browser'[x].receipt = browser[x].receipt
          /\ browser'[x].content = browser[x].content
          /\ browser'[x].profile = browser[x].profile
          /\ browser'[x].runs = browser[x].runs
          /\ browser'[x].actions = Append(browser[x].actions, op)
      BY <1>0, <2>2, <2>3 DEF BrowserType
    <3>2. answered'[x] = IF browser[x].pc = "open" THEN Append(answered[x], op) ELSE answered[x]
      BY <1>0, <2>2, <2>3
    <3>3. CASE browser[x].pc = "open"
      <4>1. browser[x].actions = answered[x] /\ browser[x].receipt = None
        BY <1>0, <3>3 DEF Sound
      <4> QED
        BY <1>0, <3>1, <3>2, <3>3, <4>1 DEF Sound, Fresh
    <3>4. CASE browser[x].pc = "closing"
      <4>1. IsPrefix(answered[x], browser[x].actions) /\ browser[x].receipt = None
        BY <1>0, <3>4 DEF Sound
      <4>2. IsPrefix(answered[x], Append(browser[x].actions, op))
        BY <1>0, <2>1, <4>1, PrefixOfAppended
      <4> QED
        BY <1>0, <3>1, <3>2, <3>4, <4>1, <4>2 DEF Sound, Fresh
    <3>5. CASE browser[x].pc \notin {"open", "closing"}
      BY <1>0, <2>1, <2>3, <3>1, <3>2, <3>5 DEF Sound
    <3> QED
      BY <3>3, <3>4, <3>5
  <2>4. CASE x # b
    <3>1. Same
      BY <1>0, <2>2, <2>4
    <3> QED
      BY <3>1, <1>s
  <2> QED
    BY <2>3, <2>4
<1>6. ASSUME NEW c \in Calls, Close(c) PROVE Sound(browser'[x], answered'[x])
  <2> DEFINE b == sessions[call[c].session]
  <2>1. b \in Browsers /\ browser[b].pc = "open" /\ answered' = answered
    BY <1>6 DEF Close, Links, CallsFit, Fits, MapLeads, StateOK
  <2>2. browser' = [browser EXCEPT ![b].pc = "closing"]
    BY <1>6 DEF Close
  <2> HIDE DEF b
  <2>3. CASE x = b
    <3>1. /\ browser'[x].pc = "closing" /\ browser'[x].session = browser[x].session
          /\ browser'[x].actions = browser[x].actions
          /\ browser'[x].receipt = browser[x].receipt
      BY <1>0, <2>2, <2>3 DEF BrowserType
    <3>2. /\ browser[x].actions = answered[x] /\ browser[x].receipt = None
          /\ browser[x].session \in Sessions
      BY <1>0, <2>1, <2>3 DEF Sound, Fresh
    <3>3. IsPrefix(answered[x], browser[x].actions)
      BY <1>0, <3>2, PrefixOfItself
    <3> QED
      BY <2>1, <3>1, <3>2, <3>3 DEF Sound, Fresh
  <2>4. CASE x # b
    BY <1>0, <2>1, <2>2, <2>4, <1>s
  <2> QED
    BY <2>3, <2>4
<1>7. ASSUME NEW b \in Browsers, BrowserCloses(b) PROVE Sound(browser'[x], answered'[x])
  <2> DEFINE actions == Append(browser[b].actions, "close")
  <2>1. /\ browser' = [browser EXCEPT ![b].pc = "writing", ![b].runs = FALSE,
                                      ![b].actions = actions, ![b].content = actions,
                                      ![b].receipt = Torn]
        /\ answered' = answered /\ browser[b].pc = "closing"
    BY <1>7 DEF BrowserCloses, In
  <2>2. CASE x = b
    <3>1. IsPrefix(answered[x], browser[x].actions) /\ browser[x].session \in Sessions
      BY <1>0, <2>1, <2>2 DEF Sound
    <3>2. Complete(answered[x], actions)
      BY <1>0, <2>2, <3>1, PrefixOfAppended, LastOfAppended, Constants DEF Complete
    <3> HIDE DEF actions
    <3>3. /\ browser'[x].pc = "writing" /\ browser'[x].session = browser[x].session
          /\ browser'[x].content = actions /\ browser'[x].receipt = Torn
      BY <1>0, <2>1, <2>2 DEF BrowserType
    <3> QED
      BY <2>1, <3>1, <3>2, <3>3 DEF Sound, Fresh
  <2>3. CASE x # b
    <3>1. Same
      BY <1>0, <2>1, <2>3
    <3> QED
      BY <3>1, <1>s
  <2> QED
    BY <2>2, <2>3
<1>8. ASSUME NEW b \in Browsers, ReceiptIsWritten(b) PROVE Sound(browser'[x], answered'[x])
  <2>1. /\ browser' = [browser EXCEPT ![b].pc = "removing", ![b].receipt = browser[b].content]
        /\ answered' = answered /\ browser[b].pc = "writing"
    BY <1>8 DEF ReceiptIsWritten, In
  <2>2. CASE x = b
    <3>1. Complete(answered[x], browser[x].content) /\ browser[x].session \in Sessions
      BY <1>0, <2>1, <2>2 DEF Sound
    <3>2. /\ browser'[x].pc = "removing" /\ browser'[x].session = browser[x].session
          /\ browser'[x].receipt = browser[x].content
      BY <1>0, <2>1, <2>2 DEF BrowserType
    <3> QED
      BY <2>1, <3>1, <3>2 DEF Sound, Fresh
  <2>3. CASE x # b
    BY <1>0, <2>1, <2>3, <1>s
  <2> QED
    BY <2>2, <2>3
<1>9. ASSUME NEW b \in Browsers, ClosingFails(b) \/ ProfileIsRemoved(b) \/ RemovalFails(b)
      PROVE  Sound(browser'[x], answered'[x])
  <2>1. /\ \/ browser' = [browser EXCEPT ![b].pc = "removing"]
           \/ browser' = [browser EXCEPT ![b].pc = "kept"]
           \/ browser' = [browser EXCEPT ![b].pc = "closed", ![b].profile = FALSE]
        /\ answered' = answered /\ browser[b].pc \in Ending
    BY <1>9 DEF ClosingFails, ProfileIsRemoved, RemovalFails, AfterFailure, In, Ending
  <2>2. CASE x = b
    <3>1. /\ \/ browser'[x].pc \in {"removing", "kept"}
             \/ browser'[x].pc = "closed" /\ ~browser'[x].profile
          /\ browser'[x].session = browser[x].session
          /\ browser'[x].receipt = browser[x].receipt
      BY <1>0, <2>1, <2>2 DEF BrowserType
    <3>2. /\ browser[x].receipt \notin {None, Torn} => Complete(answered[x], browser[x].receipt)
          /\ browser[x].session \in Sessions
      BY <1>0, <2>1, <2>2 DEF Sound, Ending
    <3> QED
      BY <2>1, <3>1, <3>2 DEF Sound, Fresh
  <2>3. CASE x # b
    BY <1>0, <2>1, <2>3, <1>s
  <2> QED
    BY <2>2, <2>3
<1>10. CASE Stop
  <2>1. answered' = answered
    BY <1>10 DEF Stop
  <2>2. CASE x \in stopped'
    <3>1. browser[x].pc = "open"
      BY <1>10, <2>2 DEF Stop, Mapped, Links, MapLeads
    <3>2. /\ browser'[x].pc = "closing" /\ browser'[x].session = browser[x].session
          /\ browser'[x].actions = browser[x].actions
          /\ browser'[x].receipt = browser[x].receipt
      BY <1>0, <1>10, <2>2 DEF Stop, BrowserType
    <3>3. /\ browser[x].actions = answered[x] /\ browser[x].receipt = None
          /\ browser[x].session \in Sessions
      BY <1>0, <3>1 DEF Sound
    <3>4. IsPrefix(answered[x], browser[x].actions)
      BY <1>0, <3>3, PrefixOfItself
    <3> QED
      BY <2>1, <3>2, <3>3, <3>4 DEF Sound, Fresh
  <2>3. CASE x \notin stopped'
    BY <1>10, <2>1, <2>3, <1>s DEF Stop
  <2> QED
    BY <2>2, <2>3
<1>11. CASE Gone
  <2>1. answered' = answered
    BY <1>11 DEF Gone
  <2>2. CASE browser[x].pc \in {"unused", "closed", "kept"}
    BY <1>11, <2>1, <2>2, <1>s DEF Gone
  <2>3. CASE browser[x].pc \notin {"unused", "closed", "kept"}
    <3>1. /\ browser'[x].pc = "left" /\ browser'[x].session = browser[x].session
          /\ browser'[x].receipt = browser[x].receipt
      BY <1>0, <1>11, <2>3 DEF Gone, BrowserType
    <3>2. /\ browser[x].receipt \notin {None, Torn} => Complete(answered[x], browser[x].receipt)
          /\ browser[x].session \in Sessions
      BY <1>0, <2>3 DEF Sound
    <3> QED
      BY <2>1, <3>1, <3>2 DEF Sound, Fresh
  <2> QED
    BY <2>2, <2>3
<1>12. CASE Restart \/ UNCHANGED vars
  <2>1. Same
    BY <1>12 DEF Restart, vars
  <2> QED
    BY <2>1, <1>s
<1> QED
  BY <1>1, <1>2, <1>3, <1>4, <1>5, <1>6, <1>7, <1>8, <1>9, <1>10, <1>11, <1>12
  DEF Next, Exit, Kill

(* Calm does not return. *)
LEMMA CalmBefore == [Next]_vars /\ calm' => calm
<1> SUFFICES ASSUME [Next]_vars, calm' PROVE calm
  OBVIOUS
<1>1. ASSUME NEW c \in Calls,
             Arrive(c) \/ Use(c) \/ Create(c) \/ Launched(c) \/ LaunchFails(c) \/ Finish(c)
             \/ Fails(c) \/ Close(c) \/ CloseAnswers(c)
      PROVE  calm
  BY <1>1, Zenon
  DEF Arrive, Use, Create, Launched, LaunchFails, Finish, Fails, Close, CloseAnswers, Fault
<1>2. ASSUME NEW b \in Browsers,
             BrowserCloses(b) \/ ReceiptIsWritten(b) \/ ClosingFails(b) \/ ProfileIsRemoved(b)
             \/ RemovalFails(b)
      PROVE  calm
  BY <1>2, Zenon
  DEF BrowserCloses, ReceiptIsWritten, ClosingFails, ProfileIsRemoved, RemovalFails
<1>3. CASE Stop \/ Exit \/ Kill \/ Restart \/ UNCHANGED vars
  BY <1>3, Zenon DEF Stop, Exit, Kill, Restart, Fault, vars
<1> QED
  BY <1>1, <1>2, <1>3 DEF Next

(* As long as it is calm, a step leads from calm to calm. *)
LEMMA QuietSteps ==
  StateOK /\ Links /\ ReceiptsAreSound /\ Quiet /\ [Next]_vars /\ calm' => Quiet'
<1> SUFFICES ASSUME StateOK, Links, ReceiptsAreSound, Quiet, [Next]_vars, calm' PROVE Quiet'
  OBVIOUS
<1> USE Constants
    DEF Quiet, OpenAreMapped, LaunchedAreAwaited, EndsAreAwaited, NothingFailed, Launching
<1>0. /\ \A b \in Browsers : browser[b] \in BrowserType
      /\ \A c \in Calls : call[c] \in CallType
      /\ \A s \in Sessions : sessions[s] \in Browsers \cup {None}
      /\ \A c \in Calls :
           /\ call[c].pc # "idle" => call[c].session \in Sessions
           /\ call[c].pc \notin {"idle", "asked"} =>
                /\ call[c].browser \in Browsers
                /\ browser[call[c].browser].session = call[c].session
      /\ \A c \in Calls : call[c].pc = "launch" => browser[call[c].browser].pc = "launching"
      /\ \A b \in Browsers : browser[b].pc # "unused" => browser[b].session \in Sessions
      /\ server \in {"up", "stopping", "gone"}
  BY DEF StateOK, Links, CallsFit, Fits, ReceiptsAreSound, Sound
<1>1. ASSUME NEW c \in Calls, Arrive(c) \/ Use(c) PROVE Quiet'
  <2>1. /\ call'[c].pc \in {"asked", "work"} /\ call[c].pc \in {"idle", "asked"}
        /\ server = "up" \/ call'[c].pc = "work"
        /\ \A d \in Calls : d # c => call'[d] = call[d]
    <3>1. CASE Arrive(c)
      <4>1. call[c].pc = "idle" /\ server = "up"
        BY <3>1 DEF Arrive
      <4>2. \E s \in Sessions, op \in Operations \cup {"close"} : Asks(c, s, op, "asked", None)
        BY ONLY <3>1 DEF Arrive
      <4>3. call'[c].pc = "asked" /\ \A d \in Calls : d # c => call'[d] = call[d]
        BY <4>2 DEF Asks, StateOK
      <4> QED
        BY <4>1, <4>3
    <3>2. CASE Use(c)
      <4>1. call[c].pc = "asked"
        BY <3>2 DEF Use, Commands
      <4>2. Asks(c, call[c].session, call[c].op, "work", sessions[call[c].session])
        BY <3>2 DEF Use
      <4>3. call'[c].pc = "work" /\ \A d \in Calls : d # c => call'[d] = call[d]
        BY <4>2 DEF Asks, StateOK
      <4> QED
        BY <4>1, <4>3
    <3> QED
      BY <1>1, <3>1, <3>2
  <2>2. UNCHANGED <<server, sessions, browser, stopped>>
    BY <1>1 DEF Arrive, Use
  <2> QED
    BY <2>1, <2>2
<1>2. ASSUME NEW c \in Calls, Create(c) PROVE Quiet'
  <2> DEFINE s == call[c].session
             op == call[c].op
  <2>r. PICK b \in Browsers :
             /\ Asks(c, s, op, "launch", b) /\ browser[b].pc = "unused"
             /\ call[c].pc = "asked" /\ sessions[s] = None
             /\ browser' = [browser EXCEPT ![b].pc = "launching", ![b].session = s,
                                                  ![b].profile = TRUE, ![b].runs = TRUE]
    BY ONLY <1>2 DEF Create, Commands
  <2>p. /\ Asks(c, s, op, "launch", b) /\ browser[b].pc = "unused"
        /\ call[c].pc = "asked" /\ sessions[s] = None /\ server = "up"
        /\ browser' = [browser EXCEPT ![b].pc = "launching", ![b].session = s,
                                      ![b].profile = TRUE, ![b].runs = TRUE]
        /\ s \in Sessions
    BY <1>0, <2>r
  <2> HIDE DEF s, op
  <2>1. /\ call'[c].pc = "launch" /\ call'[c].browser = b /\ call'[c].session = s
        /\ \A d \in Calls : d # c => call'[d] = call[d]
    BY <2>p DEF Asks, StateOK
  <2>2. /\ browser'[b].pc = "launching" /\ browser'[b].session = s
        /\ \A x \in Browsers : x # b => browser'[x] = browser[x]
    BY <1>0, <2>p DEF StateOK, BrowserType
  <2>3. UNCHANGED <<server, sessions, stopped>>
    BY <1>2 DEF Create
  <2>4. Launching = {}
    BY <1>2, Zenon DEF Create
  <2>8. browser[b].pc = "unused" /\ sessions[s] = None /\ server = "up" /\ call[c].pc = "asked"
    BY <2>p
  <2>5. OpenAreMapped' /\ NothingFailed'
    BY <2>2, <2>3
  <2>6. LaunchedAreAwaited'
    <3>1. \A d \in Calls : call'[d].pc = "launch" <=> d = c
      BY <2>1, <2>4
    <3>2. \A x \in Browsers : browser'[x].pc = "launching" => x = b
      BY <2>2, <2>4, <2>8
    <3> QED
      BY <2>1, <2>3, <2>8, <3>1, <3>2
  <2>7. EndsAreAwaited'
    BY <2>1, <2>2, <2>3, <2>8 DEF Ending
  <2> QED
    BY <2>5, <2>6, <2>7
<1>3. ASSUME NEW c \in Calls, Launched(c) PROVE Quiet'
  <2> DEFINE b == call[c].browser
             s == call[c].session
  <2>1. /\ b \in Browsers /\ s \in Sessions /\ browser[b].session = s
        /\ browser[b].pc = "launching" /\ call[c].pc = "launch" /\ server = "up"
        /\ sessions[s] = None
    BY <1>0, <1>3 DEF Launched
  <2>2. /\ browser'[b].pc = "open" /\ browser'[b].session = s
        /\ \A x \in Browsers : x # b => browser'[x] = browser[x]
    BY <1>0, <1>3, <2>1 DEF StateOK, BrowserType, Launched
  <2>3. /\ call'[c].pc = "work" /\ \A d \in Calls : d # c => call'[d] = call[d]
    BY <1>0, <1>3 DEF StateOK, CallType, Launched
  <2>4. /\ sessions'[s] = b /\ \A t \in Sessions : t # s => sessions'[t] = sessions[t]
        /\ UNCHANGED <<server, stopped>>
    BY <1>3, <2>1 DEF StateOK, Launched
  <2>5. \A d \in Calls : d # c => call[d].pc # "launch"
    BY <2>1
  <2>6. \A x \in Browsers : x # b => browser[x].pc # "launching"
    BY <2>1, <2>5
  <2> HIDE DEF b, s
  <2>7. OpenAreMapped' /\ NothingFailed'
    BY <1>0, <2>1, <2>2, <2>4
  <2>8. LaunchedAreAwaited'
    BY <2>1, <2>2, <2>3, <2>4, <2>5, <2>6
  <2>9. EndsAreAwaited'
    BY <2>1, <2>2, <2>3, <2>4 DEF Ending
  <2> QED
    BY <2>7, <2>8, <2>9
<1>4. ASSUME NEW c \in Calls, LaunchFails(c) PROVE Quiet'
  BY <1>4, Zenon DEF LaunchFails, Fault
<1>5. ASSUME NEW c \in Calls, Finish(c) \/ Fails(c) \/ CloseAnswers(c) PROVE Quiet'
  <2>1. /\ \A x \in Browsers : /\ browser'[x].pc = browser[x].pc
                               /\ browser'[x].session = browser[x].session
        /\ call'[c].pc = "idle" /\ \A d \in Calls : d # c => call'[d] = call[d]
        /\ UNCHANGED <<server, sessions, stopped>>
        /\ \/ call[c].pc \in {"asked", "work"}
           \/ call[c].pc = "closing" /\ browser[call[c].browser].pc \in {"closed", "kept"}
    <3>1. CASE Finish(c)
      <4>1. \A x \in Browsers : /\ browser'[x].pc = browser[x].pc
                                /\ browser'[x].session = browser[x].session
        BY <1>0, <3>1 DEF StateOK, BrowserType, Finish, Noted
      <4> QED
        BY <3>1, <4>1 DEF StateOK, Finish, Idle
    <3>2. CASE Fails(c)
      BY <3>2 DEF StateOK, Fails, Idle
    <3>3. CASE CloseAnswers(c)
      BY <3>3 DEF StateOK, CloseAnswers, Idle, In, Ended
    <3> QED
      BY <1>5, <3>1, <3>2, <3>3
  <2>4. OpenAreMapped' /\ NothingFailed'
    BY <2>1
  <2>5. LaunchedAreAwaited'
    BY <2>1
  <2>6. EndsAreAwaited'
    BY <2>1 DEF Ending
  <2> QED
    BY <2>4, <2>5, <2>6
<1>6. ASSUME NEW c \in Calls, Close(c) PROVE Quiet'
  <2> DEFINE s == call[c].session
             b == sessions[s]
  <2>p. /\ sessions' = [sessions EXCEPT ![s] = None]
        /\ browser' = [browser EXCEPT ![b].pc = "closing"]
        /\ Asks(c, s, "close", "closing", b)
        /\ sessions[s] # None /\ call[c].pc = "asked"
    BY <1>6 DEF Close
  <2>1. /\ s \in Sessions /\ b \in Browsers /\ browser[b].pc = "open" /\ browser[b].session = s
        /\ server = "up" /\ call[c].pc = "asked"
    BY <1>0, <2>p DEF StateOK, Links, MapLeads
  <2>5. b = sessions[s]
    OBVIOUS
  <2> HIDE DEF b, s
  <2>2. /\ browser'[b].pc = "closing"
        /\ \A x \in Browsers : x # b => browser'[x] = browser[x]
    BY <1>0, <2>p, <2>1 DEF StateOK, BrowserType
  <2>3. /\ call'[c].pc = "closing" /\ call'[c].browser = b
        /\ \A d \in Calls : d # c => call'[d] = call[d]
    BY <2>p DEF Asks, StateOK
  <2>4. /\ sessions'[s] = None /\ \A t \in Sessions : t # s => sessions'[t] = sessions[t]
        /\ UNCHANGED <<server, stopped>>
    BY <1>6, <2>p, <2>1 DEF StateOK, Close
  <2>6. OpenAreMapped' /\ NothingFailed'
    BY <1>0, <2>1, <2>2, <2>4, <2>5
  <2>7. LaunchedAreAwaited'
    BY <1>0, <2>1, <2>2, <2>3, <2>4
  <2>8. EndsAreAwaited'
    BY <2>1, <2>2, <2>3, <2>4 DEF Ending
  <2> QED
    BY <2>6, <2>7, <2>8
<1>7. ASSUME NEW b \in Browsers,
             BrowserCloses(b) \/ ReceiptIsWritten(b) \/ ClosingFails(b) \/ ProfileIsRemoved(b)
             \/ RemovalFails(b)
      PROVE  Quiet'
  <2>1. /\ browser[b].pc \in Ending
        /\ browser'[b].pc \in {"writing", "removing", "closed", "kept"}
        /\ \A x \in Browsers : x # b => browser'[x] = browser[x]
    <3>1. CASE BrowserCloses(b)
      BY <1>0, <3>1 DEF StateOK, BrowserType, BrowserCloses, In, Ending
    <3>2. CASE ReceiptIsWritten(b)
      BY <1>0, <3>2 DEF StateOK, BrowserType, ReceiptIsWritten, In, Ending
    <3>3. CASE ClosingFails(b)
      BY <1>0, <3>3 DEF StateOK, BrowserType, ClosingFails, AfterFailure, Ending
    <3>4. CASE ProfileIsRemoved(b)
      BY <1>0, <3>4 DEF StateOK, BrowserType, ProfileIsRemoved, In, Ending
    <3>5. CASE RemovalFails(b)
      BY <1>0, <3>5 DEF StateOK, BrowserType, RemovalFails, In, Ending
    <3> QED
      BY <1>7, <3>1, <3>2, <3>3, <3>4, <3>5
  <2>2. UNCHANGED <<server, sessions, call, stopped>>
    BY <1>7 DEF BrowserCloses, ReceiptIsWritten, ClosingFails, ProfileIsRemoved, RemovalFails
  <2>3. OpenAreMapped' /\ NothingFailed'
    BY <2>1, <2>2
  <2>4. LaunchedAreAwaited'
    BY <1>0, <2>1, <2>2
  <2>5. EndsAreAwaited'
    BY <2>1, <2>2 DEF Ending
  <2> QED
    BY <2>3, <2>4, <2>5
<1>8. CASE Stop
  <2>1. \A c \in Calls : call[c].pc \in {"idle", "work"}
    BY <1>8, Zenon DEF Stop
  <2>2. /\ \A x \in Browsers : /\ x \in stopped' => browser'[x].pc = "closing"
                               /\ x \notin stopped' => browser'[x] = browser[x]
        /\ stopped' = {sessions[s] : s \in Mapped}
        /\ server = "up" /\ server' = "stopping" /\ call' = call
    BY <1>0, <1>8 DEF StateOK, BrowserType, Stop
  <2>3. \A x \in Browsers : browser[x].pc = "open" => x \in stopped'
    BY <1>0, <2>2 DEF Mapped
  <2>4. \A x \in Browsers : browser[x].pc # "launching" /\ browser[x].pc \notin Ending
    BY <2>1, <2>2
  <2>5. OpenAreMapped' /\ NothingFailed'
    BY <2>2, <2>3
  <2>6. LaunchedAreAwaited'
    BY <2>1, <2>2, <2>4
  <2>7. \A x \in Browsers : browser[x].pc \in {"unused", "closed", "kept"} \/ x \in stopped'
    BY <1>0, <2>3, <2>4 DEF BrowserType, Pcs, Ending
  <2>8. EndsAreAwaited'
    BY <2>2, <2>7
  <2> QED
    BY <2>5, <2>6, <2>8
<1>9. CASE Exit
  <2>1. server = "stopping" /\ \A b \in stopped : browser[b].pc \in {"closed", "kept"}
    BY <1>9 DEF Exit, In, Ended
  <2>2. \A b \in Browsers : browser[b].pc \in {"unused", "closed", "kept"}
    BY <2>1
  <2>3. /\ \A b \in Browsers : browser'[b] = browser[b]
        /\ server' = "gone" /\ \A c \in Calls : call'[c].pc = "idle"
    BY <1>9, <2>2 DEF Exit, Gone, Idle
  <2> QED
    BY <2>2, <2>3
<1>10. CASE Kill
  BY <1>10, Zenon DEF Kill, Fault
<1>11. CASE Restart
  <2>1. server = "gone" /\ server' = "up" /\ UNCHANGED <<sessions, browser, call, stopped>>
    BY <1>11 DEF Restart
  <2> QED
    BY <1>0, <2>1 DEF Ending
<1>12. CASE UNCHANGED vars
  BY <1>12 DEF vars
<1> QED
  BY <1>1, <1>2, <1>3, <1>4, <1>5, <1>6, <1>7, <1>8, <1>9, <1>10, <1>11, <1>12 DEF Next

(* There are finitely many browsers. *)
LEMMA StartedIsFinite ==
  Started \subseteq Browsers /\ IsFiniteSet(Started) /\ IsFiniteSet(Browsers)
<1>1. IsFiniteSet(Browsers)
  BY FS_Interval, BrowserAssumption DEF Browsers
<1> QED
  BY <1>1, FS_Subset DEF Started

(* While it is calm, there are as many open browsers as sessions in the map. *)
LEMMA OpenAreCounted ==
  ASSUME StateOK, MapLeads, OpenAreMapped, ReceiptsAreSound,
         Started = {b \in Browsers : browser[b].pc = "open"}
  PROVE  Cardinality(Started) = Cardinality(Mapped)
<1> DEFINE leads == [s \in Mapped |-> sessions[s]]
<1>1. leads \in [Mapped -> Started]
  BY DEF Mapped, MapLeads, StateOK
<1>2. leads \in Injection(Mapped, Started)
  <2>1. \A s, t \in Mapped : leads[s] = leads[t] => s = t
    BY DEF MapLeads, Mapped
  <2> QED
    BY <1>1, <2>1 DEF Injection, IsInjective
<1>3. leads \in Surjection(Mapped, Started)
  <2>1. ASSUME NEW b \in Started PROVE \E s \in Mapped : leads[s] = b
    <3>1. b \in Browsers /\ b # None /\ browser[b].session \in Sessions
      BY <2>1, Constants DEF ReceiptsAreSound, Sound
    <3>2. sessions[browser[b].session] = b
      BY <2>1, <3>1 DEF OpenAreMapped
    <3> QED
      BY <3>1, <3>2 DEF Mapped
  <2> QED
    BY <1>1, <2>1 DEF Surjection
<1> HIDE DEF leads
<1> QED
  BY <1>2, <1>3, FS_Injection, StartedIsFinite

(* A step leaves the browsers launched and open within the limit: what the   *)
(* limit counts is what is open, when a launch begins.                       *)
LEMMA LimitSteps ==
  StateOK /\ Links /\ ReceiptsAreSound /\ Quiet /\ WithinLimit /\ [Next]_vars /\ calm'
    => WithinLimit'
<1> SUFFICES ASSUME StateOK, Links, ReceiptsAreSound, Quiet, WithinLimit, [Next]_vars, calm'
             PROVE  WithinLimit'
  OBVIOUS
<1>0. /\ browser \in [Browsers -> BrowserType]
      /\ \A b \in Browsers : browser[b] \in BrowserType
      /\ IsFiniteSet(Started) /\ Cardinality(Started) \in Nat
      /\ Cardinality(Started) <= MaxSessions
  BY StartedIsFinite, FS_CardinalityType DEF StateOK, WithinLimit
<1>s. ASSUME \A b \in Browsers : browser'[b].pc \in {"launching", "open"} =>
                                 browser[b].pc \in {"launching", "open"}
      PROVE  WithinLimit'
  <2>1. Started' \in SUBSET Started
    BY <1>s DEF Started
  <2>2. IsFiniteSet(Started') /\ Cardinality(Started') <= Cardinality(Started)
    BY ONLY <1>0, <2>1, FS_Subset
  <2>3. Cardinality(Started') \in Nat
    BY <2>2, FS_CardinalityType
  <2> QED
    BY <1>0, <2>2, <2>3, Constants DEF WithinLimit
<1>1. ASSUME NEW c \in Calls, Arrive(c) \/ Use(c) \/ Fails(c) \/ CloseAnswers(c)
      PROVE  WithinLimit'
  BY <1>1, <1>s DEF Arrive, Use, Fails, CloseAnswers
<1>2. ASSUME NEW c \in Calls, Create(c) PROVE WithinLimit'
  <2> DEFINE s == call[c].session
  <2>1. PICK b \in Browsers :
             /\ BelowLimit /\ browser[b].pc = "unused"
             /\ browser' = [browser EXCEPT ![b].pc = "launching", ![b].session = s,
                                                  ![b].profile = TRUE, ![b].runs = TRUE]
    BY ONLY <1>2 DEF Create
  <2> HIDE DEF s
  <2>2. Launching = {}
    BY <1>2, Zenon DEF Create
  <2>3. Started = {x \in Browsers : browser[x].pc = "open"}
    BY <2>2 DEF Started, Quiet, LaunchedAreAwaited
  <2>4. Cardinality(Started) = Cardinality(Mapped)
    BY <2>3, OpenAreCounted DEF Links, Quiet
  <2>5. Cardinality(Started) < MaxSessions
    BY <2>1, <2>4 DEF BelowLimit
  <2>6. Started' = Started \cup {b}
    BY <1>0, <2>1 DEF Started, BrowserType
  <2>7. Cardinality(Started') <= Cardinality(Started) + 1
    <3>1. b \notin Started
      BY <2>1 DEF Started
    <3>2. Cardinality(Started \cup {b}) = Cardinality(Started) + 1
      BY ONLY <1>0, <3>1, FS_AddElement
    <3> QED
      BY ONLY <1>0, <2>6, <3>2
  <2>8. Cardinality(Started') \in Nat
    BY <1>0, <2>6, FS_AddElement, FS_CardinalityType
  <2> QED
    BY <1>0, <2>5, <2>7, <2>8, Constants DEF WithinLimit
<1>3. ASSUME NEW c \in Calls, Launched(c) \/ LaunchFails(c) PROVE WithinLimit'
  <2> DEFINE b == call[c].browser
  <2>1. b \in Browsers /\ browser[b].pc = "launching"
    BY <1>3 DEF Launched, LaunchFails, Links, CallsFit, Fits
  <2>2. \A x \in Browsers : x # b => browser'[x] = browser[x]
    BY <1>0, <1>3 DEF Launched, LaunchFails
  <2> QED
    BY <2>1, <2>2, <1>s
<1>4. ASSUME NEW c \in Calls, Finish(c) PROVE WithinLimit'
  <2>1. \A x \in Browsers : browser'[x].pc = browser[x].pc
    BY <1>0, <1>4 DEF BrowserType, Finish, Noted
  <2> QED
    BY <2>1, <1>s
<1>5. ASSUME NEW c \in Calls, Close(c) PROVE WithinLimit'
  <2>1. browser' = [browser EXCEPT ![sessions[call[c].session]].pc = "closing"]
    BY <1>5 DEF Close
  <2>2. \A x \in Browsers : browser'[x].pc \in {browser[x].pc, "closing"}
    BY <1>0, <2>1 DEF BrowserType
  <2> QED
    BY <2>2, <1>s
<1>6. ASSUME NEW b \in Browsers, BrowserCloses(b) PROVE WithinLimit'
  <2>1. \A x \in Browsers : browser'[x].pc \in {browser[x].pc, "writing"}
    BY <1>0, <1>6 DEF BrowserType, BrowserCloses
  <2> QED
    BY <2>1, <1>s
<1>7. ASSUME NEW b \in Browsers, ReceiptIsWritten(b) \/ ClosingFails(b) \/ ProfileIsRemoved(b)
                                 \/ RemovalFails(b)
      PROVE  WithinLimit'
  <2>1. \A x \in Browsers : x # b => browser'[x] = browser[x]
    BY <1>0, <1>7 DEF ReceiptIsWritten, ClosingFails, ProfileIsRemoved, RemovalFails
  <2>2. browser'[b].pc \in {"removing", "closed", "kept"}
    BY <1>0, <1>7
    DEF BrowserType, ReceiptIsWritten, ClosingFails, ProfileIsRemoved, RemovalFails,
        AfterFailure
  <2> QED
    BY <2>1, <2>2, <1>s
<1>8. CASE Stop
  <2>1. \A x \in Browsers : browser'[x].pc \in {browser[x].pc, "closing"}
    BY <1>0, <1>8 DEF BrowserType, Stop
  <2> QED
    BY <2>1, <1>s
<1>9. CASE Gone
  <2>1. \A x \in Browsers : browser'[x].pc \in {browser[x].pc, "left"}
    BY <1>0, <1>9 DEF BrowserType, Gone
  <2> QED
    BY <2>1, <1>s
<1>10. CASE Restart \/ UNCHANGED vars
  BY <1>10, <1>s DEF Restart, vars
<1> QED
  BY <1>1, <1>2, <1>3, <1>4, <1>5, <1>6, <1>7, <1>8, <1>9, <1>10 DEF Next, Exit, Kill

(* The invariant is inductive. *)
LEMMA StepPreserves == IInv /\ [Next]_vars => IInv'
<1> SUFFICES ASSUME IInv, [Next]_vars PROVE IInv'
  OBVIOUS
<1>1. StateOK /\ Links /\ ReceiptsAreSound /\ Calm
  BY DEF IInv, Links
<1>2. StateOK'
  BY <1>1, StateSteps DEF Links
<1>3. Links' /\ ReceiptsAreSound'
  BY <1>1, LinkSteps, ReceiptSteps
<1>4. ASSUME calm' PROVE Quiet' /\ WithinLimit'
  <2>1. Quiet /\ WithinLimit
    BY <1>1, <1>4, CalmBefore DEF Calm
  <2> QED
    BY <1>1, <1>4, <2>1, QuietSteps, LimitSteps
<1>5. Calm'
  BY <1>4 DEF Calm
<1> QED
  BY <1>2, <1>3, <1>5 DEF IInv, Links

(* The inductive invariant holds of every behaviour. *)
THEOREM Invariance == Spec => []IInv
  BY InitEstablishes, StepPreserves, PTL DEF Spec

(* The map leads to open browsers, the registry to whole receipts, each of   *)
(* its own session, whatever overlaps, fails or is killed                    *)
(* (browser-manager.ts 81-136, browser-evidence.ts).                         *)
THEOREM TypeCorrectness == Spec => []TypeOK
<1>1. IInv => TypeOK
  BY Constants DEF IInv, StateOK, MapLeads, RegistryLeads, CallsFit, Fits, TypeOK, In, Whole
<1> QED
  BY <1>1, Invariance, PTL

(* What a verification is given and can read is the complete receipt of a    *)
(* browser that was closed, for any number of calls and browsers             *)
(* (managed-browser-session.ts 127-221).                                     *)
THEOREM AttestationSafety == Spec => []AttestedIsComplete
<1>1. IInv => AttestedIsComplete
  <2> SUFFICES ASSUME IInv, NEW s \in Sessions, NEW a \in Attested(s)
               PROVE  /\ a[2] # None
                      /\ a[2] # Torn => Last(a[2]) = "close" /\ IsPrefix(answered[a[1]], a[2])
    BY DEF AttestedIsComplete
  <2>1. PICK b \in IF records[s] # None THEN {records[s]} ELSE Discovered(s) :
               a = <<b, browser[b].receipt>>
    BY DEF Attested
  <2>2. b \in Browsers /\ browser[b].receipt # None
    <3>1. CASE records[s] # None
      BY <2>1, <3>1 DEF IInv, StateOK, RegistryLeads
    <3>2. CASE records[s] = None
      BY <2>1, <3>2 DEF Discovered
    <3> QED
      BY <3>1, <3>2
  <2>3. browser[b].receipt # Torn => Complete(answered[b], browser[b].receipt)
    BY <2>2 DEF IInv, ReceiptsAreSound, Sound
  <2> QED
    BY <2>1, <2>2, <2>3 DEF Complete
<1> QED
  BY <1>1, Invariance, PTL

(* A browser that may be running is one that a session leads to, a call or   *)
(* the stopping server is busy with, or one that was told to close and did   *)
(* not; the limit holds, and only profiles that could not be removed are     *)
(* left: as long as launches do not overlap one another, no call is on its   *)
(* way to a browser or closing one when the server is told to stop, none     *)
(* fails to launch and the server is not killed (browser-manager.ts 81-136,  *)
(* server.ts 407-418 and 1048-1056).                                         *)
THEOREM BrowserSafety == Spec => []BrowsersAreAccountedFor
<1>1. IInv => BrowsersAreAccountedFor
  <2> SUFFICES ASSUME IInv, calm PROVE BrowsersAreAccountedFor
    BY DEF BrowsersAreAccountedFor
  <2>1. Quiet /\ Cardinality(Started) <= MaxSessions
    BY DEF IInv, Calm, WithinLimit
  <2>2. ASSUME NEW b \in Browsers, browser[b].runs PROVE Accounted(b)
    <3>1. browser[b].pc \in {"launching", "open", "closing", "writing", "removing", "closed", "kept"}
      <4>1. browser[b].pc \in Pcs /\ browser[b].pc # "unused"
        BY <2>2 DEF IInv, StateOK, BrowserType, ReceiptsAreSound, Sound
      <4>2. browser[b].pc \notin {"failed", "left"}
        BY <2>1 DEF Quiet, NothingFailed
      <4> QED
        BY <4>1, <4>2 DEF Pcs
    <3>2. CASE browser[b].pc = "launching"
      BY <2>1, <3>2 DEF Quiet, LaunchedAreAwaited, Launching, Accounted
    <3>3. CASE browser[b].pc = "open"
      BY <2>1, <3>3 DEF Quiet, OpenAreMapped, Accounted
    <3>4. CASE browser[b].pc \in Ending
      BY <2>1, <3>4 DEF Quiet, EndsAreAwaited, Accounted, Ending, IInv, StateOK
    <3>5. CASE browser[b].pc \in {"closed", "kept"}
      BY <3>5, Constants DEF Accounted, Ended, In
    <3> QED
      BY <3>1, <3>2, <3>3, <3>4, <3>5 DEF Ending
  <2>3. server = "gone" => \A b \in Browsers : browser[b].profile => In(b, "kept")
    BY <2>1, Constants DEF Quiet, EndsAreAwaited, IInv, ReceiptsAreSound, Sound, In
  <2> QED
    BY <2>1, <2>2, <2>3 DEF BrowsersAreAccountedFor, Started
<1> QED
  BY <1>1, Invariance, PTL
=============================================================================
