------------------------------ MODULE Browser ------------------------------
(***************************************************************************)
(* The managed browser of one MCP server (mcp/src/browser): a browser with *)
(* a profile of its own for each session, the receipt that its close       *)
(* writes, and the registry that attests receipts for verification.  The   *)
(* server answers its calls concurrently: a call gives way wherever it     *)
(* waits for the browser or the disk.  The server can be told to stop, can *)
(* be killed, and is started again.                                        *)
(***************************************************************************)
EXTENDS Integers, FiniteSets, Sequences, SequencesExt

CONSTANTS
  Sessions,
  Executors,     \* the sessions registered as executors
  Operations,    \* the operations that are asked for, besides "close"
  MaxSessions,
  Calls,         \* calls of the server that are in flight at once
  Instances,     \* browsers that are launched, numbered in that order
  None, Torn,
  MaxOperations, MaxFaults \* operations asked for; failures and kills

Browsers == 1 .. Instances

ASSUME BrowserAssumption ==
  /\ Executors \subseteq Sessions
  /\ Operations \subseteq
       {"open", "snapshot", "click", "fill", "press", "upload", "check", "screenshot", "logs"}
  /\ MaxSessions \in 1 .. 8 /\ Instances \in Nat
  /\ MaxOperations \in Nat /\ MaxFaults \in Nat

ASSUME AbsenceAssumption == None \notin Browsers /\ None \notin Sessions

VARIABLES
  server,     \* "up", "stopping" once its input is closed, or "gone"
  sessions,   \* the browser of a session, by the manager
  records,    \* the browser whose receipt the registry remembers for a session
  browser,    \* the browsers, with what they leave on disk
  call,
  stopped,    \* the browsers that the stopping server waits for
  answered,   \* what a browser had done, and answered, when it was closed
  calm,       \* nothing has gone wrong, nor overlapped that should not
  operations, faults

vars == <<server, sessions, records, browser, call, stopped, answered, calm,
          operations, faults>>

INTERACTIVE == {"click", "fill", "press", "upload"}

Idle == [pc |-> "idle", session |-> None, op |-> "none", browser |-> None]

(* A browser: its profile is on disk, its process may be running.          *)
Unused == [pc |-> "unused", session |-> None, profile |-> FALSE, runs |-> FALSE,
           actions |-> <<>>, content |-> <<>>, receipt |-> None]

Init ==
  /\ server = "up"
  /\ sessions = [s \in Sessions |-> None]
  /\ records = [s \in Sessions |-> None]
  /\ browser = [b \in Browsers |-> Unused]
  /\ call = [c \in Calls |-> Idle]
  /\ stopped = {}
  /\ answered = [b \in Browsers |-> <<>>]
  /\ calm = TRUE /\ operations = 0 /\ faults = 0

Running == server # "gone"
In(b, pc) == b # None /\ browser[b].pc = pc
Launching == {c \in Calls : call[c].pc = "launch"}
Mapped == {s \in Sessions : sessions[s] # None}
Fault == faults < MaxFaults /\ faults' = faults + 1 /\ calm' = FALSE

(***************************************************************************)
(* A call waits, after it has come, for the roles' registry and for the    *)
(* browser's module to be loaded; only then is its session looked up, and  *)
(* the server may have been told to stop by then.                          *)
(***************************************************************************)
Asks(c, s, op, pc, b) == call' = [call EXCEPT ![c] = [pc |-> pc, session |-> s, op |-> op, browser |-> b]]

Arrive(c) ==
  \E s \in Sessions, op \in Operations \cup {"close"} :
    /\ server = "up" /\ call[c].pc = "idle"
    /\ IF op = "close" THEN UNCHANGED operations
       ELSE operations < MaxOperations /\ operations' = operations + 1
    /\ Asks(c, s, op, "asked", None)
    /\ UNCHANGED <<server, sessions, records, browser, stopped, answered, calm, faults>>

(***************************************************************************)
(* A command.  Interactive ones are the executor's; the session's browser  *)
(* is used if it has one, and launched if it has none and the limit allows *)
(* one more.  What the limit counts is entered after the launch.           *)
(***************************************************************************)
Permitted(s, op) == op \in INTERACTIVE => s \in Executors
BelowLimit == Cardinality(Mapped) < MaxSessions
Commands(c) == Running /\ call[c].pc = "asked" /\ call[c].op # "close" /\ Permitted(call[c].session, call[c].op)

Use(c) ==
  LET s == call[c].session IN
  /\ Commands(c) /\ sessions[s] # None
  /\ Asks(c, s, call[c].op, "work", sessions[s])
  /\ UNCHANGED <<server, sessions, records, browser, stopped, answered, calm, operations, faults>>

Create(c) ==
  LET s == call[c].session IN
  \E b \in Browsers :
    /\ Commands(c) /\ sessions[s] = None /\ BelowLimit
    /\ browser[b].pc = "unused" /\ \A a \in Browsers : a < b => browser[a].pc # "unused"
    /\ Asks(c, s, call[c].op, "launch", b)
    /\ browser' = [browser EXCEPT ![b].pc = "launching", ![b].session = s, ![b].profile = TRUE, ![b].runs = TRUE]
    /\ calm' = (calm /\ Launching = {})
    /\ UNCHANGED <<server, sessions, records, stopped, answered, operations, faults>>

(* The new browser takes its place in the map, whatever is there by now.   *)
Launched(c) ==
  LET b == call[c].browser IN
  /\ Running /\ call[c].pc = "launch"
  /\ browser' = [browser EXCEPT ![b].pc = "open"]
  /\ sessions' = [sessions EXCEPT ![call[c].session] = b]
  /\ call' = [call EXCEPT ![c].pc = "work"]
  /\ UNCHANGED <<server, records, stopped, answered, calm, operations, faults>>

(* There is no browser, or it does not start, or it starts and gives no    *)
(* page: the directories stay.                                             *)
LaunchFails(c) ==
  /\ Running /\ call[c].pc = "launch" /\ Fault
  /\ browser' = [browser EXCEPT ![call[c].browser].pc = "failed"]
  /\ call' = [call EXCEPT ![c] = Idle]
  /\ UNCHANGED <<server, sessions, records, stopped, answered, operations>>

(* The page does what it is asked to, and that is noted with its answer.   *)
(* The page is there until the browser has been closed; a screenshot is    *)
(* read from disk after it was taken.                                      *)
CanFinish(b, op) == browser[b].pc \in {"open", "closing"} \/ op = "screenshot"

(* A slip: a list that is kept short by dropping the oldest, as the logs are. *)
NotedLikeLogs(b, op) ==
  [browser EXCEPT ![b].actions = IF Len(@) = 2 THEN Append(Tail(@), op) ELSE Append(@, op)]
Noted(b, op) == [browser EXCEPT ![b].actions = Append(@, op)]

Finish(c) ==
  LET b == call[c].browser op == call[c].op IN
  /\ Running /\ call[c].pc = "work" /\ CanFinish(b, op)
  /\ browser' = Noted(b, op)
  /\ answered' = IF In(b, "open") THEN [answered EXCEPT ![b] = Append(@, op)] ELSE answered
  /\ call' = [call EXCEPT ![c] = Idle]
  /\ UNCHANGED <<server, sessions, records, stopped, calm, operations, faults>>

(* A call that is refused, or has nothing to close; a target that is not   *)
(* found, a check that fails, a page that has gone, a title that is not    *)
(* read after the click: nothing is noted of it.                           *)
Fails(c) ==
  /\ Running /\ call[c].pc \in {"asked", "work"}
  /\ call' = [call EXCEPT ![c] = Idle]
  /\ UNCHANGED <<server, sessions, records, browser, stopped, answered, calm, operations,
                 faults>>

(***************************************************************************)
(* Closing.  The session is taken out of the map first; the browser is     *)
(* closed, its receipt written, its profile removed, and the receipt read  *)
(* again for the registry.                                                 *)
(***************************************************************************)
Close(c) ==
  LET s == call[c].session IN
  /\ Running /\ call[c].pc = "asked" /\ call[c].op = "close" /\ sessions[s] # None
  /\ sessions' = [sessions EXCEPT ![s] = None]
  /\ browser' = [browser EXCEPT ![sessions[s]].pc = "closing"]
  /\ Asks(c, s, "close", "closing", sessions[s])
  /\ UNCHANGED <<server, records, stopped, answered, calm, operations, faults>>

(* What the receipt will say is settled when the write begins. *)
BrowserCloses(b) ==
  LET actions == Append(browser[b].actions, "close") IN
  /\ Running /\ In(b, "closing")
  /\ browser' = [browser EXCEPT ![b].pc = "writing", ![b].runs = FALSE, ![b].actions = actions,
                                ![b].content = actions, ![b].receipt = Torn]
  /\ UNCHANGED <<server, sessions, records, call, stopped, answered, calm, operations,
                 faults>>

ReceiptIsWritten(b) ==
  /\ Running /\ In(b, "writing")
  /\ browser' = [browser EXCEPT ![b].pc = "removing", ![b].receipt = browser[b].content]
  /\ UNCHANGED <<server, sessions, records, call, stopped, answered, calm, operations,
                 faults>>

(* The browser does not close, or the receipt cannot be written: the close *)
(* fails, and the profile is removed all the same.  A browser that did not *)
(* close may go on running, and nobody closes it again.                    *)
AfterFailureAtOnce == "closed" \* a slip: without the finally
AfterFailure == "removing"

ClosingFails(b) ==
  /\ Running /\ browser[b].pc \in {"closing", "writing"}
  /\ faults < MaxFaults /\ faults' = faults + 1
  /\ browser' = [browser EXCEPT ![b].pc = AfterFailure]
  /\ UNCHANGED <<server, sessions, records, call, stopped, answered, calm, operations>>

ProfileIsRemoved(b) ==
  /\ Running /\ In(b, "removing")
  /\ browser' = [browser EXCEPT ![b].pc = "closed", ![b].profile = FALSE]
  /\ UNCHANGED <<server, sessions, records, call, stopped, answered, calm, operations,
                 faults>>

(* The profile is still in use, say: it is kept, and the close fails.      *)
RemovalFails(b) ==
  /\ Running /\ In(b, "removing")
  /\ faults < MaxFaults /\ faults' = faults + 1
  /\ browser' = [browser EXCEPT ![b].pc = "kept"]
  /\ UNCHANGED <<server, sessions, records, call, stopped, answered, calm, operations>>

Ended(b) == In(b, "closed") \/ In(b, "kept")

(* recordClose: nothing is recorded of a close that failed. *)
Whole(b) == browser[b].receipt \notin {None, Torn}
RecordedAnyway(s, b) == [records EXCEPT ![s] = b] \* a slip
Recorded(s, b) == IF In(b, "closed") /\ Whole(b) THEN [records EXCEPT ![s] = b] ELSE records

CloseAnswers(c) ==
  LET b == call[c].browser IN
  /\ Running /\ call[c].pc = "closing" /\ Ended(b)
  /\ records' = Recorded(call[c].session, b)
  /\ call' = [call EXCEPT ![c] = Idle]
  /\ UNCHANGED <<server, sessions, browser, stopped, answered, calm, operations, faults>>

(***************************************************************************)
(* Attestation, for a verification: the receipt the registry remembers, or *)
(* every receipt on disk of a session it does not know.  An empty receipt  *)
(* fails the whole attestation; one that is cut off is passed on, for the  *)
(* daemon to refuse.                                                       *)
(***************************************************************************)
Discovered(s) == {b \in Browsers : browser[b].session = s /\ browser[b].receipt # None}

Attested(s) ==
  {<<b, browser[b].receipt>> : b \in IF records[s] # None THEN {records[s]} ELSE Discovered(s)}

(***************************************************************************)
(* The server's input ends: it closes what is in the map, waits for that,  *)
(* and exits, whatever else is in flight.  It can also be killed.          *)
(***************************************************************************)
Stop ==
  /\ server = "up" /\ server' = "stopping"
  /\ stopped' = {sessions[s] : s \in Mapped}
  /\ sessions' = [s \in Sessions |-> None]
  /\ browser' = [b \in Browsers |-> IF b \in stopped' THEN [browser[b] EXCEPT !.pc = "closing"] ELSE browser[b]]
  /\ calm' = (calm /\ \A c \in Calls : call[c].pc \in {"idle", "work"})
  /\ UNCHANGED <<records, call, answered, operations, faults>>

(* Memory is lost; the directories stay. *)
Gone ==
  /\ server' = "gone"
  /\ sessions' = [s \in Sessions |-> None] /\ records' = [s \in Sessions |-> None]
  /\ browser' = [b \in Browsers |->
       IF browser[b].pc \in {"unused", "closed", "kept"} THEN browser[b] ELSE [browser[b] EXCEPT !.pc = "left"]]
  /\ call' = [c \in Calls |-> Idle] /\ stopped' = {}
  /\ UNCHANGED <<answered, operations>>

Exit ==
  /\ server = "stopping" /\ \A b \in stopped : Ended(b)
  /\ Gone /\ UNCHANGED <<calm, faults>>

Kill == Running /\ Gone /\ Fault

Restart ==
  /\ server = "gone" /\ server' = "up"
  /\ UNCHANGED <<sessions, records, browser, call, stopped, answered, calm, operations,
                 faults>>

Next ==
  \/ \E c \in Calls :
       \/ Arrive(c) \/ Use(c) \/ Create(c) \/ Launched(c) \/ LaunchFails(c) \/ Finish(c) \/ Fails(c)
       \/ Close(c) \/ CloseAnswers(c)
  \/ \E b \in Browsers :
       \/ BrowserCloses(b) \/ ReceiptIsWritten(b) \/ ClosingFails(b)
       \/ ProfileIsRemoved(b) \/ RemovalFails(b)
  \/ Stop \/ Exit \/ Kill \/ Restart

Spec == Init /\ [][Next]_vars

(***************************************************************************)
(* Properties.                                                             *)
(***************************************************************************)
(* The map leads to browsers that are open, the registry to receipts that  *)
(* are whole, each of its own session; a call that works has a browser.    *)
TypeOK ==
  /\ server \in {"up", "stopping", "gone"} /\ stopped \subseteq Browsers
  /\ \A s \in Sessions :
       /\ sessions[s] # None => In(sessions[s], "open") /\ browser[sessions[s]].session = s
       /\ records[s] # None => In(records[s], "closed") /\ Whole(records[s]) /\ browser[records[s]].session = s
  /\ \A c \in Calls :
       /\ call[c].pc # "idle" => call[c].session \in Sessions
       /\ call[c].pc \notin {"idle", "asked"} => call[c].browser \in Browsers
  /\ operations \in 0 .. MaxOperations /\ faults \in 0 .. MaxFaults

(* "Closing a session persists a receipt: every action" (browser.md,        *)
(* Evidence; managed-browser-session.ts 127-221).  What a verification can  *)
(* be given, at any time, and can be read is the receipt of a browser that  *)
(* was closed, with all it had answered until then, in that order, and the  *)
(* close as the last of its actions, although other calls of the session go *)
(* on during the close, receipts are cut off and servers are started again. *)
(* What the browser was asked to do and did not answer, a check that failed *)
(* or a click before a title that could not be read, is in no receipt.      *)
AttestedIsComplete ==
  \A s \in Sessions : \A a \in Attested(s) :
    LET receipt == a[2] IN
    /\ receipt # None
    /\ receipt # Torn =>
         /\ Last(receipt) = "close"
         /\ IsPrefix(answered[a[1]], receipt)

(* Every browser is accounted for (browser-manager.ts 81-136), as long as   *)
(* no two are launched at once, none fails to launch, the server is not     *)
(* killed, and no call is on its way to a browser, or closing one, when the *)
(* server is told to stop.  A browser that may be running is the one its    *)
(* session leads to, one that a call is launching or closing, one that the  *)
(* stopping server waits for, or one that has been told to close and did    *)
(* not; at most MaxSessions are launched or open; and when the server has   *)
(* gone, the only profiles left are those that could not be removed.        *)
Accounted(b) ==
  \/ sessions[browser[b].session] = b
  \/ \E c \in Calls : call[c].pc \in {"launch", "closing"} /\ call[c].browser = b
  \/ b \in stopped \/ Ended(b)

BrowsersAreAccountedFor ==
  calm =>
    /\ \A b \in Browsers : browser[b].runs => Accounted(b)
    /\ Cardinality({b \in Browsers : browser[b].pc \in {"launching", "open"}}) <= MaxSessions
    /\ server = "gone" => \A b \in Browsers : browser[b].profile => In(b, "kept")
=============================================================================
