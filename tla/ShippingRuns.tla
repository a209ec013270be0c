---------------------------- MODULE ShippingRuns ----------------------------
(***************************************************************************)
(* A release run between the control plane and the daemon: the request     *)
(* that queues it, the command that starts it (as a ReleaseRun), the       *)
(* reports the daemon sends while it works, the row they are merged into,  *)
(* and the reconciliation of a refused start.                              *)
(*                                                                         *)
(* The API handles the frames of a connection concurrently: every frame is *)
(* a task of its own that waits for a database connection, so of the first *)
(* Window frames any may be applied first.  How a command reaches the      *)
(* daemon and its answer the row is DaemonCommandRouter's subject: here a  *)
(* pending command is handed over while there is a connection, and an      *)
(* answer in the daemon's cache is recorded some time later.               *)
(***************************************************************************)
EXTENDS ReleaseRun, FiniteSets, Sequences, SequencesExt

CONSTANTS
  Commands,        \* the shipping.start commands, all for one runId
  Window,          \* frames handled at once
  Failures         \* bound: how often the connection failures or the daemon dies

ASSUME WireAssumption == Window \in Nat \ {0} /\ Failures \in Nat

VARIABLES
  record,          \* the row of the run
  post,            \* the request of each command: "new", "checked", "done"
  cmd,             \* its command row: "none", "pending", "acked", "failed"
  answered,        \* the daemon's receipts: command and ok
  found,           \* the row a reconciliation has read; Unread, Closed
  connected,       \* the daemon has a connection
  wire,            \* reports the daemon has sent
  last,            \* lastDigest of runShipping
  reading,         \* what the timer's publish has loaded and not sent
  failures,        \* failures so far
  mishaps          \* history: what went wrong on the way

control == <<record, post, cmd, found>>
link == <<connected, wire, failures>>
daemon == <<answered, last, reading>>
vars == <<release, control, link, daemon, mishaps>>

\* run() threw; a report was not sent or not taken in; reports were sent or
\* taken in out of order, or a row was overwritten with an older one; the
\* daemon died; the run was queued twice.
Mishaps == {"throw", "loss", "order", "death", "again"}

-----------------------------------------------------------------------------
(* Reports and the row.                                                    *)

\* What is on disk once a run has begun.
File == [state : {"WORKING", "SHIPPED", "FAILED"}, tested : Shas \cup {0}, receipt : BOOLEAN]
Row == [state : {"NONE", "QUEUED", "WORKING", "SHIPPED", "FAILED"}, tested : Shas \cup {0},
        receipt : BOOLEAN, fatal : BOOLEAN]
NoRow == [state |-> "NONE", tested |-> 0, receipt |-> FALSE, fatal |-> FALSE]
Unread == [NoRow EXCEPT !.fatal = TRUE]
Closed == [NoRow EXCEPT !.receipt = TRUE]

\* What runShipping reports of a run that threw: no sha, and no receipt.
Failure == [Absent EXCEPT !.state = "THREW"]

\* Variant: the sha is not among what is merged.
MergedNoSha(row, report) ==
  IF report = Failure
  THEN [row EXCEPT !.state = "FAILED", !.fatal = TRUE]
  ELSE [row EXCEPT !.state = report.state, !.receipt = @ \/ report.receipt]

\* {...current, ...run}: what the report does not carry stays.
Merged(row, report) ==
  IF report = Failure
  THEN [row EXCEPT !.state = "FAILED", !.fatal = TRUE]
  ELSE [row EXCEPT !.state = report.state, !.tested = report.tested,
                   !.receipt = @ \/ report.receipt]

\* A report leaves the daemon if the connection is open, and is not repeated.
Send(reports, more) ==
  /\ wire' = IF connected THEN wire \o reports ELSE wire
  /\ mishaps' = mishaps \cup (IF reports = <<>> THEN {}
                             ELSE IF connected THEN more ELSE {"loss"})
  /\ UNCHANGED <<connected, failures>>

-----------------------------------------------------------------------------
RunsInit ==
  /\ Init
  /\ record = NoRow
  /\ post = [c \in Commands |-> "new"] /\ cmd = [c \in Commands |-> "none"]
  /\ found = [c \in Commands |-> Unread]
  /\ answered = {} /\ last = Absent /\ reading = Absent
  /\ connected = TRUE /\ wire = <<>> /\ failures = 0
  /\ mishaps = {}

(* The request.                                                            *)

\* getShippingRun must find nothing.
PostChecks(c) ==
  /\ post[c] = "new"
  /\ post' = [post EXCEPT ![c] = IF record = NoRow THEN "checked" ELSE "done"]
  /\ UNCHANGED <<release, record, cmd, found, link, daemon, mishaps>>

\* The row is inserted, or a row another request has inserted since is merged
\* with a new QUEUED one.
PostQueues(c) ==
  /\ post[c] = "checked"
  /\ post' = [post EXCEPT ![c] = "done"]
  /\ cmd' = [cmd EXCEPT ![c] = "pending"]
  /\ record' = [record EXCEPT !.state = "QUEUED", !.tested = 0]
  /\ mishaps' = IF record = NoRow THEN mishaps ELSE mishaps \cup {"again"}
  /\ UNCHANGED <<release, found, link, daemon>>

\* Both inserted at once, and this one came second: 23505.
PostConflicts(c) ==
  /\ post[c] = "checked" /\ record # NoRow
  /\ post' = [post EXCEPT ![c] = "done"]
  /\ UNCHANGED <<release, record, cmd, found, link, daemon, mishaps>>

-----------------------------------------------------------------------------
(* The daemon.                                                             *)

\* Variant: receipts are not kept.
AnsweredNever(c) == FALSE
\* The command's receipt is in the cache.
Answered(c) == \E ok \in BOOLEAN : <<c, ok>> \in answered

\* shipping.start: refused while the run is active.  That a file read of an
\* earlier execution is still under way then is left out.
Handle(c) ==
  /\ cmd[c] = "pending" /\ connected /\ ~Answered(c)
  /\ answered' = answered \cup {<<c, phase = "idle">>}
  /\ IF phase = "idle"
     THEN reading = Absent /\ Begin /\ last' = Absent
     ELSE UNCHANGED <<release, last>>
  /\ UNCHANGED <<control, link, reading, mishaps>>

Supervises ==
  /\ Works
  /\ mishaps' = IF phase' = "thrown" THEN mishaps \cup {"throw"} ELSE mishaps
  /\ UNCHANGED <<control, link, daemon>>

\* The timer's publish loads the run, 500 ms after the last: bounded to the
\* time when its earlier reports have been taken in.
Load ==
  /\ wire = <<>>
  /\ phase \notin {"idle", "closing"} /\ reading = Absent /\ file # Absent
  /\ reading' = file
  /\ UNCHANGED <<release, control, link, answered, last, mishaps>>

\* publish sends what differs from what it sent last: in the state, or, while
\* the run works, in events the model does not count.
News(r) == (IF r = last THEN {<<>>} ELSE {<<r>>}) \cup (IF r.state = "WORKING" THEN {<<r>>} ELSE {})

\* Then it sends it, perhaps long after a later report.
Publish ==
  /\ reading # Absent
  /\ \E news \in News(reading) : Send(news, IF phase = "idle" THEN {"order"} ELSE {})
  /\ last' = reading /\ reading' = Absent
  /\ UNCHANGED <<release, control, answered>>

\* run() has returned or thrown: the report of its outcome.
Outcome == IF phase = "thrown" THEN <<Failure>> ELSE <<file>>

ReportOutcome ==
  /\ Settle
  /\ Send(Outcome, {})
  /\ UNCHANGED <<control, daemon>>

\* Variant: the last publish is left out.
LastNewsNone == {<<>>}
LastNews == News(file)

\* finally: one more publish of the file.
LastPublish ==
  /\ End
  /\ \E news \in LastNews : Send(news, {})
  /\ last' = file
  /\ UNCHANGED <<control, answered, reading>>

-----------------------------------------------------------------------------
(* The connection, the API, crashes.                                       *)

\* A report is merged into the row in a transaction of its own.
Apply(i) ==
  /\ i \in 1..Len(wire) /\ i <= Window
  /\ record' = Merged(record, wire[i])
  /\ wire' = RemoveAt(wire, i)
  /\ mishaps' = IF i = 1 THEN mishaps ELSE mishaps \cup {"order"}
  /\ UNCHANGED <<release, post, cmd, found, connected, failures, daemon>>

\* What the API has not taken in is lost.
Loses(more) ==
  \E n \in 0..Len(wire) :
    /\ wire' = SubSeq(wire, 1, n)
    /\ mishaps' = mishaps \cup more \cup (IF n < Len(wire) THEN {"loss"} ELSE {})

Break ==
  /\ connected /\ failures < Failures
  /\ connected' = FALSE /\ failures' = failures + 1
  /\ Loses({})
  /\ UNCHANGED <<release, control, daemon>>

Connect ==
  /\ ~connected /\ connected' = TRUE
  /\ UNCHANGED <<release, control, wire, failures, daemon, mishaps>>

DaemonDies ==
  /\ Die
  /\ failures < Failures
  /\ connected' = FALSE /\ failures' = failures + 1
  /\ Loses({"death"})
  /\ answered' = {} /\ last' = Absent /\ reading' = Absent
  /\ UNCHANGED control

\* The answer reaches the command's row; a failed one is to be reconciled.
Acknowledge(c) ==
  /\ cmd[c] = "pending" /\ connected
  /\ \E ok \in BOOLEAN :
       /\ <<c, ok>> \in answered
       /\ cmd' = [cmd EXCEPT ![c] = IF ok THEN "acked" ELSE "failed"]
  /\ UNCHANGED <<release, record, post, found, link, daemon, mishaps>>

\* Variant: the state of a run nobody has sent to the daemon.
ReconcilableCreated(row) == row.state = "CREATED"
Reconcilable(row) == row.state = "QUEUED"

ReconcileReads(c) ==
  /\ cmd[c] = "failed" /\ found[c] = Unread
  /\ found' = [found EXCEPT ![c] = IF Reconcilable(record) THEN record ELSE Closed]
  /\ UNCHANGED <<release, record, post, cmd, link, daemon, mishaps>>

\* {...run, state: "FAILED"}: all of what was read goes back.
ReconcileWrites(c) ==
  /\ found[c] \notin {Unread, Closed}
  /\ record' = [found[c] EXCEPT !.state = "FAILED", !.fatal = TRUE,
                                !.receipt = @ \/ record.receipt]
  /\ found' = [found EXCEPT ![c] = Closed]
  /\ mishaps' = IF record = found[c] THEN mishaps ELSE mishaps \cup {"order"}
  /\ UNCHANGED <<release, post, cmd, link, daemon>>

RunsNext ==
  \/ \E c \in Commands :
       \/ PostChecks(c) \/ PostQueues(c) \/ PostConflicts(c)
       \/ Handle(c) \/ Acknowledge(c) \/ ReconcileReads(c) \/ ReconcileWrites(c)
  \/ Supervises \/ Load \/ Publish \/ ReportOutcome \/ LastPublish
  \/ (\E i \in 1..Window : Apply(i)) \/ Break \/ Connect \/ DaemonDies

\* A run gets on (ShippingSupervisor: RepairsAreBounded), promises are resolved, frames
\* are handled, the daemon reconnects, the router redelivers.
RunsFairness ==
  /\ WF_vars(Supervises /\ phase' # phase) /\ WF_vars(Publish) /\ WF_vars(ReportOutcome) /\ WF_vars(LastPublish)
  /\ WF_vars(Apply(1)) /\ WF_vars(Connect)
  /\ \A c \in Commands : /\ WF_vars(Handle(c)) /\ WF_vars(Acknowledge(c))
                         /\ WF_vars(ReconcileReads(c)) /\ WF_vars(ReconcileWrites(c))

RunsSpec == RunsInit /\ [][RunsNext]_vars /\ RunsFairness

-----------------------------------------------------------------------------
(* Properties.                                                             *)

\* Rows, reports and requests are well formed.
TypeOK ==
  /\ phase \in {"idle", "working", "shipped", "returned", "thrown", "closing"}
  /\ {file, last, reading} \subseteq File \cup {Absent} /\ wire \in Seq(File \cup {Failure})
  /\ shipped \subseteq Shas
  /\ record \in Row
  /\ post \in [Commands -> {"new", "checked", "done"}]
  /\ cmd \in [Commands -> {"none", "pending", "acked", "failed"}]
  /\ answered \subseteq Commands \X BOOLEAN
  /\ found \in [Commands -> Row]
  /\ connected \in BOOLEAN /\ failures \in 0..Failures
  /\ mishaps \subseteq Mishaps

\* SHIPPING_CONSOLE.md shows a run as shipped from its row: the row says
\* SHIPPED only with the sha of a tree some execution of the run shipped,
\* whatever was reordered, lost, queued again or thrown.
ShownShippedWasShipped == record.state = "SHIPPED" => record.tested \in shipped

Quiet ==
  /\ phase = "idle" /\ wire = <<>> /\ reading = Absent
  /\ \A c \in Commands : cmd[c] # "pending" /\ (cmd[c] = "failed" => found[c] = Closed)

\* When everything has come to rest the row shows what the file says, sha and
\* receipt included, or the failure that was reported in its place; nothing
\* else may differ unless something went wrong on the way.
EndIsShown ==
  Quiet /\ file # Absent =>
    \/ record = [state |-> file.state, tested |-> file.tested, receipt |-> file.receipt,
                 fatal |-> record.fatal]
    \/ record.state = "FAILED" /\ record.fatal /\ "throw" \in mishaps
    \/ mishaps \cap (Mishaps \ {"throw"}) # {}

\* A run is started over its earlier file only if it was queued twice, or the
\* daemon died before its answer was recorded.
RunIsStartedOnce ==
  [][Begin /\ file # Absent => mishaps \cap {"again", "death"} # {}]_vars

\* A queued run does not stay queued, unless a report or a daemon was lost.
QueuedRunsMoveOn ==
  record.state = "QUEUED" ~> record.state # "QUEUED" \/ mishaps \cap {"loss", "death"} # {}

-----------------------------------------------------------------------------
(* The invariant that makes these inductive.                               *)

\* The file follows the run; a throw is noted.
FileFollowsPhase ==
  /\ phase # "idle" => file # Absent
  /\ phase = "working" => file.state = "WORKING"
  /\ phase = "shipped" => file.state = "SHIPPED"
  /\ phase = "thrown" => "throw" \in mishaps

\* No report claims a tree that was not shipped.
Genuine(r) == r.state = "SHIPPED" => r.tested \in shipped
ReportsAreGenuine == Genuine(file) /\ Genuine(reading) /\ \A i \in DOMAIN wire : Genuine(wire[i])

\* A command is there only with its row, an answer only with its command.
CommandsHaveRows ==
  \A c \in Commands :
    /\ cmd[c] # "none" => record # NoRow
    /\ Answered(c) => cmd[c] # "none"
    /\ found[c] \in {Unread, Closed} \/ found[c].state = "QUEUED"

\* The only command was answered, with ok, if there is a file.
OneStart ==
  mishaps \cap {"again", "death"} = {} =>
    /\ \A c, d \in Commands : cmd[c] # "none" /\ cmd[d] # "none" => c = d
    /\ file # Absent => \E c \in Commands : Answered(c)
    /\ \A c \in Commands : <<c, FALSE>> \notin answered /\ cmd[c] # "failed" /\ found[c] = Unread

\* What the row will show when the reports on their way are taken in.
Shows(r) ==
  IF wire # <<>> THEN Last(wire) = r
  ELSE record.state = r.state /\ record.tested = r.tested /\ (r.receipt => record.receipt)

ShowsFailure ==
  IF wire # <<>> THEN Last(wire) = Failure ELSE record.state = "FAILED" /\ record.fatal

\* If nothing but a throw went wrong, the newest report is the one remembered
\* as sent, and after the run it is the file's or the failure; no receipt is
\* reported that is not on disk.
NewestIsShown ==
  mishaps \subseteq {"throw"} =>
    /\ record.receipt \/ reading.receipt \/ (\E i \in DOMAIN wire : wire[i].receipt) => file.receipt
    /\ phase \notin {"closing", "idle"} /\ last # Absent => Shows(last)
    /\ \/ phase = "closing" /\ last = file
       \/ phase = "idle" /\ file # Absent
       => Shows(file) \/ (ShowsFailure /\ "throw" \in mishaps)

IInv == /\ TypeOK /\ ShownShippedWasShipped /\ FileFollowsPhase /\ ReportsAreGenuine
        /\ CommandsHaveRows /\ OneStart /\ NewestIsShown
=============================================================================
