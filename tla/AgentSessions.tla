--------------------------- MODULE AgentSessions ---------------------------
(***************************************************************************)
(* One agent session from its creation to its last stored event: the       *)
(* session and verification routes of the control API, the command chain   *)
(* and the agent adapters of the daemon, the frames it sends, and the      *)
(* concurrent handlers that write them to the session and verification     *)
(* rows.                                                                   *)
(*                                                                         *)
(* The daemon emits events in order; a frame is lost when it is sent while *)
(* the socket is down.  The API starts an async handler per frame and does *)
(* not wait for it, so the transactions of two frames commit in any order. *)
(* Delivery of commands is module DaemonCommandRouter's business: here the *)
(* daemon takes them from a queue, one after another.                      *)
(***************************************************************************)
EXTENDS Integers, Sequences, FiniteSets, SequencesExt

CONSTANTS
    Adapters,       \* the agents to choose from
    Cases,          \* test cases of the capability to verify
    Threshold,      \* cases that must pass (qualityThreshold)
    MaxCommands,    \* bound: follow-up messages and interrupts
    MaxErrors,      \* bound: errors a CLI prints that do not end its turn
    MaxTasks,       \* bound: frames handled at once
    MaxFaults       \* bound: lost frames, failed statements, restarts

ASSUME SessionsAssumption ==
    /\ Adapters \subseteq {"codex", "claude-code", "opencode", "cursor"}
    /\ Cases \in Nat /\ MaxCommands \in Nat /\ MaxErrors \in Nat /\ MaxFaults \in Nat

VARIABLES
    agent,      \* the adapter of the session, "verify" for a verification
    session,    \* session row: [status, events], or Absent
    run,        \* verification row: [status, receipt], or Absent
    queue,      \* commands the daemon has not taken yet
    turn,       \* the adapter's child process, or NoTurn
    emitted,    \* frames emitted so far: [kind, by, sent]
    received,   \* how many of them the API has received
    tasks,      \* handlers of received frames
    refused,    \* refused commands and the step of their reconciliation
    commands,   \* follow-up commands created so far
    faults

vars == <<agent, session, run, queue, turn, emitted, received, tasks, refused, commands, faults>>

Absent == [status |-> "absent", events |-> <<>>, receipt |-> "none"]
NoTurn == [phase |-> "none"]

Init ==
    /\ agent \in Adapters \cup {"verify"}
    /\ session = Absent /\ run = Absent
    /\ queue = <<>> /\ turn = NoTurn
    /\ emitted = <<>> /\ received = 0 /\ tasks = {}
    /\ refused = {} /\ commands = 0 /\ faults = 0

Fault == faults < MaxFaults /\ faults' = faults + 1

(***************************************************************************)
(* Requests: row, verification row and command are one transaction.        *)
(***************************************************************************)
CreateSession ==
    /\ session = Absent /\ agent # "verify"
    /\ session' = [Absent EXCEPT !.status = "queued"]
    /\ queue' = <<[action |-> "start", id |-> 0]>>
    /\ UNCHANGED <<agent, run, turn, emitted, received, tasks, refused, commands, faults>>

CreateVerification ==
    /\ session = Absent /\ agent = "verify"
    /\ session' = [Absent EXCEPT !.status = "queued"]
    /\ run' = [Absent EXCEPT !.status = "queued"]
    /\ queue' = <<[action |-> "start", id |-> 0]>>
    /\ UNCHANGED <<agent, turn, emitted, received, tasks, refused, commands, faults>>

\* A message, or an interrupt of the session or of its verification.  The
\* ids of commands are 0 (the start) and below, those of frames above 0.
Request(action) ==
    /\ session # Absent /\ commands < MaxCommands
    /\ commands' = commands + 1
    /\ queue' = Append(queue, [action |-> action, id |-> -commands'])
    /\ UNCHANGED <<agent, session, run, turn, emitted, received, tasks, refused, faults>>

(***************************************************************************)
(* The daemon: one command at a time, and the adapter's turn.              *)
(***************************************************************************)
Frames(kinds, by) == [i \in DOMAIN kinds |-> [kind |-> kinds[i], by |-> by, sent |-> TRUE]]
Emit(kinds, by) == emitted' = emitted \o Frames(kinds, by)
Takes(action) == queue # <<>> /\ Head(queue).action = action /\ queue' = Tail(queue)

\* fail(): what the daemon emits when adapter.run rejects.
Failure == <<"error", "failed">>

NewTurn == [phase |-> "live", terminal |-> FALSE, errors |-> 0, left |-> Cases, passed |-> 0]

\* `children` holds a child of this session until its exit.
Busy == turn # NoTurn

\* run() throws before it emits anything: always when busy, and when a harness
\* is missing, its arguments are malformed or the payload is none.
Throws == Emit(Failure, "command") /\ UNCHANGED turn

RunAdapter == Throws \/ (~Busy /\ Emit(<<"running">>, "turn") /\ turn' = NewTurn)

Start ==
    /\ Takes("start")
    /\ RunAdapter
    /\ UNCHANGED <<agent, session, run, received, tasks, refused, commands, faults>>

\* The agent is not available, or the session cannot be fetched: a negative
\* acknowledgement.
Refuse ==
    /\ queue # <<>> /\ queue' = Tail(queue)
    /\ refused' = refused \cup {[id |-> Head(queue).id, step |-> "event"]}
    /\ UNCHANGED <<agent, session, run, turn, emitted, received, tasks, commands, faults>>

\* A verification's prompt must be its JSON payload; a message is none.
Message ==
    /\ Takes("message")
    /\ IF agent = "verify" THEN Throws ELSE RunAdapter
    /\ UNCHANGED <<agent, session, run, received, tasks, refused, commands, faults>>

\* The child is signalled, and "interrupted" is emitted without waiting for
\* it: it may still print and exit as it likes.
Interrupt ==
    /\ Takes("interrupt")
    /\ Emit(<<"interrupted">>, "command")
    /\ UNCHANGED <<agent, session, run, turn, received, tasks, refused, commands, faults>>

\* What one line of a CLI's output is translated to.  A line with a status
\* is its last one that matters: a CLI runs one turn and then exits.
CodexLines == {<<"error">>, <<"completed">>, <<"error", "failed">>}
ClaudeLines == {<<"error">>, <<"completed">>, <<"error", "failed">>}
OpenCodeLines == {<<"error">>, <<"completed">>}
CursorLines == {<<"error">>, <<"completed">>, <<"error", "failed">>}
Lines ==
    CASE agent = "codex" -> CodexLines [] agent = "claude-code" -> ClaudeLines
      [] agent = "opencode" -> OpenCodeLines [] agent = "cursor" -> CursorLines
      [] agent = "verify" -> {}

Line(kinds) ==
    /\ turn # NoTurn /\ ~turn.terminal /\ kinds \in Lines
    /\ kinds = <<"error">> => turn.errors < MaxErrors
    /\ turn' = [turn EXCEPT !.errors = @ + (IF Head(kinds) = "error" THEN 1 ELSE 0),
                            !.terminal = Last(kinds) # "error"]
    /\ Emit(kinds, "turn")
    /\ UNCHANGED <<agent, session, run, queue, received, tasks, refused, commands, faults>>

\* The exit of the child ends the turn; without a terminal line its code
\* decides.  A child that cannot be started ends like one that fails.
CodexEnd(ok, errors) == IF ok THEN <<"completed">> ELSE <<"error", "failed">>
ClaudeEnd(ok, errors) == IF ok THEN <<"completed">> ELSE <<"error", "failed">>
OpenCodeEnd(ok, errors) ==
    IF ok THEN <<IF errors = 0 THEN "completed" ELSE "failed">> ELSE <<"error", "failed">>
CursorEnd(ok, errors) ==
    IF ok THEN <<IF errors = 0 THEN "completed" ELSE "failed">> ELSE <<"error", "failed">>

\* Variant: only a clean exit is reported.
EndClean(ok) == IF ok /\ ~turn.terminal THEN CodexEnd(ok, turn.errors) ELSE <<>>

End(ok) ==
    IF turn.terminal THEN <<>>
    ELSE CASE agent = "codex" -> CodexEnd(ok, turn.errors)
           [] agent = "claude-code" -> ClaudeEnd(ok, turn.errors)
           [] agent = "opencode" -> OpenCodeEnd(ok, turn.errors)
           [] agent = "cursor" -> CursorEnd(ok, turn.errors)

Exit(ok) ==
    /\ turn # NoTurn /\ agent # "verify"
    /\ Emit(End(ok), "turn")
    /\ turn' = NoTurn
    /\ UNCHANGED <<agent, session, run, queue, received, tasks, refused, commands, faults>>

\* A verification runs its test cases one after another; one whose child an
\* interrupt kills passes if it was complete, and the loop goes on.
VerifyCase(passes) ==
    /\ turn # NoTurn /\ agent = "verify" /\ turn.left > 0
    /\ turn' = [turn EXCEPT !.left = @ - 1, !.passed = @ + (IF passes THEN 1 ELSE 0)]
    /\ UNCHANGED <<agent, session, run, queue, emitted, received, tasks, refused, commands, faults>>

Verdict(passed) == IF passed >= Threshold THEN <<"passed", "completed">> ELSE <<"not passed", "failed">>

EndVerification ==
    /\ turn # NoTurn /\ agent = "verify" /\ turn.left = 0
    /\ Emit(Verdict(turn.passed), "turn")
    /\ turn' = NoTurn
    /\ UNCHANGED <<agent, session, run, queue, received, tasks, refused, commands, faults>>

\* The capability cannot be compiled, installed or rolled back.
VerificationThrows ==
    /\ turn # NoTurn /\ agent = "verify"
    /\ Emit(Failure, "turn")
    /\ turn' = NoTurn
    /\ UNCHANGED <<agent, session, run, queue, received, tasks, refused, commands, faults>>

\* The last frame was sent while the socket was down.
LoseFrame ==
    /\ received < Len(emitted) /\ emitted[Len(emitted)].sent /\ Fault
    /\ emitted' = [emitted EXCEPT ![Len(emitted)].sent = FALSE]
    /\ UNCHANGED <<agent, session, run, queue, turn, received, tasks, refused, commands>>

\* The daemon dies, and its child with it; nobody reports the end.
Crash ==
    /\ turn # NoTurn /\ Fault
    /\ turn' = NoTurn
    /\ UNCHANGED <<agent, session, run, queue, emitted, received, tasks, refused, commands>>

(***************************************************************************)
(* The control API: one handler per frame.                                 *)
(***************************************************************************)
Receive ==
    /\ received < Len(emitted) /\ Cardinality(tasks) < MaxTasks
    /\ received' = received + 1
    /\ tasks' = IF emitted[received'].sent
                THEN tasks \cup {[id |-> received', step |-> "read", seen |-> Absent]} ELSE tasks
    /\ UNCHANGED <<agent, session, run, queue, turn, emitted, refused, commands, faults>>

Statuses == {"running", "completed", "failed", "interrupted"}
Kind(id) == emitted[id].kind
WithEvent(s, id, kind) ==
    [s EXCEPT !.events = Append(@, id), !.status = IF kind \in Statuses THEN kind ELSE @]

\* Variant: the row is read without FOR UPDATE.
RowLockedNever == FALSE

\* addEvent reads the row FOR UPDATE, changes the copy and writes it back.
RowLocked == \E t \in tasks : t.step = "write"

Move(t, step, seen) == tasks' = (tasks \ {t}) \cup {[t EXCEPT !.step = step, !.seen = seen]}

ReadSession(t) ==
    /\ t.step = "read" /\ ~RowLocked
    /\ Move(t, "write", session)
    /\ UNCHANGED <<agent, session, run, queue, turn, emitted, received, refused, commands, faults>>

WriteSession(t) ==
    /\ t.step = "write"
    /\ session' = WithEvent(t.seen, t.id, Kind(t.id))
    /\ Move(t, "verify", Absent)
    /\ UNCHANGED <<agent, run, queue, turn, emitted, received, refused, commands, faults>>

\* Variant: a completed turn completes the verification.
AppliedTrusting(r, kind) ==
    CASE kind \in {"passed", "not passed"} ->
           [r EXCEPT !.receipt = kind, !.status = IF kind = "passed" THEN "complete" ELSE "failed"]
      [] kind = "running" /\ r.status = "queued" -> [r EXCEPT !.status = "running"]
      [] kind \in {"failed", "interrupted"} -> [r EXCEPT !.status = kind]
      [] kind = "completed" -> [r EXCEPT !.status = "complete"]
      [] kind = "error" -> [r EXCEPT !.status = "failed"]
      [] OTHER -> r

\* Variant: a late "running" or "completed" puts the run back.
AppliedInOrder(r, kind) ==
    CASE kind \in {"passed", "not passed"} ->
           [r EXCEPT !.receipt = kind, !.status = IF kind = "passed" THEN "complete" ELSE "failed"]
      [] kind = "running" -> [r EXCEPT !.status = "running"]
      [] kind \in {"failed", "interrupted"} -> [r EXCEPT !.status = kind]
      [] kind = "completed" -> [r EXCEPT !.status = "verifying"]
      [] kind = "error" -> [r EXCEPT !.status = "failed"]
      [] OTHER -> r

\* Variant: only a running verification fails.
AppliedToRunning(r, kind) ==
    CASE kind \in {"passed", "not passed"} ->
           [r EXCEPT !.receipt = kind, !.status = IF kind = "passed" THEN "complete" ELSE "failed"]
      [] kind = "running" /\ r.status = "queued" -> [r EXCEPT !.status = "running"]
      [] kind \in {"failed", "interrupted"} /\ r.status # "queued" -> [r EXCEPT !.status = kind]
      [] kind = "completed" /\ r.receipt = "none" -> [r EXCEPT !.status = "verifying"]
      [] OTHER -> r

Applied(r, kind) ==
    CASE kind \in {"passed", "not passed"} ->
           [r EXCEPT !.receipt = kind, !.status = IF kind = "passed" THEN "complete" ELSE "failed"]
      [] kind = "running" /\ r.status = "queued" -> [r EXCEPT !.status = "running"]
      [] kind \in {"failed", "interrupted"} -> [r EXCEPT !.status = kind]
      [] kind = "completed" /\ r.receipt = "none" -> [r EXCEPT !.status = "verifying"]
      [] kind = "error" -> [r EXCEPT !.status = "failed"]
      [] OTHER -> r

UpdateVerification(t) ==
    /\ t.step = "verify"
    /\ run' = IF run = Absent THEN run ELSE Applied(run, Kind(t.id))
    /\ tasks' = tasks \ {t}
    /\ UNCHANGED <<agent, session, queue, turn, emitted, received, refused, commands, faults>>

\* A query fails: the rest of the handler is skipped, with a warning.
HandlerFails(t) ==
    /\ Fault
    /\ tasks' = tasks \ {t}
    /\ UNCHANGED <<agent, session, run, queue, turn, emitted, received, refused, commands>>

\* The failure event of a command carries the command's id.
Stored(id) == id \in ToSet(session.events)

Advance(r, step) == refused' = (refused \ {r}) \cup {[r EXCEPT !.step = step]}

\* onAcknowledged: a refused start fails the session, also when the event is
\* there already; a refused message or interrupt leaves an error event.
ReconcileSession(r) ==
    /\ r.step = "event" /\ ~RowLocked
    /\ LET kind == IF r.id = 0 THEN "failed" ELSE "error" IN
       session' = IF ~Stored(r.id) THEN WithEvent(session, r.id, kind)
                  ELSE IF r.id = 0 THEN [session EXCEPT !.status = "failed"] ELSE session
    /\ Advance(r, IF r.id = 0 THEN "verify" ELSE "done")
    /\ UNCHANGED <<agent, run, queue, turn, emitted, received, tasks, commands, faults>>

ReconcileVerification(r) ==
    /\ r.step = "verify"
    /\ run' = IF run = Absent THEN run ELSE Applied(run, "failed")
    /\ Advance(r, "done")
    /\ UNCHANGED <<agent, session, queue, turn, emitted, received, tasks, commands, faults>>

\* The process that reconciles dies, or its query fails; another starts over.
ReconcileAgain(r) ==
    /\ r.step # "event" /\ Fault
    /\ Advance(r, "event")
    /\ UNCHANGED <<agent, session, run, queue, turn, emitted, received, tasks, commands>>

-----------------------------------------------------------------------------
Daemon ==
    \/ Start \/ Refuse \/ Message \/ Interrupt
    \/ \E ok \in BOOLEAN : Exit(ok) \/ VerifyCase(ok)
    \/ EndVerification \/ VerificationThrows

Api ==
    \/ Receive
    \/ \E r \in refused : ReconcileSession(r) \/ ReconcileVerification(r)
    \/ \E t \in tasks : ReadSession(t) \/ WriteSession(t) \/ UpdateVerification(t)

Faulty ==
    \/ LoseFrame \/ Crash
    \/ \E r \in refused : ReconcileAgain(r)
    \/ \E t \in tasks : HandlerFails(t)

Next ==
    \/ CreateSession \/ CreateVerification
    \/ \E action \in {"message", "interrupt"} : Request(action)
    \/ \E kinds \in Lines : Line(kinds)
    \/ Daemon \/ Api \/ Faulty

Spec == Init /\ [][Next]_vars

\* The daemon takes its commands and its children exit; handlers go on.
FairSpec == Spec /\ WF_vars(Daemon) /\ WF_vars(Api)

-----------------------------------------------------------------------------
(***************************************************************************)
(* What must hold.                                                         *)
(***************************************************************************)
\* Every variable keeps its shape; ids of stored events were emitted.
TypeOK ==
    /\ session.status \in Statuses \cup {"absent", "queued"}
    /\ run.status \in {"absent", "queued", "running", "verifying", "complete", "failed", "interrupted"}
    /\ run.receipt \in {"none", "passed", "not passed"}
    /\ run = Absent <=> (agent # "verify" \/ session = Absent)
    /\ ToSet(session.events) \subseteq (-commands)..received
    /\ received \in 0..Len(emitted)
    /\ turn # NoTurn => turn.passed + turn.left <= Cases
    /\ commands \in 0..MaxCommands /\ faults \in 0..MaxFaults

Count(Test(_)) == Cardinality({i \in DOMAIN emitted : emitted[i].by = "turn" /\ Test(emitted[i].kind)})
Ends == Count(LAMBDA kind : kind \in {"completed", "failed"})
Begins == Count(LAMBDA kind : kind = "running")

\* Every turn that said "running" says one final status and no second one,
\* whether the CLI printed its result, died without one or was killed, and
\* whether another message arrived meanwhile; only a crash swallows it.
TurnsEndOnce ==
    /\ Ends + (IF turn # NoTurn /\ ~turn.terminal THEN 1 ELSE 0) <= Begins
    /\ faults = 0 => Ends + (IF turn # NoTurn /\ ~turn.terminal THEN 1 ELSE 0) = Begins

\* The transactions of concurrent handlers lose no event of each other, and
\* no event, that of a reconciliation tried again included, is stored twice.
EventsAreStoredOnce ==
    /\ IsInjective(session.events)
    /\ \A t \in tasks : t.step = "verify" => t.id \in ToSet(session.events)
    /\ faults = 0 => \A i \in 1..received :
         i \in ToSet(session.events) \/ \E t \in tasks : t.id = i

Quiet ==
    /\ session # Absent /\ queue = <<>> /\ turn = NoTurn /\ tasks = {}
    /\ received = Len(emitted) /\ \A r \in refused : r.step = "done"

InOrder ==
    \A i, j \in DOMAIN session.events :
      (i < j /\ session.events[j] >= 0) => session.events[i] < session.events[j]
LastStatus == SelectLastInSeq(emitted, LAMBDA e : e.kind \in Statuses)

\* When everything is handled and no transaction overtook an earlier one, the
\* session shows the last status the daemon emitted, and it is a final one.
QuietSessionsHaveEnded ==
    (Quiet /\ InOrder /\ faults = 0 /\ LastStatus > 0) =>
      /\ session.status = Kind(LastStatus)
      /\ session.status # "running"

\* A verification is complete only with a receipt that says passed.
CompleteMeansPassed == run.status = "complete" => run.receipt = "passed"

\* In whatever order its frames are applied, a verification that nobody
\* interrupted, messaged or refused ends with the verdict of its receipt.
VerdictIsReceipts ==
    (Quiet /\ faults = 0 /\ commands = 0 /\ run.receipt # "none") =>
      run.status = (IF run.receipt = "passed" THEN "complete" ELSE "failed")

\* All of these together.
Inv == /\ TypeOK /\ TurnsEndOnce /\ EventsAreStoredOnce
       /\ QuietSessionsHaveEnded /\ CompleteMeansPassed /\ VerdictIsReceipts

(* What these need to be inductive.                                        *)
\* What the variables hold.
FrameKinds == Statuses \cup {"error", "passed", "not passed"}
SessionRows == [status : Statuses \cup {"absent", "queued"}, events : Seq(Int), receipt : {"none"}]
RunRows ==
    [status : {"absent", "queued", "running", "verifying", "complete", "failed", "interrupted"},
     events : {<<>>}, receipt : {"none", "passed", "not passed"}]
Turns == [phase : {"live"}, terminal : BOOLEAN, errors : Nat, left : Nat, passed : Nat]
Shape ==
    /\ agent \in Adapters \cup {"verify"}
    /\ session \in SessionRows /\ run \in RunRows
    /\ queue \in Seq([action : {"start", "message", "interrupt"}, id : Int])
    /\ turn \in Turns \cup {NoTurn}
    /\ emitted \in Seq([kind : FrameKinds, by : {"turn", "command"}, sent : BOOLEAN])
    /\ tasks \subseteq [id : 1..received, step : {"read", "write", "verify"}, seen : SessionRows]
    /\ refused \subseteq [id : (-commands)..0, step : {"event", "verify", "done"}]

\* Without a session there is nothing else; rows do not disappear.
NothingBeforeTheSession ==
    /\ session.status = "absent" =>
         /\ session = Absent /\ queue = <<>> /\ turn = NoTurn /\ emitted = <<>>
         /\ refused = {} /\ commands = 0
    /\ run.status = "absent" => run = Absent

\* A command is queued or refused, and its failure event stored for it only.
CommandsHaveOneId ==
    /\ \A i \in DOMAIN queue : queue[i].id \in (-commands)..0
    /\ \A i, k \in DOMAIN queue : queue[i].id = queue[k].id => i = k
    /\ \A r \in refused, i \in DOMAIN queue : queue[i].id # r.id
    /\ \A r, q \in refused : r.id = q.id => r = q
    /\ \A i \in DOMAIN session.events :
         session.events[i] <= 0 => \E r \in refused : r.id = session.events[i]

\* One handler per frame; the one that has read the row alone may change it,
\* and has the present row.
HandlersHoldTheRow ==
    /\ \A t, u \in tasks : t.id = u.id \/ (t.step = "write" /\ u.step = "write") => t = u
    /\ \A t \in tasks : t.step = "write" => t.seen = session
    /\ \A t \in tasks : t.step # "verify" => t.id \notin ToSet(session.events)

\* Without a fault every frame is sent, and a refused command whose event is
\* to be stored is reconciled for the first time.
FaultlessDelivery ==
    faults = 0 => /\ \A i \in DOMAIN emitted : emitted[i].sent
                  /\ \A r \in refused : r.step = "event" => ~Stored(r.id)

\* Without a fault the session shows the last status among its events.
StatusOf(id) == IF id > 0 THEN Kind(id) ELSE IF id = 0 THEN "failed" ELSE "error"
ShowsLastStatus ==
    (faults = 0 /\ session.status # "absent") =>
      \/ /\ session.status = "queued"
         /\ \A i \in DOMAIN session.events : StatusOf(session.events[i]) \notin Statuses
      \/ \E i \in DOMAIN session.events :
           /\ session.status = StatusOf(session.events[i])
           /\ \A k \in DOMAIN session.events :
                k > i => StatusOf(session.events[k]) \notin Statuses

\* Without a fault a turn that is over has said so after every "running".
FinalStatusFollows ==
    (faults = 0 /\ (turn = NoTurn \/ turn.terminal)) =>
      \A i \in DOMAIN emitted : emitted[i].kind = "running" =>
        \E k \in DOMAIN emitted : k > i /\ emitted[k].kind \in Statuses \ {"running"}

\* A verification that got no other command runs once or is refused, and says
\* one verdict or that it failed.
Verdicts == {{"running", "passed", "completed"}, {"running", "not passed", "failed"}, {"running", "error", "failed"}}
OneVerdict ==
    (agent = "verify" /\ commands = 0) =>
      /\ queue # <<>> =>
           /\ Len(queue) = 1 /\ queue[1].action = "start"
           /\ emitted = <<>> /\ turn = NoTurn /\ refused = {}
      /\ turn # NoTurn => refused = {} /\ \A i \in DOMAIN emitted : emitted[i].kind = "running"
      /\ refused # {} => emitted = <<>>
      /\ \E kinds \in Verdicts : \A i \in DOMAIN emitted : emitted[i].kind \in kinds

\* A receipt was emitted; the verdict in the row is that of the receipt from
\* then on, also before everything is handled.
ReceiptsAreVerdicts ==
    /\ agent = "verify" /\ turn # NoTurn => ~turn.terminal
    /\ run.receipt # "none" =>
         /\ \E i \in DOMAIN emitted : emitted[i].kind = run.receipt
         /\ commands = 0 => run.status = (IF run.receipt = "passed" THEN "complete" ELSE "failed")

IInv == /\ Inv /\ Shape /\ NothingBeforeTheSession /\ CommandsHaveOneId /\ HandlersHoldTheRow
        /\ FaultlessDelivery /\ ShowsLastStatus /\ FinalStatusFollows /\ OneVerdict /\ ReceiptsAreVerdicts

\* A verification ends: without a fault it is complete, failed or interrupted
\* again and again, also when its session is left "running" by a frame that
\* was applied too late.
VerificationsEnd ==
    [](run # Absent => <>(faults > 0 \/ run.status \in {"complete", "failed", "interrupted"}))

\* A refused start is shown as failed by the session and its verification,
\* however often the reconciliation is tried.
RefusedStartsFail ==
    ([id |-> 0, step |-> "event"] \in refused) ~>
      (session.status = "failed" /\ run.status \in {"absent", "failed"}) \/ commands > 0

=============================================================================
