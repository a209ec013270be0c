------------------------ MODULE DaemonCommandRouter ------------------------
(***************************************************************************)
(* The durable command queue of the control plane: the table               *)
(* agent_work_os_daemon_commands_v1 and the API processes that poll it     *)
(* (PostgresDaemonCommandRouter).  Every statement the router sends to     *)
(* PostgreSQL is one action, because between two of them any other process *)
(* may run; so are the callback that writes a failure to its resource and  *)
(* each frame written to a machine's socket.                               *)
(*                                                                         *)
(* Time is abstract: a lease is "live" until LeaseLapses, and a process    *)
(* may be slower than any lease.  A process that dies does not come back:  *)
(* a restarted one draws a new instanceId, which is another member of      *)
(* Instances.                                                              *)
(***************************************************************************)
EXTENDS Integers, FiniteSets

CONSTANTS
  Commands,        \* command ids
  Machines,        \* machine ids
  Instances,       \* instanceIds of API processes of this version
  MachineOf,       \* the machine each command is addressed to
  BatchLimit,      \* rows one transaction claims (LIMIT 50)
  RollingUpgrade,  \* TRUE: a process of the previous version runs too
  OldProcess,      \* the instanceId of that process
  Faults,          \* how many faults may occur, or Unlimited
  Unlimited,
  None             \* NULL

ASSUME CommandsAssumption == IsFiniteSet(Commands)
ASSUME MachineOfAssumption == MachineOf \in [Commands -> Machines]
ASSUME BatchLimitAssumption == BatchLimit \in Nat \ {0}
ASSUME RollingUpgradeAssumption == RollingUpgrade \in BOOLEAN
ASSUME InstancesAssumption ==
  None \notin Instances /\ OldProcess \notin Instances /\ OldProcess # None
ASSUME FaultsAssumption == Faults \in Nat \/ Faults = Unlimited

VARIABLES
  row,        \* the command table
  createdAt,  \* created_at, as a rank: 0 before the row exists
  process,    \* "up", "closing", "released", "closed" or "down"
  peer,       \* daemonSockets of a process: "none", "open", or "stale" when
              \* the daemon has gone and the process has not seen it yet
  poll,       \* the poll of a process: its phase, the machineIds read when it
              \* began (roster), and the claimed rows it still has to handle
  delivered,  \* commands whose frame a daemon has received
  noted,      \* commands whose failure is written to its session or run
  faultsLeft  \* faults still to come

hosts == <<process, peer>>
vars == <<row, createdAt, hosts, poll, delivered, noted, faultsLeft>>

-----------------------------------------------------------------------------
(* The table.                                                              *)

RowStatus   == {"absent", "pending", "dispatching", "acked", "failed"}
LeaseStatus == {"none", "live", "lapsed"}
ReconStatus == {"pending", "processing", "complete"}
Owners      == Instances \cup {OldProcess, None}

Row == [status : RowStatus, owner : Owners, lease : LeaseStatus,
        recon : ReconStatus, reconOwner : Owners, reconLease : LeaseStatus]

AbsentRow == [status |-> "absent", owner |-> None, lease |-> "none",
              recon |-> "complete", reconOwner |-> None, reconLease |-> "none"]

\* Column defaults of an inserted row.
NewRow == [AbsentRow EXCEPT !.status = "pending"]

\* The SET clauses of the router's updates.
Requeued(r) == [r EXCEPT !.status = "pending", !.owner = None, !.lease = "none"]
Leased(r, i) == [r EXCEPT !.status = "dispatching", !.owner = i, !.lease = "live"]
ReconQueued(r) ==
  [r EXCEPT !.recon = "pending", !.reconOwner = None, !.reconLease = "none"]
ReconLeased(r, i) ==
  [r EXCEPT !.recon = "processing", !.reconOwner = i, !.reconLease = "live"]
ReconClosed(r) ==
  [r EXCEPT !.recon = "complete", !.reconOwner = None, !.reconLease = "none"]

\* owner_instance_id survives the acknowledgement, only the lease is cleared.
Settled(r, ok) ==
  LET answered == [r EXCEPT !.status = IF ok THEN "acked" ELSE "failed",
                            !.lease = "none"]
  IN  IF ok THEN ReconClosed(answered) ELSE ReconQueued(answered)


\* BEFORE UPDATE OF status: a failure written without the reconciliation
\* columns is queued for reconciliation all the same.
Trigger(old, new) ==
  IF new.status = "failed" /\ old.status # "failed" /\ new.recon = "complete"
  THEN ReconQueued(new)
  ELSE new

\* UPDATE ... SET row = new(row) WHERE the command is in S.
Update(S, New(_)) ==
  row' = [c \in Commands |-> IF c \in S THEN New(row[c]) ELSE row[c]]

\* ORDER BY created_at, command_id LIMIT BatchLimit.
IsOldest(S, E) ==
  /\ S \subseteq E
  /\ \A c \in S, d \in E \ S : createdAt[c] < createdAt[d]
  /\ \/ Cardinality(S) = BatchLimit
     \/ S = E /\ Cardinality(E) =< BatchLimit

\* The order of dispatch within a batch.
IsAny(c, S) == c \in S \* variant
IsFirst(c, S) == c \in S /\ \A d \in S : createdAt[c] =< createdAt[d]

-----------------------------------------------------------------------------
Phase == {"idle", "freeJobs", "claimJobs", "jobs", "closeJob",
          "expire", "claim", "dispatch", "giveBack"}
IdlePoll == [phase |-> "idle", roster |-> {}, batch |-> {}]

Init ==
  /\ row = [c \in Commands |-> AbsentRow]
  /\ createdAt = [c \in Commands |-> 0]
  /\ process = [i \in Instances |-> "up"]
  /\ peer = [i \in Instances |-> [m \in Machines |-> "none"]]
  /\ poll = [i \in Instances |-> IdlePoll]
  /\ delivered = {}
  /\ noted = {}
  /\ faultsLeft = Faults

Running(i) == process[i] \in {"up", "closing", "released"}

\* The poll of i goes from one phase to another with batch B in hand.
Step(i, from, to, B) ==
  /\ Running(i)
  /\ poll[i].phase = from
  /\ poll' = [poll EXCEPT ![i] = [phase |-> to, roster |-> @.roster, batch |-> B]]
  /\ UNCHANGED <<createdAt, hosts>>

\* It ends; what it had claimed and not handled is forgotten.
Stop(i, from) ==
  /\ Running(i)
  /\ poll[i].phase = from
  /\ poll' = [poll EXCEPT ![i] = IdlePoll]
  /\ UNCHANGED <<createdAt, hosts>>

Fault ==
  \/ faultsLeft = Unlimited /\ UNCHANGED faultsLeft
  \/ faultsLeft \in Nat \ {0} /\ faultsLeft' = faultsLeft - 1

-----------------------------------------------------------------------------
(* Callers: a request handler commits a resource and its command.          *)

Inserted == {c \in Commands : row[c].status # "absent"}

Enqueue(c) ==
  /\ \E i \in Instances : process[i] = "up"
  /\ row[c].status = "absent"
  /\ row' = [row EXCEPT ![c] = NewRow]
  /\ createdAt' = [createdAt EXCEPT ![c] = Cardinality(Inserted) + 1]
  /\ UNCHANGED <<hosts, poll, delivered, noted, faultsLeft>>

-----------------------------------------------------------------------------
(* A poll, first half: reconcile negative acknowledgements.                *)

Connected(i) == {m \in Machines : peer[i][m] # "none"}

FreshPoll(R) == [phase |-> "freeJobs", roster |-> R, batch |-> {}]

PollBegins(i) ==
  /\ process[i] = "up"
  /\ poll[i].phase = "idle"
  /\ poll' = [poll EXCEPT ![i] = FreshPoll(Connected(i))]
  /\ UNCHANGED <<row, createdAt, hosts, delivered, noted, faultsLeft>>

LapsedJobs == {c \in Commands : /\ row[c].status = "failed"
                                /\ row[c].recon = "processing"
                                /\ row[c].reconLease = "lapsed"}

FreeLapsedJobs(i) ==
  /\ Step(i, "freeJobs", "claimJobs", {})
  /\ Update(LapsedJobs, ReconQueued)
  /\ UNCHANGED <<delivered, noted, faultsLeft>>

OpenJobs == {c \in Commands : row[c].status = "failed" /\ row[c].recon = "pending"}

\* ORDER BY updated_at: which jobs are claimed when there are more than
\* BatchLimit is left open.
ClaimJobs(i) ==
  \E S \in SUBSET OpenJobs :
    /\ \/ Cardinality(S) = BatchLimit
       \/ S = OpenJobs /\ Cardinality(S) < BatchLimit
    /\ Step(i, "claimJobs", "jobs", S)
    /\ Update(S, LAMBDA r : ReconLeased(r, i))
    /\ UNCHANGED <<delivered, noted, faultsLeft>>

\* The row the poll is at; a batch is worked through in one fixed order.
First(i) == {c \in poll[i].batch : IsFirst(c, poll[i].batch)}
Rest(i)  == poll[i].batch \ First(i)

\* onAcknowledged returned: the resource of the command shows the failure.
NoteFailure(i) ==
  /\ First(i) # {}
  /\ Step(i, "jobs", "closeJob", poll[i].batch)
  /\ noted' = noted \cup First(i)
  /\ UNCHANGED <<row, delivered, faultsLeft>>

\* Variant: the rejection of onAcknowledged is swallowed and the job closed.
NoteFailureSwallowed(i) ==
  /\ First(i) # {}
  /\ Step(i, "jobs", "closeJob", poll[i].batch)
  /\ Fault
  /\ UNCHANGED <<row, delivered, noted>>

\* onAcknowledged threw, before or after it wrote the failure.
NoteFailureFails(i) ==
  /\ First(i) # {}
  /\ Step(i, "jobs", "jobs", Rest(i))
  /\ noted' \in {noted, noted \cup First(i)}
  /\ Fault
  /\ UNCHANGED <<row, delivered>>

OwnJob(i, c) == /\ row[c].status = "failed"
                /\ row[c].recon = "processing"
                /\ row[c].reconOwner = i

\* When the update is rejected the loop goes on all the same.
CloseJob(i) ==
  /\ Step(i, "closeJob", "jobs", Rest(i))
  /\ \/ Update({c \in First(i) : OwnJob(i, c)}, ReconClosed) /\ UNCHANGED faultsLeft
     \/ Fault /\ UNCHANGED row
  /\ UNCHANGED <<delivered, noted>>

\* With no machine connected when the poll began there is nothing to dispatch.
JobsDone(i) ==
  /\ poll[i].batch = {}
  /\ \/ poll[i].roster # {} /\ Step(i, "jobs", "expire", {})
     \/ poll[i].roster = {} /\ Stop(i, "jobs")
  /\ UNCHANGED <<row, delivered, noted, faultsLeft>>

-----------------------------------------------------------------------------
(* A poll, second half: dispatch.                                          *)

LapsedLeases == {c \in Commands : /\ row[c].status = "dispatching"
                                  /\ row[c].lease = "lapsed"}

\* Variant: a process expires the leases it owns.
ExpireOwnLeases(i) ==
  /\ Step(i, "expire", "claim", {})
  /\ Update({c \in LapsedLeases : row[c].owner = i}, Requeued)
  /\ UNCHANGED <<delivered, noted, faultsLeft>>

ExpireLeases(i) ==
  /\ Step(i, "expire", "claim", {})
  /\ Update(LapsedLeases, Requeued)
  /\ UNCHANGED <<delivered, noted, faultsLeft>>

Eligible(i) ==
  {c \in Commands : row[c].status = "pending" /\ MachineOf[c] \in poll[i].roster}

\* FOR UPDATE SKIP LOCKED makes concurrent claims disjoint: they serialise.
\* When the answer to COMMIT is lost the rows are leased and nobody sends them.
Claim(i) ==
  \E S \in SUBSET Eligible(i) :
    /\ IsOldest(S, Eligible(i))
    /\ Update(S, LAMBDA r : Leased(r, i))
    /\ \/ Step(i, "claim", "dispatch", S) /\ UNCHANGED faultsLeft
       \/ S # {} /\ Stop(i, "claim") /\ Fault
    /\ UNCHANGED <<delivered, noted>>

\* peer.send: a frame written to a socket whose far end is gone is lost, and
\* the router cannot tell.
SendNext(i) ==
  \E c \in First(i) :
    /\ peer[i][MachineOf[c]] # "none"
    /\ Step(i, "dispatch", "dispatch", Rest(i))
    /\ delivered' = delivered \cup {d \in {c} : peer[i][MachineOf[d]] = "open"}
    /\ UNCHANGED <<row, noted, faultsLeft>>

NoPeerForNext(i) ==
  \E c \in First(i) :
    /\ peer[i][MachineOf[c]] = "none"
    /\ Step(i, "dispatch", "giveBack", poll[i].batch)
    /\ UNCHANGED <<row, delivered, noted, faultsLeft>>

\* Variant: without the status test a row settled meanwhile qualifies.
OwnsRow(i, c) == row[c].owner = i

OwnLease(i, c) == row[c].status = "dispatching" /\ row[c].owner = i

GiveBack(i) ==
  /\ Step(i, "giveBack", "dispatch", Rest(i))
  /\ Update({c \in First(i) : OwnLease(i, c)}, Requeued)
  /\ UNCHANGED <<delivered, noted, faultsLeft>>

PollEnds(i) ==
  /\ poll[i].batch = {}
  /\ Stop(i, "dispatch")
  /\ UNCHANGED <<row, delivered, noted, faultsLeft>>

\* A statement was rejected.
PollFails(i) ==
  /\ \E from \in {"freeJobs", "claimJobs", "expire", "claim", "giveBack"} : Stop(i, from)
  /\ Fault
  /\ UNCHANGED <<row, delivered, noted>>

-----------------------------------------------------------------------------
(* Answers of the daemon.  It answers what it has received, on whatever    *)
(* connection it has by then; an answer that reaches a process which does  *)
(* not hold the row updates nothing.                                       *)

Acknowledge(i, c, ok) ==
  /\ Running(i)
  /\ c \in delivered
  /\ OwnLease(i, c)
  /\ row' = [row EXCEPT ![c] = Trigger(@, Settled(@, ok))]
  /\ UNCHANGED <<createdAt, hosts, poll, delivered, noted, faultsLeft>>

-----------------------------------------------------------------------------
(* A process of the previous version: it leases rows, delivers them and    *)
(* settles them without knowing the reconciliation columns.                *)

OldProcessSends(c) ==
  /\ RollingUpgrade
  /\ row[c].status = "pending"
  /\ row' = [row EXCEPT ![c] = Leased(@, OldProcess)]
  /\ delivered' = delivered \cup {c}
  /\ UNCHANGED <<createdAt, hosts, poll, noted, faultsLeft>>

OldProcessFails(c) ==
  /\ RollingUpgrade
  /\ OwnLease(OldProcess, c)
  /\ row' = [row EXCEPT ![c] = Trigger(@, [@ EXCEPT !.status = "failed", !.lease = "none"])]
  /\ UNCHANGED <<createdAt, hosts, poll, delivered, noted, faultsLeft>>

-----------------------------------------------------------------------------
(* Time, connections, shutdown and crashes.                                *)

LeaseLapses(c) ==
  /\ row[c].lease = "live"
  /\ row' = [row EXCEPT ![c].lease = "lapsed"]
  /\ UNCHANGED <<createdAt, hosts, poll, delivered, noted, faultsLeft>>

JobLeaseLapses(c) ==
  /\ row[c].reconLease = "live"
  /\ row' = [row EXCEPT ![c].reconLease = "lapsed"]
  /\ UNCHANGED <<createdAt, hosts, poll, delivered, noted, faultsLeft>>

\* A daemon has one connection at a time; a new one replaces what is left of
\* an earlier one in daemonSockets.
Connect(i, m) ==
  /\ process[i] = "up"
  /\ \A j \in Instances : peer[j][m] # "open"
  /\ peer' = [peer EXCEPT ![i][m] = "open"]
  /\ UNCHANGED <<row, createdAt, process, poll, delivered, noted, faultsLeft>>

ConnectionBreaks(i, m) ==
  /\ peer[i][m] = "open"
  /\ peer' = [peer EXCEPT ![i][m] = "stale"]
  /\ Fault
  /\ UNCHANGED <<row, createdAt, process, poll, delivered, noted>>

CloseNoticed(i, m) ==
  /\ peer[i][m] = "stale"
  /\ peer' = [peer EXCEPT ![i][m] = "none"]
  /\ UNCHANGED <<row, createdAt, process, poll, delivered, noted, faultsLeft>>

CloseBegins(i) ==
  /\ process[i] = "up"
  /\ process' = [process EXCEPT ![i] = "closing"]
  /\ UNCHANGED <<row, createdAt, peer, poll, delivered, noted, faultsLeft>>

NoWaiting(i) == TRUE \* variant

\* close() waits while a poll is under way.
PollIsOver(i) == poll[i].phase = "idle"

ReleaseRows(i) ==
  /\ process[i] = "closing"
  /\ PollIsOver(i)
  /\ Update({c \in Commands : OwnLease(i, c)}, Requeued)
  /\ process' = [process EXCEPT ![i] = "released"]
  /\ UNCHANGED <<createdAt, peer, poll, delivered, noted, faultsLeft>>

\* Then the daemon sockets are closed.
ReleaseJobs(i) ==
  /\ process[i] = "released"
  /\ Update({c \in Commands : row[c].recon = "processing" /\ row[c].reconOwner = i},
            ReconQueued)
  /\ process' = [process EXCEPT ![i] = "closed"]
  /\ peer' = [peer EXCEPT ![i] = [m \in Machines |-> "none"]]
  /\ UNCHANGED <<createdAt, poll, delivered, noted, faultsLeft>>

Crash(i) ==
  /\ Running(i)
  /\ process' = [process EXCEPT ![i] = "down"]
  /\ peer' = [peer EXCEPT ![i] = [m \in Machines |-> "none"]]
  /\ poll' = [poll EXCEPT ![i] = IdlePoll]
  /\ Fault
  /\ UNCHANGED <<row, createdAt, delivered, noted>>

-----------------------------------------------------------------------------
PollStep(i) ==
  \/ PollBegins(i) \/ FreeLapsedJobs(i) \/ ClaimJobs(i) \/ NoteFailure(i)
  \/ NoteFailureFails(i) \/ CloseJob(i) \/ JobsDone(i)
  \/ ExpireLeases(i) \/ Claim(i) \/ SendNext(i)
  \/ NoPeerForNext(i) \/ GiveBack(i) \/ PollEnds(i) \/ PollFails(i)

ProcessStep(i) ==
  \/ CloseBegins(i) \/ ReleaseRows(i) \/ ReleaseJobs(i) \/ Crash(i)
  \/ \E m \in Machines : Connect(i, m) \/ ConnectionBreaks(i, m) \/ CloseNoticed(i, m)
  \/ \E c \in Commands, ok \in BOOLEAN : Acknowledge(i, c, ok)

CommandStep(c) ==
  \/ Enqueue(c)
  \/ OldProcessSends(c) \/ OldProcessFails(c)
  \/ LeaseLapses(c) \/ JobLeaseLapses(c)

Next == \/ \E i \in Instances : PollStep(i) \/ ProcessStep(i)
        \/ \E c \in Commands : CommandStep(c)

Spec == Init /\ [][Next]_vars

\* The poll timer keeps firing and every statement is answered; leases lapse;
\* a daemon without a connection reconnects; a closing process goes on.  A
\* daemon that is offered a command under lease after lease answers one of
\* them in time.
Fairness ==
  /\ \A i \in Instances :
       /\ WF_vars(PollStep(i))
       /\ WF_vars(ReleaseRows(i) \/ ReleaseJobs(i))
       /\ \A m \in Machines : WF_vars(CloseNoticed(i, m))
       /\ \A c \in Commands : SF_vars(\E ok \in BOOLEAN : Acknowledge(i, c, ok))
  /\ \A m \in Machines : WF_vars(\E i \in Instances : Connect(i, m))
  /\ \A c \in Commands : WF_vars(LeaseLapses(c)) /\ WF_vars(JobLeaseLapses(c))

FairSpec == Spec /\ Fairness

-----------------------------------------------------------------------------
(* Properties.                                                             *)

\* Every column holds a value its CHECK constraint or type allows, and the
\* memory of each process is well formed.
TypeOK ==
  /\ row \in [Commands -> Row]
  /\ createdAt \in [Commands -> Nat]
  /\ process \in [Instances -> {"up", "closing", "released", "closed", "down"}]
  /\ peer \in [Instances -> [Machines -> {"none", "open", "stale"}]]
  /\ poll \in [Instances -> [phase : Phase, roster : SUBSET Machines,
                             batch : SUBSET Commands]]
  /\ delivered \subseteq Commands
  /\ noted \subseteq Commands
  /\ faultsLeft \in Nat \cup {Unlimited}

\* A failure counts as reconciled only when the session or run it belongs to
\* shows it, whichever process did the work and wherever it was interrupted.
ReconciledMeansNoted ==
  \A c \in Commands :
    row[c].status = "failed" /\ row[c].recon = "complete" => c \in noted

\* close() hands everything back: a process that shut down in good order
\* holds no row and no job, so nothing waits for a lease of it to lapse.
CloseLeavesNothing ==
  \A i \in Instances : process[i] = "closed" =>
    \A c \in Commands :
      /\ ~ OwnLease(i, c)
      /\ ~ (row[c].recon = "processing" /\ row[c].reconOwner = i)

\* A command the daemon has answered is never queued again and its verdict
\* never changes, although polls with old batches, lapsed leases, shutdowns
\* and late answers all write to the same row.
SettledForever ==
  [][\A c \in Commands :
       row[c].status \in {"acked", "failed"} => row'[c].status = row[c].status]_vars

\* While nothing fails, a machine first receives its commands in the order
\* they were committed: a message never arrives before its session.start.
FirstDeliveryInOrder ==
  \A c, d \in Commands :
    /\ MachineOf[c] = MachineOf[d]
    /\ createdAt[c] \in 1..createdAt[d]
    /\ d \in delivered
    => c \in delivered

NoProcessUp == \A i \in Instances : process[i] # "up"

\* Every command committed to the table is answered in the end and its failure
\* reaches its session or run, even when the process that leased it or took the
\* answer dies and the survivors have no machine connected: nothing that was
\* taken out of the queue is stranded, unless every process shuts down or dies.
EveryCommandIsClosed ==
  <>[](\/ NoProcessUp
       \/ \A c \in Inserted : /\ row[c].status \in {"acked", "failed"}
                              /\ row[c].status = "failed" => c \in noted)

\* The router is a CommandQueue: the rows are the queue, the status column is
\* the outcome, and the reconciliation columns say what was recorded.
Queue == INSTANCE CommandQueue WITH
  submitted  <- Inserted,
  handed     <- delivered,
  outcome    <- [c \in Commands |->
                   IF row[c].status \in {"acked", "failed"} THEN row[c].status ELSE "open"],
  recorded   <- noted,
  reconciled <- {c \in Commands : row[c].status = "failed" /\ row[c].recon = "complete"}

\* Each step of the router is a step of the queue, or no step of it.
ImplementsQueue == Queue!Spec

\* The inductive invariant behind these properties.  Ranks are distinct, so a
\* batch has one first row; a job in hand is a failed row and a frame in hand
\* an inserted one, whatever happens to the row meanwhile; the job being
\* closed is noted; the old process leases only what it sends.
RanksDistinct ==
  /\ \A c \in Inserted : createdAt[c] \in 1..Cardinality(Inserted)
  /\ \A c, d \in Inserted : createdAt[c] = createdAt[d] => c = d

BatchesMatchRows ==
  \A i \in Instances :
    /\ poll[i].batch \subseteq Inserted
    /\ poll[i].phase \in {"jobs", "closeJob"} =>
         \A c \in poll[i].batch : row[c].status = "failed"
    /\ poll[i].phase = "closeJob" => First(i) \subseteq noted

OldProcessDelivers == \A c \in Commands : OwnLease(OldProcess, c) => c \in delivered

IInv == TypeOK /\ RanksDistinct /\ BatchesMatchRows /\ OldProcessDelivers /\ ReconciledMeansNoted
=============================================================================
