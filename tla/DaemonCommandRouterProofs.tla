--------------------- MODULE DaemonCommandRouterProofs ---------------------
(***************************************************************************)
(* What TLAPS proves of the router, for any number of commands, machines   *)
(* and processes.  The argument: no statement of any process takes a row   *)
(* out of "acked" or "failed" or makes it disappear (RowEvolves), so what  *)
(* a process read into its batch stays true of the rows while it works.    *)
(***************************************************************************)
EXTENDS DaemonCommandRouter, FiniteSetTheorems, TLAPS

\* The SET clauses keep a row well typed.
LEMMA RowUpdates ==
  ASSUME NEW r \in Row, NEW i \in Instances \cup {OldProcess}, NEW ok \in BOOLEAN
  PROVE  /\ Requeued(r) \in Row
         /\ Leased(r, i) \in Row
         /\ ReconQueued(r) \in Row
         /\ ReconLeased(r, i) \in Row
         /\ ReconClosed(r) \in Row
         /\ Settled(r, ok) \in Row
         /\ Trigger(r, Settled(r, ok)) \in Row
         /\ Trigger(r, [r EXCEPT !.status = "failed", !.lease = "none"]) \in Row
         /\ [r EXCEPT !.lease = "lapsed"] \in Row
         /\ [r EXCEPT !.reconLease = "lapsed"] \in Row
<1> USE DEF Row, Owners, RowStatus, LeaseStatus, ReconStatus
<1>1. /\ Requeued(r) \in Row
      /\ Leased(r, i) \in Row
  BY DEF Requeued, Leased
<1>2. /\ ReconLeased(r, i) \in Row
      /\ ReconClosed(r) \in Row
      /\ Settled(r, ok) \in Row
  BY DEF ReconLeased, ReconClosed, ReconQueued, Settled
<1>3. \A s \in Row : ReconQueued(s) \in Row
  BY DEF ReconQueued
<1>4. [r EXCEPT !.status = "failed", !.lease = "none"] \in Row
  OBVIOUS
<1>5. [r EXCEPT !.lease = "lapsed"] \in Row /\ [r EXCEPT !.reconLease = "lapsed"] \in Row
  OBVIOUS
<1>6. \A s \in Row : Trigger(r, s) \in Row
  BY <1>3 DEF Trigger
<1> QED BY <1>1, <1>2, <1>3, <1>4, <1>5, <1>6

\* What a poll has in hand is a set of commands.
LEMMA InHand ==
  ASSUME TypeOK, NEW i \in Instances
  PROVE  /\ poll[i].batch \in SUBSET Commands
         /\ First(i) \in SUBSET poll[i].batch
         /\ Rest(i) \in SUBSET Commands
  BY DEF TypeOK, First, Rest

\* A process starts with a well-typed memory and an empty table.
LEMMA TypeInit == Init => TypeOK
  BY FaultsAssumption DEF Init, TypeOK, AbsentRow, Row, Owners, RowStatus, LeaseStatus,
     ReconStatus, IdlePoll, Phase

\* The budget of faults stays in its type.
LEMMA FaultTyped == TypeOK /\ (Fault \/ UNCHANGED faultsLeft) => faultsLeft' \in Nat \cup {Unlimited}
  BY DEF TypeOK, Fault

\* A step of a poll keeps every variable well typed.
LEMMA PollStepTyped ==
  ASSUME TypeOK, NEW i \in Instances, PollStep(i)
  PROVE  TypeOK'
<1> USE DEF TypeOK, hosts
<1> DEFINE PollsOK == poll \in [Instances -> [phase : Phase, roster : SUBSET Machines,
                                              batch : SUBSET Commands]]
<1>1. CASE PollBegins(i)
  BY <1>1 DEF PollBegins, FreshPoll, Phase, Connected
<1>2. CASE FreeLapsedJobs(i)
  <2>1. row' \in [Commands -> Row]
    BY <1>2, RowUpdates DEF FreeLapsedJobs, Update
  <2>2. PollsOK'
    BY <1>2, InHand DEF FreeLapsedJobs, Step, Phase
  <2> QED BY <1>2, <2>1, <2>2 DEF FreeLapsedJobs, Step
<1>3. CASE ClaimJobs(i)
  <2>1. PICK S \in SUBSET OpenJobs :
          /\ Step(i, "claimJobs", "jobs", S)
          /\ row' = [c \in Commands |-> IF c \in S THEN ReconLeased(row[c], i) ELSE row[c]]
          /\ UNCHANGED <<delivered, noted, faultsLeft>>
    BY <1>3 DEF ClaimJobs, Update
  <2>2. row' \in [Commands -> Row]
    BY <2>1, RowUpdates
  <2>3. PollsOK'
    BY <2>1, InHand DEF OpenJobs, Step, Phase
  <2> QED BY <2>1, <2>2, <2>3 DEF Step
<1>4. CASE NoteFailure(i)
  <2>1. PollsOK'
    BY <1>4, InHand DEF NoteFailure, Step, Phase
  <2>2. First(i) \subseteq Commands
    BY InHand
  <2> QED BY <1>4, <2>1, <2>2 DEF NoteFailure, Step
<1>5. CASE NoteFailureFails(i)
  <2>1. PollsOK'
    BY <1>5, InHand DEF NoteFailureFails, Step, Phase
  <2>2. First(i) \subseteq Commands
    BY InHand
  <2> QED BY <1>5, <2>1, <2>2, FaultTyped DEF NoteFailureFails, Step
<1>6. CASE CloseJob(i)
  <2>1. row' \in [Commands -> Row]
    <3>1. CASE UNCHANGED row
      BY <3>1
    <3>2. CASE row' = [c \in Commands |-> IF c \in {d \in First(i) : OwnJob(i, d)}
                                          THEN ReconClosed(row[c]) ELSE row[c]]
      BY <3>2, RowUpdates
    <3> QED BY <1>6, <3>1, <3>2 DEF CloseJob, Update
  <2>2. PollsOK'
    BY <1>6, InHand DEF CloseJob, Step, Phase
  <2> QED BY <1>6, <2>1, <2>2, FaultTyped DEF CloseJob, Step
<1>7. CASE JobsDone(i)
  <2>2. PollsOK'
    BY <1>7 DEF JobsDone, Step, Stop, IdlePoll, Phase
  <2> QED BY <1>7, <2>2 DEF JobsDone, Step, Stop
<1>8. CASE ExpireLeases(i)
  <2>1. row' \in [Commands -> Row]
    BY <1>8, RowUpdates DEF ExpireLeases, Update
  <2>2. PollsOK'
    BY <1>8, InHand DEF ExpireLeases, Step, Phase
  <2> QED BY <1>8, <2>1, <2>2 DEF ExpireLeases, Step
<1>9. CASE Claim(i)
  <2>1. PICK S \in SUBSET Eligible(i) :
          /\ row' = [c \in Commands |-> IF c \in S THEN Leased(row[c], i) ELSE row[c]]
          /\ \/ Step(i, "claim", "dispatch", S) /\ UNCHANGED faultsLeft
             \/ Stop(i, "claim") /\ Fault
          /\ UNCHANGED <<delivered, noted>>
    BY <1>9 DEF Claim, Update
  <2>2. row' \in [Commands -> Row]
    BY <2>1, RowUpdates
  <2>3. PollsOK'
    <3>1. CASE Step(i, "claim", "dispatch", S)
      BY <3>1 DEF Eligible, Step, Phase
    <3>2. CASE Stop(i, "claim")
      BY <3>2 DEF Stop, IdlePoll, Phase
    <3> QED BY <2>1, <3>1, <3>2
  <2> QED BY <2>1, <2>2, <2>3, FaultTyped DEF Step, Stop
<1>10. CASE SendNext(i)
  <2>0. Step(i, "dispatch", "dispatch", Rest(i))
    BY <1>10 DEF SendNext
  <2>1. PollsOK'
    BY <2>0, InHand DEF Step, Phase
  <2>2. First(i) \subseteq Commands
    BY InHand
  <2> QED BY <1>10, <2>1, <2>2 DEF SendNext, Step
<1>11. CASE NoPeerForNext(i)
  <2>1. PollsOK'
    BY <1>11, InHand DEF NoPeerForNext, Step, Phase
  <2> QED BY <1>11, <2>1 DEF NoPeerForNext, Step
<1>12. CASE GiveBack(i)
  <2>1. row' \in [Commands -> Row]
    BY <1>12, RowUpdates DEF GiveBack, Update
  <2>2. PollsOK'
    BY <1>12, InHand DEF GiveBack, Step, Phase
  <2> QED BY <1>12, <2>1, <2>2 DEF GiveBack, Step
<1>13. CASE PollEnds(i)
  <2>1. PollsOK'
    BY <1>13 DEF PollEnds, Stop, IdlePoll, Phase
  <2> QED BY <1>13, <2>1 DEF PollEnds, Stop
<1>14. CASE PollFails(i)
  <2>1. PollsOK'
    BY <1>14 DEF PollFails, Stop, IdlePoll, Phase
  <2> QED BY <1>14, <2>1, FaultTyped DEF PollFails, Stop
<1> QED BY <1>1, <1>2, <1>3, <1>4, <1>5, <1>6, <1>7, <1>8, <1>9, <1>10, <1>11, <1>12, <1>13,
           <1>14 DEF PollStep

\* So does any other step of a process.
LEMMA ProcessStepTyped ==
  ASSUME TypeOK, NEW i \in Instances, ProcessStep(i)
  PROVE  TypeOK'
<1> USE DEF TypeOK, hosts
<1>1. CASE CloseBegins(i)
  BY <1>1 DEF CloseBegins
<1>2. CASE ReleaseRows(i)
  <2>1. row' \in [Commands -> Row]
    BY <1>2, RowUpdates DEF ReleaseRows, Update
  <2> QED BY <1>2, <2>1 DEF ReleaseRows
<1>3. CASE ReleaseJobs(i)
  <2>1. row' \in [Commands -> Row]
    BY <1>3, RowUpdates DEF ReleaseJobs, Update
  <2> QED BY <1>3, <2>1 DEF ReleaseJobs
<1>4. CASE Crash(i)
  BY <1>4, FaultTyped DEF Crash, IdlePoll, Phase
<1>5. ASSUME NEW m \in Machines, Connect(i, m) \/ ConnectionBreaks(i, m) \/ CloseNoticed(i, m)
      PROVE  TypeOK'
  <2>1. peer' \in [Instances -> [Machines -> {"none", "open", "stale"}]]
    <3>1. ASSUME NEW st \in {"none", "open", "stale"}, peer' = [peer EXCEPT ![i][m] = st]
          PROVE  peer' \in [Instances -> [Machines -> {"none", "open", "stale"}]]
      BY <3>1
    <3> QED BY <1>5, <3>1 DEF Connect, ConnectionBreaks, CloseNoticed
  <2> QED BY <1>5, <2>1, FaultTyped DEF Connect, ConnectionBreaks, CloseNoticed
<1>6. ASSUME NEW c \in Commands, NEW ok \in BOOLEAN, Acknowledge(i, c, ok)
      PROVE  TypeOK'
  <2>1. row' \in [Commands -> Row]
    BY <1>6, RowUpdates DEF Acknowledge
  <2> QED BY <1>6, <2>1 DEF Acknowledge
<1> QED BY <1>1, <1>2, <1>3, <1>4, <1>5, <1>6 DEF ProcessStep

\* And a step of a caller, of the previous version, or of time.
LEMMA CommandStepTyped ==
  ASSUME TypeOK, NEW c \in Commands, CommandStep(c)
  PROVE  TypeOK'
<1> USE DEF TypeOK, hosts
<1>1. CASE Enqueue(c)
  <2>1. row' \in [Commands -> Row]
    BY <1>1 DEF Enqueue, NewRow, AbsentRow, Row, Owners, RowStatus, LeaseStatus, ReconStatus
  <2>2. Cardinality(Inserted) \in Nat
    BY CommandsAssumption, FS_Subset, FS_CardinalityType DEF Inserted
  <2> QED BY <1>1, <2>1, <2>2 DEF Enqueue
<1>2. CASE OldProcessSends(c)
  <2>1. row' \in [Commands -> Row]
    BY <1>2, RowUpdates DEF OldProcessSends
  <2> QED BY <1>2, <2>1 DEF OldProcessSends
<1>3. CASE OldProcessFails(c)
  <2>1. row' \in [Commands -> Row]
    BY <1>3, RowUpdates DEF OldProcessFails
  <2> QED BY <1>3, <2>1 DEF OldProcessFails
<1>4. CASE LeaseLapses(c) \/ JobLeaseLapses(c)
  <2>1. row' \in [Commands -> Row]
    <3>1. CASE LeaseLapses(c)
      BY <3>1, RowUpdates DEF LeaseLapses
    <3>2. CASE JobLeaseLapses(c)
      BY <3>2, RowUpdates DEF JobLeaseLapses
    <3> QED BY <1>4, <3>1, <3>2
  <2> QED BY <1>4, <2>1 DEF LeaseLapses, JobLeaseLapses
<1> QED BY <1>1, <1>2, <1>3, <1>4 DEF CommandStep

\* Type correctness: every column and every poll stays well formed.
THEOREM TypeCorrect == Spec => []TypeOK
<1>1. TypeOK /\ [Next]_vars => TypeOK'
  <2>1. TypeOK /\ UNCHANGED vars => TypeOK'
    BY DEF TypeOK, vars, hosts
  <2> QED BY <2>1, PollStepTyped, ProcessStepTyped, CommandStepTyped DEF Next
<1> QED BY <1>1, TypeInit, PTL DEF Spec

-----------------------------------------------------------------------------
(* What one step may do to a row.                                          *)

RowEvolves(c) ==
  /\ row[c].status \in {"acked", "failed"} => row'[c].status = row[c].status
  /\ row[c].status # "absent" => row'[c].status # "absent"
  /\ (row'[c].status = "failed" /\ row'[c].recon = "complete")
       => \/ row[c].status = "failed" /\ row[c].recon = "complete"
          \/ c \in noted
  /\ (row'[c].status = "dispatching" /\ row'[c].owner = OldProcess)
       => \/ row[c].status = "dispatching" /\ row[c].owner = OldProcess
          \/ c \in delivered'

\* Only Enqueue inserts a row and stamps it.
NoInsert == UNCHANGED createdAt /\ \A c \in Commands :
              row[c].status = "absent" => row'[c].status = "absent"

\* The columns that matter here after each SET clause.
LEMMA Columns ==
  ASSUME NEW r \in Row, NEW i
  PROVE  /\ Requeued(r).status = "pending"
         /\ Leased(r, i).status = "dispatching" /\ Leased(r, i).owner = i
         /\ /\ ReconQueued(r).status = r.status /\ ReconQueued(r).owner = r.owner
            /\ ReconQueued(r).recon = "pending"
         /\ /\ ReconLeased(r, i).status = r.status /\ ReconLeased(r, i).owner = r.owner
            /\ ReconLeased(r, i).recon = "processing"
         /\ ReconClosed(r).status = r.status /\ ReconClosed(r).owner = r.owner
  BY DEF Requeued, Leased, ReconQueued, ReconLeased, ReconClosed, Row

\* A step of a poll evolves every row, inserts none, and never takes back a
\* note or a delivery.
LEMMA PollStepRows ==
  ASSUME IInv, NEW i \in Instances, PollStep(i)
  PROVE  /\ \A c \in Commands : RowEvolves(c)
         /\ NoInsert
         /\ noted \subseteq noted' /\ delivered \subseteq delivered'
<1> USE DEF RowEvolves, NoInsert
<1>1. CASE PollBegins(i)
  BY <1>1 DEF PollBegins
<1>2. CASE FreeLapsedJobs(i)
  <2>1. ASSUME NEW c \in Commands
        PROVE  /\ row'[c].status = row[c].status
               /\ row'[c].owner = row[c].owner
               /\ row'[c].recon = "complete" => row[c].recon = "complete"
    BY <1>2, Columns DEF FreeLapsedJobs, Update, IInv, TypeOK
  <2> QED BY <1>2, <2>1 DEF FreeLapsedJobs, Step
<1>3. CASE ClaimJobs(i)
  <2>1. PICK S \in SUBSET OpenJobs :
          /\ Step(i, "claimJobs", "jobs", S)
          /\ row' = [c \in Commands |-> IF c \in S THEN ReconLeased(row[c], i) ELSE row[c]]
          /\ UNCHANGED <<delivered, noted, faultsLeft>>
    BY <1>3 DEF ClaimJobs, Update
  <2>2. ASSUME NEW c \in Commands
        PROVE  /\ row'[c].status = row[c].status
               /\ row'[c].owner = row[c].owner
               /\ row'[c].recon = "complete" => row[c].recon = "complete"
    BY <2>1, Columns DEF IInv, TypeOK
  <2> QED BY <2>1, <2>2 DEF Step
<1>4. CASE NoteFailure(i) \/ NoteFailureFails(i)
  BY <1>4 DEF NoteFailure, NoteFailureFails, Step
<1>5. CASE CloseJob(i)
  <2>1. First(i) \subseteq noted
    BY <1>5 DEF CloseJob, Step, IInv, BatchesMatchRows
  <2>2. ASSUME NEW c \in Commands
        PROVE  /\ row'[c].status = row[c].status
               /\ row'[c].owner = row[c].owner
               /\ c \notin First(i) => row'[c] = row[c]
    <3>1. CASE UNCHANGED row
      BY <3>1
    <3>2. CASE row' = [d \in Commands |-> IF d \in {e \in First(i) : OwnJob(i, e)}
                                          THEN ReconClosed(row[d]) ELSE row[d]]
      BY <3>2, Columns DEF IInv, TypeOK
    <3> QED BY <1>5, <3>1, <3>2 DEF CloseJob, Update
  <2> QED BY <1>5, <2>1, <2>2 DEF CloseJob, Step
<1>6. CASE JobsDone(i)
  BY <1>6 DEF JobsDone, Step, Stop
<1>7. CASE ExpireLeases(i)
  <2>1. ASSUME NEW c \in Commands
        PROVE  \/ row'[c] = row[c]
               \/ row[c].status = "dispatching" /\ row'[c].status = "pending"
    BY <1>7, Columns DEF ExpireLeases, LapsedLeases, Update, IInv, TypeOK
  <2> QED BY <1>7, <2>1 DEF ExpireLeases, Step
<1>8. CASE Claim(i)
  <2>1. PICK S \in SUBSET Eligible(i) :
          /\ row' = [c \in Commands |-> IF c \in S THEN Leased(row[c], i) ELSE row[c]]
          /\ \/ Step(i, "claim", "dispatch", S)
             \/ Stop(i, "claim")
          /\ UNCHANGED <<delivered, noted>>
    BY <1>8 DEF Claim, Update
  <2>2. ASSUME NEW c \in Commands
        PROVE  \/ row'[c] = row[c]
               \/ /\ row[c].status = "pending"
                  /\ row'[c].status = "dispatching" /\ row'[c].owner = i
    BY <2>1, Columns DEF Eligible, IInv, TypeOK
  <2> QED BY <2>1, <2>2, InstancesAssumption DEF Step, Stop
<1>9. CASE SendNext(i) \/ NoPeerForNext(i)
  BY <1>9 DEF SendNext, NoPeerForNext, Step
<1>10. CASE GiveBack(i)
  <2>1. ASSUME NEW c \in Commands
        PROVE  \/ row'[c] = row[c]
               \/ row[c].status = "dispatching" /\ row'[c].status = "pending"
    BY <1>10, Columns DEF GiveBack, OwnLease, Update, IInv, TypeOK
  <2> QED BY <1>10, <2>1 DEF GiveBack, Step
<1>11. CASE PollEnds(i) \/ PollFails(i)
  BY <1>11 DEF PollEnds, PollFails, Stop
<1> QED BY <1>1, <1>2, <1>3, <1>4, <1>5, <1>6, <1>7, <1>8, <1>9, <1>10, <1>11 DEF PollStep

\* The same of the other steps of a process.
LEMMA ProcessStepRows ==
  ASSUME IInv, NEW i \in Instances, ProcessStep(i)
  PROVE  /\ \A c \in Commands : RowEvolves(c)
         /\ NoInsert
         /\ UNCHANGED <<noted, delivered>>
<1> USE DEF RowEvolves, NoInsert
<1>1. CASE CloseBegins(i) \/ Crash(i)
  BY <1>1 DEF CloseBegins, Crash
<1>2. CASE ReleaseRows(i)
  <2>1. ASSUME NEW c \in Commands
        PROVE  \/ row'[c] = row[c]
               \/ row[c].status = "dispatching" /\ row'[c].status = "pending"
    BY <1>2, Columns DEF ReleaseRows, OwnLease, Update, IInv, TypeOK
  <2> QED BY <1>2, <2>1 DEF ReleaseRows
<1>3. CASE ReleaseJobs(i)
  <2>1. ASSUME NEW c \in Commands
        PROVE  /\ row'[c].status = row[c].status
               /\ row'[c].owner = row[c].owner
               /\ row'[c].recon = "complete" => row[c].recon = "complete"
    BY <1>3, Columns DEF ReleaseJobs, Update, IInv, TypeOK
  <2> QED BY <1>3, <2>1 DEF ReleaseJobs
<1>4. ASSUME NEW m \in Machines, Connect(i, m) \/ ConnectionBreaks(i, m) \/ CloseNoticed(i, m)
      PROVE  UNCHANGED <<row, createdAt, noted, delivered>>
  BY <1>4 DEF Connect, ConnectionBreaks, CloseNoticed
<1>5. ASSUME NEW a \in Commands, NEW ok \in BOOLEAN, Acknowledge(i, a, ok)
      PROVE  /\ \A c \in Commands : RowEvolves(c)
             /\ NoInsert
             /\ UNCHANGED <<noted, delivered>>
  <2>1. /\ row'[a].status = IF ok THEN "acked" ELSE "failed"
        /\ row'[a].status = "failed" => row'[a].recon = "pending"
    BY <1>5 DEF Acknowledge, Trigger, Settled, ReconClosed, ReconQueued, IInv, TypeOK, Row
  <2>2. \A c \in Commands \ {a} : row'[c] = row[c]
    BY <1>5 DEF Acknowledge, IInv, TypeOK
  <2> QED BY <1>5, <2>1, <2>2 DEF Acknowledge, OwnLease
<1> QED BY <1>1, <1>2, <1>3, <1>4, <1>5 DEF ProcessStep

\* The same of callers, the previous version and time, but for Enqueue.
LEMMA CommandStepRows ==
  ASSUME IInv, NEW a \in Commands, CommandStep(a)
  PROVE  /\ \A c \in Commands : RowEvolves(c)
         /\ NoInsert \/ Enqueue(a)
         /\ noted' = noted /\ delivered \subseteq delivered'
<1> USE DEF RowEvolves, NoInsert, OwnLease
<1>1. CASE Enqueue(a)
  <2>1. row'[a].status = "pending"
    BY <1>1 DEF Enqueue, NewRow, AbsentRow, IInv, TypeOK
  <2>2. \A c \in Commands \ {a} : row'[c] = row[c]
    BY <1>1 DEF Enqueue, IInv, TypeOK
  <2> QED BY <1>1, <2>1, <2>2 DEF Enqueue
<1>2. CASE OldProcessSends(a)
  <2>1. row'[a].status = "dispatching"
    BY <1>2 DEF OldProcessSends, Leased, IInv, TypeOK, Row
  <2>2. \A c \in Commands \ {a} : row'[c] = row[c]
    BY <1>2 DEF OldProcessSends, IInv, TypeOK
  <2> QED BY <1>2, <2>1, <2>2 DEF OldProcessSends
<1>3. CASE OldProcessFails(a)
  <2>1. /\ row'[a].status = "failed"
        /\ row'[a].recon # "complete"
    BY <1>3 DEF OldProcessFails, Trigger, ReconQueued, IInv, TypeOK, Row
  <2>2. \A c \in Commands \ {a} : row'[c] = row[c]
    BY <1>3 DEF OldProcessFails, IInv, TypeOK
  <2> QED BY <1>3, <2>1, <2>2 DEF OldProcessFails
<1>4. CASE LeaseLapses(a) \/ JobLeaseLapses(a)
  <2>1. ASSUME NEW c \in Commands
        PROVE  /\ row'[c].status = row[c].status
               /\ row'[c].owner = row[c].owner
               /\ row'[c].recon = row[c].recon
    <3>1. CASE LeaseLapses(a)
      BY <3>1 DEF LeaseLapses, IInv, TypeOK, Row
    <3>2. CASE JobLeaseLapses(a)
      BY <3>2 DEF JobLeaseLapses, IInv, TypeOK, Row
    <3> QED BY <1>4, <3>1, <3>2
  <2> QED BY <1>4, <2>1 DEF LeaseLapses, JobLeaseLapses
<1> QED BY <1>1, <1>2, <1>3, <1>4 DEF CommandStep

\* Together: what any step does to rows, notes and deliveries.
LEMMA StepRows ==
  ASSUME IInv, [Next]_vars
  PROVE  /\ \A c \in Commands : RowEvolves(c)
         /\ NoInsert \/ \E c \in Commands : Enqueue(c)
         /\ noted \subseteq noted' /\ delivered \subseteq delivered'
<1>1. CASE UNCHANGED vars
  BY <1>1 DEF vars, RowEvolves, NoInsert
<1> QED BY <1>1, PollStepRows, ProcessStepRows, CommandStepRows DEF Next

-----------------------------------------------------------------------------
(* The inductive invariant.                                                *)

\* Ranks stay distinct: a row is stamped once, past all the others.
LEMMA RanksStep ==
  ASSUME IInv, [Next]_vars
  PROVE  /\ RanksDistinct'
         /\ Inserted \subseteq Inserted'
         /\ \A c \in Inserted : createdAt'[c] = createdAt[c]
<1> USE DEF RanksDistinct
<1>1. CASE NoInsert
  <2>1. Inserted' = Inserted
    BY <1>1, StepRows DEF Inserted, NoInsert, RowEvolves
  <2> QED BY <1>1, <2>1 DEF NoInsert, IInv
<1>2. CASE \E c \in Commands : Enqueue(c)
  <2>1. PICK c \in Commands : Enqueue(c)
    BY <1>2
  <2>2. c \notin Inserted /\ Inserted' = Inserted \cup {c}
    BY <2>1 DEF Enqueue, Inserted, NewRow, AbsentRow, IInv, TypeOK
  <2>3. IsFiniteSet(Inserted) /\ Cardinality(Inserted) \in Nat
    BY CommandsAssumption, FS_Subset, FS_CardinalityType DEF Inserted
  <2>4. Cardinality(Inserted') = Cardinality(Inserted) + 1
    BY <2>2, <2>3, FS_AddElement
  <2>5. createdAt' = [createdAt EXCEPT ![c] = Cardinality(Inserted) + 1]
    BY <2>1 DEF Enqueue
  <2>6. \A d \in Inserted : createdAt[d] \in 1..Cardinality(Inserted) /\ createdAt'[d] = createdAt[d]
    BY <2>2, <2>5 DEF IInv, TypeOK, Inserted
  <2>7. createdAt'[c] = Cardinality(Inserted) + 1
    BY <2>5 DEF IInv, TypeOK
  <2> QED BY <2>2, <2>3, <2>4, <2>6, <2>7 DEF IInv
<1> QED BY <1>1, <1>2, StepRows

\* How a poll's phase and batch move.
LEMMA PollMoves ==
  ASSUME IInv, NEW j \in Instances, PollStep(j)
  PROVE  \/ poll'[j].batch = {} /\ poll'[j].phase # "closeJob"
         \/ /\ poll'[j].phase = "jobs" /\ poll'[j].batch \subseteq OpenJobs
         \/ /\ poll[j].phase = "jobs" /\ poll'[j].phase = "closeJob"
            /\ poll'[j].batch = poll[j].batch
            /\ noted' = noted \cup First(j) /\ UNCHANGED createdAt
         \/ /\ poll[j].phase \in {"jobs", "closeJob"} /\ poll'[j].phase = "jobs"
            /\ poll'[j].batch \subseteq poll[j].batch
         \/ /\ poll'[j].phase \in {"dispatch", "giveBack"}
            /\ poll'[j].batch \subseteq Inserted
<1> USE DEF IInv, TypeOK
<1>1. CASE PollBegins(j) \/ FreeLapsedJobs(j) \/ JobsDone(j) \/ ExpireLeases(j) \/ PollEnds(j)
           \/ PollFails(j)
  BY <1>1 DEF PollBegins, FreeLapsedJobs, JobsDone, ExpireLeases, PollEnds, PollFails,
              Step, Stop, IdlePoll, FreshPoll
<1>2. CASE ClaimJobs(j)
  BY <1>2 DEF ClaimJobs, Step
<1>3. CASE NoteFailure(j)
  BY <1>3 DEF NoteFailure, Step
<1>4. CASE NoteFailureFails(j) \/ CloseJob(j)
  BY <1>4 DEF NoteFailureFails, CloseJob, Step, Rest
<1>5. CASE Claim(j)
  <2>1. Eligible(j) \subseteq Inserted
    BY DEF Eligible, Inserted
  <2>2. PICK S \in SUBSET Eligible(j) : Step(j, "claim", "dispatch", S) \/ Stop(j, "claim")
    BY <1>5 DEF Claim
  <2> QED BY <2>1, <2>2 DEF Step, Stop, IdlePoll
<1>6. CASE SendNext(j) \/ NoPeerForNext(j) \/ GiveBack(j)
  BY <1>6 DEF SendNext, NoPeerForNext, GiveBack, Step, Rest, BatchesMatchRows
<1> QED BY <1>1, <1>2, <1>3, <1>4, <1>5, <1>6 DEF PollStep

\* A step of anybody else leaves a poll alone, or ends it in a crash.
LEMMA PollsOfOthers ==
  ASSUME IInv, [Next]_vars, NEW j \in Instances, ~ PollStep(j)
  PROVE  poll'[j] = poll[j] \/ poll'[j] = IdlePoll
<1> USE DEF IInv, TypeOK
<1>1. ASSUME NEW i \in Instances, i # j, PollStep(i)
      PROVE  poll'[j] = poll[j]
  BY <1>1 DEF PollStep, PollBegins, FreeLapsedJobs, JobsDone, ExpireLeases, PollEnds, PollFails,
     ClaimJobs, NoteFailure, NoteFailureFails, CloseJob, Claim, SendNext, NoPeerForNext, GiveBack,
     Step, Stop
<1>2. ASSUME NEW i \in Instances, ProcessStep(i)
      PROVE  poll'[j] = poll[j] \/ poll'[j] = IdlePoll
  BY <1>2 DEF ProcessStep, CloseBegins, ReleaseRows, ReleaseJobs, Crash, Connect, ConnectionBreaks,
     CloseNoticed, Acknowledge
<1>3. ASSUME NEW c \in Commands, CommandStep(c)
      PROVE  UNCHANGED poll
  BY <1>3 DEF CommandStep, Enqueue, OldProcessSends, OldProcessFails, LeaseLapses, JobLeaseLapses
<1> QED BY <1>1, <1>2, <1>3 DEF Next, vars

\* What a poll has in hand stays true of the rows.
LEMMA BatchStep ==
  ASSUME IInv, [Next]_vars
  PROVE  BatchesMatchRows'
<1> SUFFICES ASSUME NEW j \in Instances
             PROVE  /\ poll'[j].batch \subseteq Inserted'
                    /\ poll'[j].phase \in {"jobs", "closeJob"} =>
                         \A c \in poll'[j].batch : row'[c].status = "failed"
                    /\ poll'[j].phase = "closeJob" => First(j)' \subseteq noted'
  BY DEF BatchesMatchRows
<1>1. /\ Inserted \subseteq Inserted' /\ noted \subseteq noted'
      /\ \A c \in Inserted : createdAt'[c] = createdAt[c]
      /\ \A c \in Commands : row[c].status = "failed" => row'[c].status = "failed"
  BY RanksStep, StepRows DEF RowEvolves
<1>2. /\ poll[j].batch \subseteq Inserted /\ poll[j].batch \subseteq Commands
      /\ OpenJobs \subseteq Inserted /\ OpenJobs \subseteq Commands
      /\ \A c \in OpenJobs : row[c].status = "failed"
      /\ poll[j].phase \in {"jobs", "closeJob"} => \A c \in poll[j].batch : row[c].status = "failed"
      /\ poll[j].phase = "closeJob" => First(j) \subseteq noted
  BY DEF IInv, TypeOK, BatchesMatchRows, OpenJobs, Inserted
<1>3. ASSUME poll'[j].batch = poll[j].batch
      PROVE  First(j)' = First(j)
  BY <1>1, <1>2, <1>3 DEF First, IsFirst
<1>4. CASE PollStep(j)
  BY <1>1, <1>2, <1>3, <1>4, PollMoves
<1>5. CASE ~ PollStep(j)
  BY <1>1, <1>2, <1>3, <1>5, PollsOfOthers DEF IdlePoll
<1> QED BY <1>4, <1>5

\* No step of anybody breaks the inductive invariant.
LEMMA IInvStep == IInv /\ [Next]_vars => IInv'
<1> SUFFICES ASSUME IInv, [Next]_vars
             PROVE  IInv'
  OBVIOUS
<1>1. TypeOK'
  BY PollStepTyped, ProcessStepTyped, CommandStepTyped DEF Next, IInv, TypeOK, vars, hosts
<1>2. OldProcessDelivers' /\ ReconciledMeansNoted'
  BY StepRows DEF RowEvolves, IInv, OldProcessDelivers, OwnLease, ReconciledMeansNoted
<1> QED BY <1>1, <1>2, RanksStep, BatchStep DEF IInv

\* The empty table satisfies it.
LEMMA IInvInit == Init => IInv
<1> SUFFICES ASSUME Init
             PROVE  IInv
  OBVIOUS
<1>1. Inserted = {}
  BY DEF Init, Inserted, AbsentRow
<1> QED BY <1>1, TypeInit DEF Init, IInv, RanksDistinct, BatchesMatchRows, OldProcessDelivers,
        OwnLease, ReconciledMeansNoted, AbsentRow, IdlePoll

\* The inductive invariant holds of every reachable state.
THEOREM Invariance == Spec => []IInv
  BY IInvInit, IInvStep, PTL DEF Spec

\* A failure counts as reconciled only when its session or run shows it.
THEOREM ReconciliationSound == Spec => []ReconciledMeansNoted
<1>1. IInv => ReconciledMeansNoted
  BY DEF IInv
<1> QED BY <1>1, Invariance, PTL

\* A verdict is final.
THEOREM VerdictsFinal == Spec => SettledForever
<1>1. IInv /\ [Next]_vars =>
        [\A c \in Commands :
           row[c].status \in {"acked", "failed"} => row'[c].status = row[c].status]_vars
  BY StepRows DEF RowEvolves
<1> QED BY <1>1, Invariance, PTL DEF Spec, SettledForever

\* A batch has one first row.
LEMMA OneFirst ==
  ASSUME IInv, NEW i \in Instances, First(i) # {}
  PROVE  \E c \in Commands : First(i) = {c} /\ c \in Inserted /\ c \in poll[i].batch
<1>1. PICK c : c \in First(i)
  OBVIOUS
<1>2. ASSUME NEW d \in First(i)
      PROVE  d = c
  <2>1. /\ c \in Inserted /\ d \in Inserted
        /\ createdAt[c] =< createdAt[d] /\ createdAt[d] =< createdAt[c]
    BY <1>1, <1>2 DEF First, IsFirst, IInv, BatchesMatchRows
  <2>2. createdAt[c] \in Nat /\ createdAt[d] \in Nat
    BY <2>1 DEF Inserted, IInv, TypeOK
  <2> QED BY <2>1, <2>2 DEF IInv, RanksDistinct
<1>3. c \in poll[i].batch /\ c \in Inserted /\ c \in Commands
  BY <1>1 DEF First, IInv, BatchesMatchRows, TypeOK
<1> QED BY <1>1, <1>2, <1>3

-----------------------------------------------------------------------------
(* close() hands everything back.  What makes it so is the order of its    *)
(* two waits: the rows are released only when no poll is under way, and no *)
(* poll begins after that, so nothing is leased behind the release.        *)

\* A job of process i that is being worked on.
HasJob(i, c) == row[c].recon = "processing" /\ row[c].reconOwner = i

ReleasedIsQuiet ==
  \A i \in Instances :
    /\ process[i] \in {"released", "closed"} =>
         poll[i].phase = "idle" /\ \A c \in Commands : ~ OwnLease(i, c)
    /\ process[i] = "closed" => \A c \in Commands : ~ HasJob(i, c)

\* A process that has released its rows takes no step of a poll.
LEMMA ReleasedTakesNoPollStep ==
  ASSUME ReleasedIsQuiet, NEW i \in Instances, process[i] \in {"released", "closed"}
  PROVE  ~ PollStep(i)
  BY DEF ReleasedIsQuiet, PollStep, PollBegins, FreeLapsedJobs, ClaimJobs, NoteFailure,
     NoteFailureFails, CloseJob, JobsDone, ExpireLeases, Claim, SendNext, NoPeerForNext,
     GiveBack, PollEnds, PollFails, Step, Stop

\* What the SET clauses but the two that lease make of a row.
NonLeasing(r, ok) ==
  {r, Requeued(r), ReconQueued(r), ReconClosed(r), Trigger(r, Settled(r, ok)),
   Trigger(r, [r EXCEPT !.status = "failed", !.lease = "none"]),
   [r EXCEPT !.lease = "lapsed"], [r EXCEPT !.reconLease = "lapsed"]}

\* They take nothing for anybody.
LEMMA NothingTaken ==
  ASSUME NEW r \in Row, NEW ok \in BOOLEAN, NEW i \in Instances,
         NEW s \in NonLeasing(r, ok)
  PROVE  /\ (s.status = "dispatching" /\ s.owner = i)
              => r.status = "dispatching" /\ r.owner = i
         /\ (s.recon = "processing" /\ s.reconOwner = i)
              => r.recon = "processing" /\ r.reconOwner = i
<1> USE DEF Row
<1>1. CASE s \in {r, Requeued(r), ReconQueued(r), ReconClosed(r)}
  BY <1>1, InstancesAssumption DEF Requeued, ReconQueued, ReconClosed
<1>2. CASE s = Trigger(r, Settled(r, ok))
  BY <1>2, InstancesAssumption DEF Trigger, Settled, ReconQueued, ReconClosed
<1>3. CASE s = Trigger(r, [r EXCEPT !.status = "failed", !.lease = "none"])
  BY <1>3, InstancesAssumption DEF Trigger, ReconQueued
<1>4. CASE s \in {[r EXCEPT !.lease = "lapsed"], [r EXCEPT !.reconLease = "lapsed"]}
  BY <1>4
<1> QED BY <1>1, <1>2, <1>3, <1>4 DEF NonLeasing

\* A process comes to hold a row or a job by a step of its own poll only.
LEMMA OnlyPollsTake ==
  ASSUME IInv, [Next]_vars, NEW i \in Instances, ~ PollStep(i), NEW c \in Commands
  PROVE  /\ OwnLease(i, c)' => OwnLease(i, c)
         /\ HasJob(i, c)' => HasJob(i, c)
<1> USE DEF OwnLease, HasJob
<1>0. row \in [Commands -> Row]
  BY DEF IInv, TypeOK
<1>5. ASSUME NEW ok \in BOOLEAN, row'[c] \in NonLeasing(row[c], ok)
      PROVE  /\ OwnLease(i, c)' => OwnLease(i, c)
             /\ HasJob(i, c)' => HasJob(i, c)
  <2>1. row[c] \in Row
    BY <1>0
  <2> QED BY <2>1, <1>5, NothingTaken
<1>1. ASSUME NEW j \in Instances, j # i, PollStep(j)
      PROVE  /\ OwnLease(i, c)' => OwnLease(i, c)
             /\ HasJob(i, c)' => HasJob(i, c)
  <2>1. CASE PollBegins(j) \/ NoteFailure(j) \/ NoteFailureFails(j) \/ JobsDone(j) \/ SendNext(j)
             \/ NoPeerForNext(j) \/ PollEnds(j) \/ PollFails(j)
    BY <2>1 DEF PollBegins, NoteFailure, NoteFailureFails, JobsDone, SendNext, NoPeerForNext,
       PollEnds, PollFails
  <2>2. CASE FreeLapsedJobs(j) \/ CloseJob(j) \/ ExpireLeases(j) \/ GiveBack(j)
    <3>1. row'[c] \in NonLeasing(row[c], TRUE)
      BY <1>0, <2>2 DEF FreeLapsedJobs, CloseJob, ExpireLeases, GiveBack, Update, NonLeasing
    <3> QED BY <3>1, <1>5
  <2>3. CASE ClaimJobs(j)
    <3>1. row'[c] = row[c] \/ row'[c] = ReconLeased(row[c], j)
      BY <1>0, <2>3 DEF ClaimJobs, Update
    <3> QED BY <1>0, <1>1, <3>1 DEF ReconLeased, Row
  <2>4. CASE Claim(j)
    <3>1. row'[c] = row[c] \/ row'[c] = Leased(row[c], j)
      BY <1>0, <2>4 DEF Claim, Update
    <3> QED BY <1>0, <1>1, <3>1 DEF Leased, Row
  <2> QED BY <1>1, <2>1, <2>2, <2>3, <2>4 DEF PollStep
<1>2. ASSUME NEW j \in Instances, ProcessStep(j)
      PROVE  /\ OwnLease(i, c)' => OwnLease(i, c)
             /\ HasJob(i, c)' => HasJob(i, c)
  <2>1. \E ok \in BOOLEAN : row'[c] \in NonLeasing(row[c], ok)
    <3> USE DEF NonLeasing
    <3>1. CASE ReleaseRows(j) \/ ReleaseJobs(j)
      BY <1>0, <3>1 DEF ReleaseRows, ReleaseJobs, Update
    <3>2. CASE \E d \in Commands, ok \in BOOLEAN : Acknowledge(j, d, ok)
      BY <1>0, <3>2 DEF Acknowledge
    <3>3. CASE CloseBegins(j) \/ Crash(j)
               \/ \E m \in Machines : Connect(j, m) \/ ConnectionBreaks(j, m) \/ CloseNoticed(j, m)
      BY <3>3 DEF CloseBegins, Crash, Connect, ConnectionBreaks, CloseNoticed
    <3> QED BY <1>2, <3>1, <3>2, <3>3 DEF ProcessStep
  <2> QED BY <2>1, <1>5
<1>3. ASSUME NEW d \in Commands, CommandStep(d)
      PROVE  /\ OwnLease(i, c)' => OwnLease(i, c)
             /\ HasJob(i, c)' => HasJob(i, c)
  <2>1. CASE Enqueue(d)
    BY <1>0, <2>1 DEF Enqueue, NewRow, AbsentRow
  <2>2. CASE OldProcessSends(d)
    <3>1. row'[c] = row[c] \/ row'[c] = Leased(row[c], OldProcess)
      BY <1>0, <2>2 DEF OldProcessSends
    <3> QED BY <1>0, <3>1, InstancesAssumption DEF Leased, Row
  <2>3. CASE OldProcessFails(d) \/ LeaseLapses(d) \/ JobLeaseLapses(d)
    <3>1. row'[c] \in NonLeasing(row[c], TRUE)
      BY <1>0, <2>3 DEF OldProcessFails, LeaseLapses, JobLeaseLapses, NonLeasing
    <3> QED BY <3>1, <1>5
  <2> QED BY <1>3, <2>1, <2>2, <2>3 DEF CommandStep
<1>4. CASE UNCHANGED vars
  BY <1>4 DEF vars
<1> QED BY <1>1, <1>2, <1>3, <1>4 DEF Next

\* How far a process gets: released only with no poll and no row in hand,
\* closed only with no job in hand besides.
LEMMA Shutdown ==
  ASSUME IInv, [Next]_vars, NEW i \in Instances
  PROVE  /\ process'[i] = "released" =>
              \/ process[i] = "released"
              \/ poll[i].phase = "idle" /\ ~ PollStep(i) /\ \A c \in Commands : ~ OwnLease(i, c)'
         /\ process'[i] = "closed" =>
              \/ process[i] = "closed"
              \/ process[i] = "released" /\ \A c \in Commands : ~ HasJob(i, c)'
<1> USE DEF IInv, TypeOK
<1>1. CASE ReleaseRows(i)
  <2>1. \A c \in Commands : ~ OwnLease(i, c)'
    <3> SUFFICES ASSUME NEW c \in Commands
                 PROVE  ~ OwnLease(i, c)'
      OBVIOUS
    <3>1. CASE OwnLease(i, c)
      <4>1. row'[c] = Requeued(row[c])
        BY <1>1, <3>1 DEF ReleaseRows, Update
      <4> QED BY <4>1, Columns DEF OwnLease
    <3>2. CASE ~ OwnLease(i, c)
      <4>1. row'[c] = row[c]
        BY <1>1, <3>2 DEF ReleaseRows, Update
      <4> QED BY <3>2, <4>1 DEF OwnLease
    <3> QED BY <3>1, <3>2
  <2>2. ~ PollStep(i)
    BY <1>1 DEF ReleaseRows, PollIsOver, PollStep, PollBegins, FreeLapsedJobs, ClaimJobs,
       NoteFailure, NoteFailureFails, CloseJob, JobsDone, ExpireLeases, Claim, SendNext,
       NoPeerForNext, GiveBack, PollEnds, PollFails, Step, Stop
  <2> QED BY <1>1, <2>1, <2>2 DEF ReleaseRows, PollIsOver
<1>2. CASE ReleaseJobs(i)
  <2>1. \A c \in Commands : ~ HasJob(i, c)'
    <3> SUFFICES ASSUME NEW c \in Commands
                 PROVE  ~ HasJob(i, c)'
      OBVIOUS
    <3>1. CASE HasJob(i, c)
      <4>1. row'[c] = ReconQueued(row[c])
        BY <1>2, <3>1 DEF ReleaseJobs, Update, HasJob
      <4> QED BY <4>1, Columns DEF HasJob
    <3>2. CASE ~ HasJob(i, c)
      <4>1. row'[c] = row[c]
        BY <1>2, <3>2 DEF ReleaseJobs, Update, HasJob
      <4> QED BY <3>2, <4>1 DEF HasJob
    <3> QED BY <3>1, <3>2
  <2> QED BY <1>2, <2>1 DEF ReleaseJobs
<1>3. CASE ~ ReleaseRows(i) /\ ~ ReleaseJobs(i)
  <2>1. process'[i] = process[i] \/ process'[i] \in {"closing", "down"}
    <3>1. ASSUME NEW j \in Instances, PollStep(j)
          PROVE  UNCHANGED process
      BY <3>1 DEF PollStep, PollBegins, FreeLapsedJobs, ClaimJobs,
         NoteFailure, NoteFailureFails, CloseJob, JobsDone, ExpireLeases, Claim, SendNext,
         NoPeerForNext, GiveBack, PollEnds, PollFails, Step, Stop, hosts
    <3>2. ASSUME NEW j \in Instances, ProcessStep(j)
          PROVE  process'[i] = process[i] \/ process'[i] \in {"closing", "down"}
      <4>1. CASE j = i
        BY <1>3, <3>2, <4>1 DEF ProcessStep, CloseBegins, Crash, Connect, ConnectionBreaks,
           CloseNoticed, Acknowledge, hosts
      <4>2. CASE j # i
        BY <3>2, <4>2 DEF ProcessStep, CloseBegins, Crash, Connect, ConnectionBreaks,
           CloseNoticed, Acknowledge, ReleaseRows, ReleaseJobs, hosts
      <4> QED BY <4>1, <4>2
    <3>3. ASSUME NEW c \in Commands, CommandStep(c)
          PROVE  UNCHANGED process
      BY <3>3 DEF CommandStep, Enqueue, OldProcessSends, OldProcessFails, LeaseLapses,
         JobLeaseLapses, hosts
    <3> QED BY <3>1, <3>2, <3>3 DEF Next, vars, hosts
  <2> QED BY <2>1
<1> QED BY <1>1, <1>2, <1>3

\* No step of anybody wakes a process that has released its rows.
LEMMA QuietStep ==
  ASSUME IInv, ReleasedIsQuiet, [Next]_vars
  PROVE  ReleasedIsQuiet'
<1> SUFFICES ASSUME NEW i \in Instances, process'[i] \in {"released", "closed"}
             PROVE  /\ poll'[i].phase = "idle" /\ \A c \in Commands : ~ OwnLease(i, c)'
                    /\ process'[i] = "closed" => \A c \in Commands : ~ HasJob(i, c)'
  BY DEF ReleasedIsQuiet
<1>1. CASE process[i] \in {"released", "closed"}
  <2>1. ~ PollStep(i)
    BY <1>1, ReleasedTakesNoPollStep
  <2>2. poll'[i].phase = "idle"
    BY <1>1, <2>1, PollsOfOthers DEF ReleasedIsQuiet, IdlePoll
  <2>3. \A c \in Commands : ~ OwnLease(i, c)'
    BY <1>1, <2>1, OnlyPollsTake DEF ReleasedIsQuiet
  <2>4. process[i] = "closed" => \A c \in Commands : ~ HasJob(i, c)'
    BY <1>1, <2>1, OnlyPollsTake DEF ReleasedIsQuiet
  <2> QED BY <2>2, <2>3, <2>4, Shutdown
<1>2. CASE process[i] \notin {"released", "closed"}
  <2>1. /\ process'[i] = "released" /\ poll[i].phase = "idle" /\ ~ PollStep(i)
        /\ \A c \in Commands : ~ OwnLease(i, c)'
    BY <1>2, Shutdown
  <2> QED BY <2>1, PollsOfOthers DEF IdlePoll
<1> QED BY <1>1, <1>2

\* A process that shut down in good order holds no row and no job.
THEOREM ShutdownHandsBack == Spec => []CloseLeavesNothing
<1>1. Init => ReleasedIsQuiet
  BY DEF Init, ReleasedIsQuiet
<1>2. IInv /\ ReleasedIsQuiet /\ [Next]_vars => ReleasedIsQuiet'
  BY QuietStep
<1>3. ReleasedIsQuiet => CloseLeavesNothing
  BY DEF ReleasedIsQuiet, CloseLeavesNothing, HasJob
<1> QED BY <1>1, <1>2, <1>3, Invariance, PTL DEF Spec

-----------------------------------------------------------------------------
(* First deliveries come in the order of commitment while nothing fails.   *)
(* What a poll claims it sends before it claims again, and only the        *)
(* process that holds a machine's connection claims for that machine: so   *)
(* whatever is older than a claimed command was delivered before or is     *)
(* claimed with it, even when leases lapse under the sender.               *)

\* Nothing fails: no fault left, and no process of the previous version.
Calm == faultsLeft = 0 /\ Unlimited # 0 /\ ~ RollingUpgrade

\* The frames a poll still has to write.
Sending(i) == IF poll[i].phase = "dispatch" THEN poll[i].batch ELSE {}

\* A machine has one connection, and the process that has it knows its state.
PeersAgree ==
  \A i \in Instances, m \in Machines :
    /\ peer[i][m] # "stale"
    /\ peer[i][m] = "open" => \A j \in Instances : peer[j][m] = "open" => j = i

\* The machines a poll read when it began stay connected until it ends.
RostersAreOpen ==
  \A i \in Instances :
    /\ poll[i].phase # "giveBack"
    /\ poll[i].phase # "idle" => \A m \in poll[i].roster : peer[i][m] = "open"
    /\ \A c \in Sending(i) : MachineOf[c] \in poll[i].roster

\* A row leaves "pending" only towards a frame.
LeasedAreSent ==
  \A c \in Commands :
    /\ row[c].status \in {"dispatching", "acked", "failed"} =>
         c \in delivered \/ \E i \in Instances : c \in Sending(i)
    /\ row[c].status = "absent" => createdAt[c] = 0 /\ c \notin delivered

\* c was committed for the same machine and no later than d.
Earlier(c, d) == MachineOf[c] = MachineOf[d] /\ createdAt[c] \in 1..createdAt[d]

Ordered ==
  \A c, d \in Commands : Earlier(c, d) =>
    /\ d \in delivered => c \in delivered
    /\ \A i \in Instances : d \in Sending(i) => c \in delivered \cup Sending(i)

Orderly == Calm /\ PeersAgree /\ RostersAreOpen /\ LeasedAreSent /\ Ordered

\* Without a fault left no step is a fault.
LEMMA NoFault == ASSUME Calm PROVE ~ Fault
  BY DEF Calm, Fault

\* The steps of a poll that are left, by what they do to what is being sent.
LEMMA CalmPollStep ==
  ASSUME IInv, Orderly, NEW i \in Instances, PollStep(i)
  PROVE  /\ UNCHANGED <<createdAt, hosts, faultsLeft>>
         /\ \A j \in Instances \ {i} : poll'[j] = poll[j]
         /\ \/ Claim(i)
            \/ SendNext(i)
            \/ /\ delivered' = delivered /\ poll'[i].phase \notin {"dispatch", "giveBack"}
               /\ \/ poll'[i].phase = "idle"
                  \/ poll'[i].roster = Connected(i)
                  \/ poll[i].phase # "idle" /\ poll'[i].roster = poll[i].roster
               /\ Sending(i) = {}
<1> USE DEF IInv, TypeOK, Sending
<1>0. ~ Fault
  BY NoFault DEF Orderly
<1>1. CASE PollBegins(i)
  BY <1>1 DEF PollBegins, FreshPoll
<1>2. CASE FreeLapsedJobs(i) \/ NoteFailure(i) \/ ExpireLeases(i)
  BY <1>2 DEF FreeLapsedJobs, NoteFailure, ExpireLeases, Step
<1>9. CASE ClaimJobs(i)
  BY <1>9 DEF ClaimJobs, Step
<1>10. CASE JobsDone(i) \/ PollEnds(i)
  BY <1>10 DEF JobsDone, PollEnds, Step, Stop, IdlePoll
<1>3. CASE CloseJob(i)
  BY <1>0, <1>3 DEF CloseJob, Step
<1>4. CASE NoteFailureFails(i) \/ PollFails(i)
  BY <1>0, <1>4 DEF NoteFailureFails, PollFails
<1>5. CASE Claim(i)
  BY <1>0, <1>5 DEF Claim, Step
<1>6. CASE SendNext(i)
  BY <1>6 DEF SendNext, Step
<1>7. CASE NoPeerForNext(i)
  <2>1. PICK c \in First(i) : peer[i][MachineOf[c]] = "none" /\ poll[i].phase = "dispatch"
    BY <1>7 DEF NoPeerForNext, Step
  <2>2. c \in Sending(i)
    BY <2>1 DEF First
  <2>3. peer[i][MachineOf[c]] = "open"
    BY <2>1, <2>2 DEF Orderly, RostersAreOpen
  <2> QED BY <2>1, <2>3
<1>8. CASE GiveBack(i)
  BY <1>8 DEF GiveBack, Step, Orderly, RostersAreOpen
<1> QED BY <1>1, <1>2, <1>3, <1>4, <1>5, <1>6, <1>7, <1>8, <1>9, <1>10 DEF PollStep

\* What a claim takes: the oldest rows, of machines connected here.
LEMMA CalmClaim ==
  ASSUME IInv, Orderly, NEW i \in Instances, Claim(i)
  PROVE  \E S \in SUBSET Eligible(i) :
           /\ IsOldest(S, Eligible(i))
           /\ row' = [c \in Commands |-> IF c \in S THEN Leased(row[c], i) ELSE row[c]]
           /\ poll[i].phase = "claim" /\ Sending(i)' = S
           /\ poll'[i].phase = "dispatch" /\ poll'[i].roster = poll[i].roster
           /\ UNCHANGED delivered
<1>1. ~ Fault
  BY NoFault DEF Orderly
<1> QED BY <1>1 DEF Claim, Step, Update, Sending, IInv, TypeOK

\* What a write to a socket does: the frame arrives.
LEMMA CalmSend ==
  ASSUME IInv, Orderly, NEW i \in Instances, SendNext(i)
  PROVE  \E c \in Sending(i) :
           /\ \A d \in Sending(i) : createdAt[c] =< createdAt[d]
           /\ delivered' = delivered \cup {c}
           /\ poll[i].phase = "dispatch" /\ Sending(i)' = Sending(i) \ {c}
           /\ poll'[i].phase = "dispatch" /\ poll'[i].roster = poll[i].roster
           /\ UNCHANGED row
<1>1. First(i) # {} /\ poll[i].phase = "dispatch"
  BY DEF SendNext, Step
<1>2. PICK c \in Commands : First(i) = {c} /\ c \in poll[i].batch
  BY <1>1, OneFirst
<1>3. c \in Sending(i) /\ peer[i][MachineOf[c]] = "open"
  BY <1>1, <1>2 DEF Sending, Orderly, RostersAreOpen
<1>4. delivered' = delivered \cup {c}
  BY <1>2, <1>3 DEF SendNext
<1>5. /\ Sending(i)' = Sending(i) \ {c} /\ UNCHANGED row
      /\ poll'[i].phase = "dispatch" /\ poll'[i].roster = poll[i].roster
  BY <1>1, <1>2 DEF SendNext, Step, Rest, Sending, IInv, TypeOK
<1>6. \A d \in Sending(i) : createdAt[c] =< createdAt[d]
  BY <1>1, <1>2 DEF First, IsFirst, Sending
<1> QED BY <1>1, <1>3, <1>4, <1>5, <1>6

\* Nobody else sends anything or takes a row out of "pending".
LEMMA CalmOthers ==
  ASSUME IInv, Orderly, [Next]_vars, \A i \in Instances : ~ PollStep(i)
  PROVE  /\ UNCHANGED <<poll, delivered, faultsLeft>>
         /\ \A c \in Commands : row'[c].status \in {"dispatching", "acked", "failed"} =>
              row[c].status \in {"dispatching", "acked", "failed"}
<1> USE DEF IInv, TypeOK
<1>0. ~ Fault
  BY NoFault DEF Orderly
<1>1. ASSUME NEW i \in Instances, ProcessStep(i)
      PROVE  /\ UNCHANGED <<poll, delivered, faultsLeft>>
             /\ \A c \in Commands : row'[c].status \in {"dispatching", "acked", "failed"} =>
                  row[c].status \in {"dispatching", "acked", "failed"}
  <2>1. CASE CloseBegins(i)
    BY <2>1 DEF CloseBegins
  <2>2. CASE ReleaseRows(i)
    BY <2>2, Columns DEF ReleaseRows, Update
  <2>3. CASE ReleaseJobs(i)
    BY <2>3, Columns DEF ReleaseJobs, Update
  <2>4. CASE Crash(i)
    BY <1>0, <2>4 DEF Crash
  <2>5. CASE \E m \in Machines : Connect(i, m) \/ ConnectionBreaks(i, m) \/ CloseNoticed(i, m)
    BY <1>0, <2>5 DEF Connect, ConnectionBreaks, CloseNoticed
  <2>6. CASE \E c \in Commands, ok \in BOOLEAN : Acknowledge(i, c, ok)
    BY <2>6 DEF Acknowledge, OwnLease
  <2> QED BY <1>1, <2>1, <2>2, <2>3, <2>4, <2>5, <2>6 DEF ProcessStep
<1>2. ASSUME NEW d \in Commands, CommandStep(d)
      PROVE  /\ UNCHANGED <<poll, delivered, faultsLeft>>
             /\ \A c \in Commands : row'[c].status \in {"dispatching", "acked", "failed"} =>
                  row[c].status \in {"dispatching", "acked", "failed"}
  <2>1. CASE Enqueue(d)
    BY <2>1 DEF Enqueue, NewRow, AbsentRow
  <2>2. CASE LeaseLapses(d)
    BY <2>2 DEF LeaseLapses, Row
  <2>3. CASE JobLeaseLapses(d)
    BY <2>3 DEF JobLeaseLapses, Row
  <2>4. ~ OldProcessSends(d) /\ ~ OldProcessFails(d)
    BY DEF OldProcessSends, OldProcessFails, Orderly, Calm
  <2> QED BY <1>2, <2>1, <2>2, <2>3, <2>4 DEF CommandStep
<1> QED BY <1>1, <1>2 DEF Next, vars

\* Connections move only from a process that has none left to send to.
LEMMA PeersStep ==
  ASSUME IInv, ReleasedIsQuiet, Orderly, [Next]_vars
  PROVE  /\ PeersAgree'
         /\ \A i \in Instances, m \in Machines : peer[i][m] = "open" =>
              peer'[i][m] = "open" \/ (poll[i].phase = "idle" /\ poll'[i].phase = "idle")
<1>0. /\ PeersAgree
      /\ peer \in [Instances -> [Machines -> {"none", "open", "stale"}]]
  BY DEF Orderly, IInv, TypeOK
<1>1. CASE UNCHANGED peer
  BY <1>0, <1>1 DEF PeersAgree
<1>2. ASSUME NEW i \in Instances, NEW m \in Machines, Connect(i, m)
      PROVE  /\ PeersAgree'
             /\ \A j \in Instances, n \in Machines : peer[j][n] = "open" => peer'[j][n] = "open"
  <2>1. \A j \in Instances, n \in Machines :
          peer'[j][n] = IF j = i /\ n = m THEN "open" ELSE peer[j][n]
    BY <1>0, <1>2 DEF Connect
  <2>2. \A j \in Instances : peer[j][m] # "open"
    BY <1>2 DEF Connect
  <2> QED BY <1>0, <2>1, <2>2 DEF PeersAgree
<1>3. ASSUME NEW i \in Instances, ReleaseJobs(i)
      PROVE  /\ PeersAgree'
             /\ \A j \in Instances, m \in Machines : peer[j][m] = "open" =>
                  peer'[j][m] = "open" \/ (poll[j].phase = "idle" /\ poll'[j].phase = "idle")
  <2>1. \A j \in Instances, m \in Machines :
          peer'[j][m] = IF j = i THEN "none" ELSE peer[j][m]
    BY <1>0, <1>3 DEF ReleaseJobs
  <2>2. poll[i].phase = "idle" /\ poll'[i].phase = "idle"
    BY <1>3 DEF ReleaseJobs, ReleasedIsQuiet
  <2>3. PeersAgree'
    BY <1>0, <2>1 DEF PeersAgree
  <2> QED BY <2>1, <2>2, <2>3
<1>4. ASSUME NEW i \in Instances, PollStep(i)
      PROVE  UNCHANGED peer
  BY <1>4, CalmPollStep DEF hosts
<1>5. ASSUME NEW i \in Instances, ProcessStep(i), ~ ReleaseJobs(i),
             \A m \in Machines : ~ Connect(i, m)
      PROVE  UNCHANGED peer
  <2>1. ~ Fault
    BY NoFault DEF Orderly
  <2>2. ~ Crash(i) /\ \A m \in Machines : ~ ConnectionBreaks(i, m)
    BY <2>1 DEF Crash, ConnectionBreaks
  <2>3. \A m \in Machines : ~ CloseNoticed(i, m)
    BY <1>0 DEF CloseNoticed, PeersAgree
  <2>4. CASE CloseBegins(i) \/ ReleaseRows(i)
    BY <2>4 DEF CloseBegins, ReleaseRows
  <2>5. CASE \E c \in Commands, ok \in BOOLEAN : Acknowledge(i, c, ok)
    BY <2>5 DEF Acknowledge, hosts
  <2> QED BY <1>5, <2>2, <2>3, <2>4, <2>5 DEF ProcessStep
<1>6. ASSUME NEW c \in Commands, CommandStep(c)
      PROVE  UNCHANGED peer
  BY <1>6 DEF CommandStep, Enqueue, OldProcessSends, OldProcessFails, LeaseLapses,
     JobLeaseLapses, hosts
<1>7. CASE UNCHANGED vars
  BY <1>1, <1>7 DEF vars, hosts
<1>8. ASSUME NEW i \in Instances, ProcessStep(i)
      PROVE  /\ PeersAgree'
             /\ \A j \in Instances, m \in Machines : peer[j][m] = "open" =>
                  peer'[j][m] = "open" \/ (poll[j].phase = "idle" /\ poll'[j].phase = "idle")
  BY <1>1, <1>2, <1>3, <1>5, <1>8
<1> QED BY <1>1, <1>4, <1>6, <1>7, <1>8 DEF Next

\* Rosters stay open.
LEMMA RostersStep ==
  ASSUME IInv, ReleasedIsQuiet, Orderly, [Next]_vars
  PROVE  RostersAreOpen'
<1> USE DEF IInv, TypeOK
<1> SUFFICES ASSUME NEW i \in Instances
             PROVE  /\ poll'[i].phase # "giveBack"
                    /\ poll'[i].phase # "idle" => \A m \in poll'[i].roster : peer'[i][m] = "open"
                    /\ \A c \in Sending(i)' : MachineOf[c] \in poll'[i].roster
  BY DEF RostersAreOpen
<1>1. /\ poll[i].phase # "giveBack"
      /\ poll[i].phase # "idle" => \A m \in poll[i].roster : peer[i][m] = "open"
      /\ \A c \in Sending(i) : MachineOf[c] \in poll[i].roster
  BY DEF Orderly, RostersAreOpen
<1>2. CASE poll'[i] = poll[i]
  BY <1>1, <1>2, PeersStep DEF Sending
<1>3. CASE Claim(i)
  BY <1>1, <1>3, CalmClaim, PeersStep DEF Eligible
<1>4. CASE SendNext(i)
  BY <1>1, <1>4, CalmSend, PeersStep
<1>5. CASE PollStep(i) /\ ~ Claim(i) /\ ~ SendNext(i)
  <2>1. /\ poll'[i].phase \notin {"dispatch", "giveBack"}
        /\ \/ poll'[i].phase = "idle"
           \/ poll'[i].roster = Connected(i)
           \/ poll[i].phase # "idle" /\ poll'[i].roster = poll[i].roster
        /\ peer' = peer
    BY <1>5, CalmPollStep DEF hosts
  <2>2. Sending(i)' = {}
    BY <2>1 DEF Sending
  <2>3. \A m \in Connected(i) : peer[i][m] = "open"
    BY DEF Connected, Orderly, PeersAgree
  <2> QED BY <1>1, <2>1, <2>2, <2>3
<1>6. CASE ~ PollStep(i)
  <2>1. CASE \E j \in Instances : PollStep(j)
    BY <1>2, <1>6, <2>1, CalmPollStep
  <2>2. CASE \A j \in Instances : ~ PollStep(j)
    BY <1>2, <2>2, CalmOthers
  <2> QED BY <2>1, <2>2
<1> QED BY <1>3, <1>4, <1>5, <1>6

\* What is sent or delivered is sent or delivered after any step.
LEMMA SendingStep ==
  ASSUME IInv, Orderly, [Next]_vars, NEW i \in Instances, NEW c \in Sending(i)
  PROVE  c \in delivered' \cup Sending(i)'
<1>1. CASE \A j \in Instances : ~ PollStep(j)
  BY <1>1, CalmOthers DEF Sending
<1>2. ASSUME NEW j \in Instances, j # i, PollStep(j)
      PROVE  c \in Sending(i)'
  BY <1>2, CalmPollStep DEF Sending
<1>3. CASE Claim(i)
  BY <1>3, CalmClaim DEF Sending
<1>4. CASE SendNext(i)
  BY <1>4, CalmSend
<1>5. CASE PollStep(i) /\ ~ Claim(i) /\ ~ SendNext(i)
  BY <1>5, CalmPollStep
<1> QED BY <1>1, <1>2, <1>3, <1>4, <1>5

\* Every row that leaves "pending" is being sent.
LEMMA LeasedStep ==
  ASSUME IInv, Orderly, [Next]_vars
  PROVE  LeasedAreSent'
<1> USE DEF IInv, TypeOK
<1> DEFINE Out == {"dispatching", "acked", "failed"}
<1> SUFFICES ASSUME NEW c \in Commands
             PROVE  /\ row'[c].status \in Out =>
                         c \in delivered' \/ \E i \in Instances : c \in Sending(i)'
                    /\ row'[c].status = "absent" => createdAt'[c] = 0 /\ c \notin delivered'
  BY DEF LeasedAreSent
<1>1. /\ row[c].status \in Out => c \in delivered \/ \E i \in Instances : c \in Sending(i)
      /\ row[c].status = "absent" => createdAt[c] = 0 /\ c \notin delivered
  BY DEF Orderly, LeasedAreSent
<1>2. delivered \subseteq delivered'
  BY StepRows
<1>3. CASE row[c].status \in Out
  <2>1. row'[c].status # "absent"
    BY <1>3, StepRows DEF RowEvolves
  <2> QED BY <1>1, <1>2, <1>3, <2>1, SendingStep
<1>4. CASE row[c].status \notin Out
  <2>1. row'[c].status \in Out => \E i \in Instances : c \in Sending(i)'
    <3>1. CASE \A i \in Instances : ~ PollStep(i)
      BY <1>4, <3>1, CalmOthers
    <3>2. ASSUME NEW i \in Instances, Claim(i)
          PROVE  row'[c].status \in Out => c \in Sending(i)'
      BY <1>4, <3>2, CalmClaim
    <3>3. ASSUME NEW i \in Instances, PollStep(i), ~ Claim(i)
          PROVE  row'[c].status \notin Out
      <4>1. row'[c].status = row[c].status
        <5>1. CASE FreeLapsedJobs(i)
          BY <5>1, Columns DEF FreeLapsedJobs, Update
        <5>2. CASE ClaimJobs(i)
          BY <5>2, Columns DEF ClaimJobs, Update
        <5>3. CASE CloseJob(i)
          <6>1. row'[c] = row[c] \/ row'[c] = ReconClosed(row[c])
            BY <5>3 DEF CloseJob, Update
          <6> QED BY <6>1, Columns
        <5>4. CASE ExpireLeases(i)
          BY <1>4, <5>4 DEF ExpireLeases, LapsedLeases, Update
        <5>5. CASE GiveBack(i)
          BY <1>4, <5>5 DEF GiveBack, OwnLease, Update
        <5>6. CASE PollBegins(i) \/ NoteFailure(i) \/ NoteFailureFails(i) \/ JobsDone(i)
                   \/ SendNext(i) \/ NoPeerForNext(i) \/ PollEnds(i) \/ PollFails(i)
          BY <5>6 DEF PollBegins, NoteFailure, NoteFailureFails, JobsDone, SendNext,
             NoPeerForNext, PollEnds, PollFails
        <5> QED BY <3>3, <5>1, <5>2, <5>3, <5>4, <5>5, <5>6 DEF PollStep
      <4> QED BY <1>4, <4>1
    <3> QED BY <3>1, <3>2, <3>3
  <2>2. row'[c].status = "absent" => createdAt'[c] = 0 /\ c \notin delivered'
    <3> SUFFICES ASSUME row'[c].status = "absent"
                 PROVE  createdAt'[c] = 0 /\ c \notin delivered'
      OBVIOUS
    <3>1. row[c].status = "absent"
      BY StepRows DEF RowEvolves
    <3>2. createdAt'[c] = createdAt[c]
      <4>1. CASE NoInsert
        BY <4>1 DEF NoInsert
      <4>2. ASSUME NEW d \in Commands, Enqueue(d)
            PROVE  createdAt'[c] = createdAt[c]
        BY <4>2 DEF Enqueue, NewRow, AbsentRow
      <4> QED BY <4>1, <4>2, StepRows
    <3>3. c \notin delivered'
      <4>1. CASE \A i \in Instances : ~ PollStep(i)
        BY <1>1, <3>1, <4>1, CalmOthers
      <4>2. ASSUME NEW i \in Instances, SendNext(i)
            PROVE  c \notin delivered'
        <5>1. \A d \in Sending(i) : d \in Inserted
          BY DEF Sending, BatchesMatchRows
        <5> QED BY <1>1, <3>1, <4>2, <5>1, CalmSend DEF Inserted
      <4>3. ASSUME NEW i \in Instances, PollStep(i), ~ SendNext(i)
            PROVE  delivered' = delivered
        BY <4>3, CalmPollStep, CalmClaim
      <4> QED BY <1>1, <3>1, <4>1, <4>2, <4>3
    <3> QED BY <1>1, <3>1, <3>2, <3>3
  <2> QED BY <2>1, <2>2
<1> QED BY <1>3, <1>4

\* What is older than a delivered command is delivered, and what is older
\* than a command being sent is delivered or being sent with it.
LEMMA OrderedStep ==
  ASSUME IInv, Orderly, [Next]_vars
  PROVE  Ordered'
<1> USE DEF IInv, TypeOK
<1> SUFFICES ASSUME NEW c \in Commands, NEW d \in Commands, Earlier(c, d)'
             PROVE  /\ d \in delivered' => c \in delivered'
                    /\ \A i \in Instances : d \in Sending(i)' => c \in delivered' \cup Sending(i)'
  BY DEF Ordered
<1>1. delivered \subseteq delivered'
  BY StepRows
<1>2. ASSUME Earlier(c, d)
      PROVE  /\ d \in delivered => c \in delivered
             /\ \A i \in Instances : d \in Sending(i) => c \in delivered \cup Sending(i)
  BY <1>2 DEF Orderly, Ordered
<1>3. CASE \A i \in Instances : ~ PollStep(i)
  <2>1. UNCHANGED <<poll, delivered>> /\ \A i \in Instances : Sending(i)' = Sending(i)
    BY <1>3, CalmOthers DEF Sending
  <2>2. CASE d \in Inserted
    <3>1. Earlier(c, d)
      <4>1. createdAt'[d] = createdAt[d] /\ createdAt[d] \in 1..Cardinality(Inserted)
        BY <2>2, RanksStep DEF RanksDistinct
      <4>2. createdAt'[c] = createdAt[c]
        <5>1. CASE NoInsert
          BY <5>1 DEF NoInsert
        <5>2. ASSUME NEW e \in Commands, Enqueue(e)
              PROVE  createdAt'[c] = createdAt[c]
          <6>1. createdAt'[e] = Cardinality(Inserted) + 1
            BY <5>2 DEF Enqueue
          <6>2. Cardinality(Inserted) \in Nat
            BY CommandsAssumption, FS_Subset, FS_CardinalityType DEF Inserted
          <6>3. c # e
            BY <4>1, <6>1, <6>2 DEF Earlier
          <6> QED BY <5>2, <6>3 DEF Enqueue
        <5> QED BY <5>1, <5>2, StepRows
      <4> QED BY <4>1, <4>2 DEF Earlier
    <3> QED BY <1>2, <2>1, <3>1
  <2>3. CASE d \notin Inserted
    <3>1. d \notin delivered /\ \A i \in Instances : d \notin Sending(i)
      BY <2>3 DEF Orderly, LeasedAreSent, Sending, BatchesMatchRows, Inserted
    <3> QED BY <2>1, <3>1
  <2> QED BY <2>2, <2>3
<1>4. ASSUME NEW i \in Instances, PollStep(i)
      PROVE  /\ d \in delivered' => c \in delivered'
             /\ \A j \in Instances : d \in Sending(j)' => c \in delivered' \cup Sending(j)'
  <2>0. Earlier(c, d)
    BY <1>4, CalmPollStep DEF Earlier
  <2>1. \A j \in Instances \ {i} : Sending(j)' = Sending(j)
    BY <1>4, CalmPollStep DEF Sending
  <2>2. CASE Claim(i)
    <3>1. PICK S \in SUBSET Eligible(i) :
            /\ IsOldest(S, Eligible(i))
            /\ poll[i].phase = "claim" /\ Sending(i)' = S
            /\ UNCHANGED delivered
      BY <2>2, CalmClaim
    <3>2. ASSUME d \in S
          PROVE  c \in delivered \cup S
      <4>1. MachineOf[c] \in poll[i].roster /\ createdAt[c] \in 1..createdAt[d]
        BY <2>0, <3>2 DEF Eligible, Earlier
      <4>2. row[c].status # "absent"
        BY <4>1 DEF Orderly, LeasedAreSent
      <4>3. CASE row[c].status = "pending"
        <5>1. c \in Eligible(i)
          BY <4>1, <4>3 DEF Eligible
        <5>2. c \notin S => createdAt[d] < createdAt[c]
          BY <3>1, <3>2, <5>1 DEF IsOldest
        <5> QED BY <4>1, <5>2
      <4>4. CASE row[c].status \in {"dispatching", "acked", "failed"}
        <5>1. ASSUME NEW j \in Instances, c \in Sending(j)
              PROVE  FALSE
          <6>1. /\ MachineOf[c] \in poll[j].roster /\ poll[j].phase = "dispatch"
            BY <5>1 DEF Orderly, RostersAreOpen, Sending
          <6>2. peer[j][MachineOf[c]] = "open" /\ peer[i][MachineOf[c]] = "open"
            BY <3>1, <4>1, <6>1 DEF Orderly, RostersAreOpen
          <6>3. j = i
            BY <6>2, MachineOfAssumption DEF Orderly, PeersAgree
          <6> QED BY <3>1, <6>1, <6>3
        <5> QED BY <4>4, <5>1 DEF Orderly, LeasedAreSent
      <4> QED BY <4>2, <4>3, <4>4 DEF Row, RowStatus
    <3> QED BY <1>2, <2>0, <2>1, <3>1, <3>2
  <2>3. CASE SendNext(i)
    <3>1. PICK e \in Sending(i) :
            /\ \A x \in Sending(i) : createdAt[e] =< createdAt[x]
            /\ delivered' = delivered \cup {e}
            /\ Sending(i)' = Sending(i) \ {e}
      BY <2>3, CalmSend
    <3>2. ASSUME d = e
          PROVE  c \in delivered'
      <4>1. c \in delivered \/ c \in Sending(i)
        BY <1>2, <2>0, <3>2
      <4>2. CASE c \in Sending(i)
        <5>1. createdAt[c] = createdAt[e]
          <6>1. createdAt[c] \in Nat /\ createdAt[e] \in Nat
            BY <3>2
          <6>2. createdAt[c] =< createdAt[e] /\ createdAt[e] =< createdAt[c]
            BY <2>0, <3>1, <3>2, <4>2, <6>1 DEF Earlier
          <6>3. \A x, y \in Nat : x =< y /\ y =< x => x = y
            OBVIOUS
          <6> HIDE DEF IInv, TypeOK
          <6> QED BY <6>1, <6>2, <6>3
        <5>2. c \in Inserted /\ e \in Inserted
          BY <4>2 DEF Sending, BatchesMatchRows
        <5>3. c = e
          BY <5>1, <5>2 DEF RanksDistinct
        <5> QED BY <3>1, <5>3
      <4> QED BY <1>1, <4>1, <4>2
    <3> QED BY <1>1, <1>2, <2>0, <2>1, <3>1, <3>2
  <2>4. CASE ~ Claim(i) /\ ~ SendNext(i)
    <3>1. delivered' = delivered /\ Sending(i)' = {}
      BY <1>4, <2>4, CalmPollStep DEF Sending
    <3> QED BY <1>2, <2>0, <2>1, <3>1
  <2> QED BY <2>2, <2>3, <2>4
<1> QED BY <1>3, <1>4

\* The budget of faults stays used up.
LEMMA CalmStays ==
  ASSUME IInv, Orderly, [Next]_vars
  PROVE  Calm'
<1>1. UNCHANGED faultsLeft
  BY CalmPollStep, CalmOthers
<1> QED BY <1>1 DEF Orderly, Calm

\* While nothing fails, a machine first receives its commands in the order
\* they were committed, whatever the number of processes and the limit of a
\* batch, and whenever leases lapse or a process shuts down.
THEOREM OrderOfFirstDelivery ==
  ASSUME Faults = 0, Unlimited # 0, ~ RollingUpgrade
  PROVE  Spec => []FirstDeliveryInOrder
<1>1. Init => ReleasedIsQuiet /\ Orderly
  BY DEF Init, ReleasedIsQuiet, Orderly, Calm, PeersAgree, RostersAreOpen, LeasedAreSent, Ordered,
     Sending, IdlePoll, AbsentRow
<1>2. IInv /\ ReleasedIsQuiet /\ Orderly /\ [Next]_vars => (ReleasedIsQuiet /\ Orderly)'
  <2> SUFFICES ASSUME IInv, ReleasedIsQuiet, Orderly, [Next]_vars
               PROVE  ReleasedIsQuiet' /\ Orderly'
    OBVIOUS
  <2>1. ReleasedIsQuiet'
    BY QuietStep
  <2>2. Calm' /\ PeersAgree' /\ RostersAreOpen' /\ LeasedAreSent' /\ Ordered'
    BY CalmStays, PeersStep, RostersStep, LeasedStep, OrderedStep
  <2> QED BY <2>1, <2>2 DEF Orderly
<1>3. Orderly => FirstDeliveryInOrder
  BY DEF Orderly, Ordered, Earlier, FirstDeliveryInOrder
<1> QED BY <1>1, <1>2, <1>3, Invariance, PTL DEF Spec

-----------------------------------------------------------------------------
(* The router implements CommandQueue.                                     *)

\* The refinement mapping, by name.
Answered == {"acked", "failed"}
Outcome == [c \in Commands |-> IF row[c].status \in Answered THEN row[c].status ELSE "open"]
Reconciled == {c \in Commands : row[c].status = "failed" /\ row[c].recon = "complete"}
Mapped == <<Inserted, delivered, Outcome, noted, Reconciled>>

\* A row that changes in nothing the queue can see.
Alike(c) ==
  /\ \/ row'[c].status = row[c].status
     \/ row[c].status \in {"pending", "dispatching"} /\ row'[c].status \in {"pending", "dispatching"}
  /\ row[c].status = "failed" => (row'[c].recon = "complete" <=> row[c].recon = "complete")

\* If that is all that happens to the rows, the mapped queue stands still.
LEMMA AlikeRows ==
  ASSUME \A c \in Commands : Alike(c)
  PROVE  Inserted' = Inserted /\ Outcome' = Outcome /\ Reconciled' = Reconciled
  BY DEF Alike, Inserted, Outcome, Reconciled, Answered

\* A step of a poll hands one command over, records one failure, reconciles
\* one, or shows nothing.
LEMMA PollStepMaps ==
  ASSUME IInv, NEW i \in Instances, PollStep(i)
  PROVE  Queue!Next \/ UNCHANGED Mapped
<1> USE DEF Mapped
<1>1. CASE PollBegins(i) \/ JobsDone(i) \/ NoPeerForNext(i) \/ PollEnds(i) \/ PollFails(i)
  <2>1. UNCHANGED <<row, delivered, noted>>
    BY <1>1 DEF PollBegins, JobsDone, NoPeerForNext, PollEnds, PollFails, Step, Stop
  <2> QED BY <2>1, AlikeRows DEF Alike
<1>2. CASE FreeLapsedJobs(i)
  <2>1. \A c \in Commands : Alike(c)
    BY <1>2, Columns DEF FreeLapsedJobs, LapsedJobs, Update, Alike, IInv, TypeOK
  <2> QED BY <1>2, <2>1, AlikeRows DEF FreeLapsedJobs
<1>3. CASE ClaimJobs(i)
  <2>1. PICK S \in SUBSET OpenJobs :
          /\ row' = [c \in Commands |-> IF c \in S THEN ReconLeased(row[c], i) ELSE row[c]]
          /\ UNCHANGED <<delivered, noted, faultsLeft>>
    BY <1>3 DEF ClaimJobs, Update
  <2>2. \A c \in Commands : Alike(c)
    BY <2>1, Columns DEF OpenJobs, Alike, IInv, TypeOK
  <2> QED BY <2>1, <2>2, AlikeRows
<1>4. CASE NoteFailure(i) \/ NoteFailureFails(i)
  <2>1. /\ First(i) # {} /\ poll[i].phase = "jobs" /\ UNCHANGED <<row, delivered>>
        /\ noted' \in {noted, noted \cup First(i)}
    BY <1>4 DEF NoteFailure, NoteFailureFails, Step
  <2>2. PICK c \in Commands : First(i) = {c} /\ c \in poll[i].batch
    BY <2>1, OneFirst
  <2>3. Inserted' = Inserted /\ Outcome' = Outcome /\ Reconciled' = Reconciled
    BY <2>1, AlikeRows DEF Alike
  <2>4. Outcome[c] = "failed"
    BY <2>1, <2>2 DEF IInv, BatchesMatchRows, Outcome, Answered
  <2>5. CASE noted' = noted
    BY <2>1, <2>3, <2>5
  <2>6. CASE noted' = noted \cup {c}
    <3>1. Queue!Record(c)
      BY <2>1, <2>3, <2>4, <2>6 DEF Queue!Record, Outcome, Reconciled, Answered
    <3> QED BY <3>1 DEF Queue!Next
  <2> QED BY <2>1, <2>2, <2>5, <2>6
<1>5. CASE CloseJob(i)
  <2>1. UNCHANGED <<delivered, noted>> /\ poll[i].phase = "closeJob"
    BY <1>5 DEF CloseJob, Step
  <2>2. CASE \A c \in First(i) : ~ OwnJob(i, c)
    <3>1. row' = row
      BY <1>5, <2>2 DEF CloseJob, Update, IInv, TypeOK
    <3> QED BY <2>1, <3>1, AlikeRows DEF Alike
  <2>3. CASE row' = row
    BY <2>1, <2>3, AlikeRows DEF Alike
  <2>4. CASE row' # row /\ \E c \in First(i) : OwnJob(i, c)
    <3>1. PICK c \in Commands : First(i) = {c} /\ OwnJob(i, c)
      BY <2>4, OneFirst
    <3>2. row' = [d \in Commands |-> IF d = c THEN ReconClosed(row[d]) ELSE row[d]]
      BY <1>5, <2>4, <3>1 DEF CloseJob, Update
    <3>3. /\ row[c].status = "failed" /\ row'[c].status = "failed" /\ row'[c].recon = "complete"
          /\ \A d \in Commands \ {c} : row'[d] = row[d]
      <4>1. row[c] \in Row /\ row[c].status = "failed"
        BY <3>1 DEF OwnJob, IInv, TypeOK
      <4>2. row'[c] = ReconClosed(row[c]) /\ \A d \in Commands \ {c} : row'[d] = row[d]
        BY <3>2
      <4>3. ReconClosed(row[c]).recon = "complete" /\ ReconClosed(row[c]).status = row[c].status
        BY <4>1 DEF ReconClosed, Row
      <4> QED BY <4>1, <4>2, <4>3
    <3>4. c \in noted
      BY <2>1, <3>1 DEF IInv, BatchesMatchRows
    <3>5. Inserted' = Inserted /\ Outcome' = Outcome /\ Reconciled' = Reconciled \cup {c}
      BY <3>3 DEF Inserted, Outcome, Reconciled, Answered
    <3>6. Queue!Reconcile(c)
      BY <2>1, <3>4, <3>5 DEF Queue!Reconcile, Outcome, Reconciled, Answered
    <3> QED BY <3>6 DEF Queue!Next
  <2> QED BY <2>2, <2>3, <2>4
<1>6. CASE ExpireLeases(i)
  <2>1. \A c \in Commands : Alike(c)
    BY <1>6, Columns DEF ExpireLeases, LapsedLeases, Update, Alike, IInv, TypeOK
  <2> QED BY <1>6, <2>1, AlikeRows DEF ExpireLeases
<1>7. CASE Claim(i)
  <2>1. PICK S \in SUBSET Eligible(i) :
          /\ row' = [c \in Commands |-> IF c \in S THEN Leased(row[c], i) ELSE row[c]]
          /\ UNCHANGED <<delivered, noted>>
    BY <1>7 DEF Claim, Update
  <2>2. \A c \in Commands : Alike(c)
    BY <2>1, Columns DEF Eligible, Alike, IInv, TypeOK
  <2> QED BY <2>1, <2>2, AlikeRows
<1>8. CASE SendNext(i)
  <2>1. /\ First(i) # {} /\ UNCHANGED <<row, noted>>
        /\ \E c \in First(i) : delivered' \in {delivered, delivered \cup {c}}
    BY <1>8 DEF SendNext
  <2>2. PICK c \in Commands : First(i) = {c} /\ c \in Inserted
    BY <2>1, OneFirst
  <2>3. Inserted' = Inserted /\ Outcome' = Outcome /\ Reconciled' = Reconciled
    BY <2>1, AlikeRows DEF Alike
  <2>4. CASE delivered' = delivered
    BY <2>1, <2>3, <2>4
  <2>5. CASE delivered' = delivered \cup {c}
    <3>1. Queue!Hand(c)
      BY <2>1, <2>2, <2>3, <2>5 DEF Queue!Hand, Outcome, Reconciled, Answered
    <3> QED BY <3>1 DEF Queue!Next
  <2> QED BY <2>1, <2>2, <2>4, <2>5
<1>9. CASE GiveBack(i)
  <2>1. \A c \in Commands : Alike(c)
    BY <1>9, Columns DEF GiveBack, OwnLease, Update, Alike, IInv, TypeOK
  <2> QED BY <1>9, <2>1, AlikeRows DEF GiveBack
<1> QED BY <1>1, <1>2, <1>3, <1>4, <1>5, <1>6, <1>7, <1>8, <1>9 DEF PollStep

\* One settled row is one Settle step of the queue.
LEMMA SettleMaps ==
  ASSUME IInv, NEW c \in Commands, NEW verdict \in Answered,
         c \in delivered, row[c].status = "dispatching",
         row'[c].status = verdict, verdict = "failed" => row'[c].recon # "complete",
         \A d \in Commands \ {c} : row'[d] = row[d],
         UNCHANGED <<delivered, noted>>
  PROVE  Queue!Settle(c, verdict)
<1>1. Inserted' = Inserted /\ Reconciled' = Reconciled
  BY DEF Inserted, Reconciled, Answered
<1>2. Outcome[c] = "open" /\ Outcome' = [Outcome EXCEPT ![c] = verdict]
  BY DEF Outcome, Answered
<1> QED BY <1>1, <1>2 DEF Queue!Settle, Outcome, Reconciled, Answered

\* An answer settles a command that was handed over; nothing else of a
\* process is visible.
LEMMA ProcessStepMaps ==
  ASSUME IInv, NEW i \in Instances, ProcessStep(i)
  PROVE  Queue!Next \/ UNCHANGED Mapped
<1> USE DEF Mapped
<1>1. CASE CloseBegins(i) \/ Crash(i)
  BY <1>1, AlikeRows DEF CloseBegins, Crash, Alike
<1>2. CASE ReleaseRows(i)
  <2>1. \A c \in Commands : Alike(c)
    BY <1>2, Columns DEF ReleaseRows, OwnLease, Update, Alike, IInv, TypeOK
  <2> QED BY <1>2, <2>1, AlikeRows DEF ReleaseRows
<1>3. CASE ReleaseJobs(i)
  <2>1. \A c \in Commands : Alike(c)
    BY <1>3, Columns DEF ReleaseJobs, Update, Alike, IInv, TypeOK
  <2> QED BY <1>3, <2>1, AlikeRows DEF ReleaseJobs
<1>4. ASSUME NEW m \in Machines, Connect(i, m) \/ ConnectionBreaks(i, m) \/ CloseNoticed(i, m)
      PROVE  UNCHANGED Mapped
  <2>1. UNCHANGED <<row, delivered, noted>>
    BY <1>4 DEF Connect, ConnectionBreaks, CloseNoticed
  <2> QED BY <2>1, AlikeRows DEF Alike
<1>5. ASSUME NEW c \in Commands, NEW ok \in BOOLEAN, Acknowledge(i, c, ok)
      PROVE  Queue!Next
  <2> DEFINE verdict == IF ok THEN "acked" ELSE "failed"
  <2>1. /\ row'[c].status = verdict
        /\ row'[c].status = "failed" => row'[c].recon = "pending"
    BY <1>5 DEF Acknowledge, Trigger, Settled, ReconClosed, ReconQueued, IInv, TypeOK, Row
  <2>2. /\ c \in delivered /\ row[c].status = "dispatching"
        /\ \A d \in Commands \ {c} : row'[d] = row[d]
        /\ UNCHANGED <<delivered, noted>>
    BY <1>5 DEF Acknowledge, OwnLease, IInv, TypeOK
  <2>3. Queue!Settle(c, verdict)
    <3>1. verdict \in Answered
      BY DEF Answered
    <3>2. verdict = "failed" => row'[c].recon # "complete"
      BY <2>1
    <3> HIDE DEF verdict
    <3> QED BY <2>1, <2>2, <3>1, <3>2, SettleMaps
  <2> QED BY <2>3 DEF Queue!Next, Answered
<1> QED BY <1>1, <1>2, <1>3, <1>4, <1>5 DEF ProcessStep

\* Callers submit; the previous version hands over and settles.
LEMMA CommandStepMaps ==
  ASSUME IInv, NEW c \in Commands, CommandStep(c)
  PROVE  Queue!Next \/ UNCHANGED Mapped
<1> USE DEF Mapped
<1>1. CASE Enqueue(c)
  <2>1. /\ row[c].status = "absent" /\ row'[c].status = "pending"
        /\ \A d \in Commands \ {c} : row'[d] = row[d]
        /\ UNCHANGED <<delivered, noted>>
    BY <1>1 DEF Enqueue, NewRow, AbsentRow, IInv, TypeOK
  <2>2. Inserted' = Inserted \cup {c} /\ Outcome' = Outcome /\ Reconciled' = Reconciled
    BY <2>1 DEF Inserted, Outcome, Reconciled, Answered
  <2>3. Queue!Submit(c)
    BY <2>1, <2>2 DEF Queue!Submit, Outcome, Reconciled, Answered
  <2> QED BY <2>3 DEF Queue!Next
<1>2. CASE OldProcessSends(c)
  <2>1. /\ row[c].status = "pending" /\ row'[c].status = "dispatching"
        /\ \A d \in Commands \ {c} : row'[d] = row[d]
        /\ noted' = noted /\ delivered' = delivered \cup {c}
    BY <1>2 DEF OldProcessSends, Leased, IInv, TypeOK, Row
  <2>2. Inserted' = Inserted /\ Outcome' = Outcome /\ Reconciled' = Reconciled
    BY <2>1, AlikeRows DEF Alike
  <2>3. Queue!Hand(c)
    BY <2>1, <2>2 DEF Queue!Hand, Inserted, Outcome, Reconciled, Answered
  <2> QED BY <2>3 DEF Queue!Next
<1>3. CASE OldProcessFails(c)
  <2>1. /\ c \in delivered /\ row[c].status = "dispatching"
        /\ \A d \in Commands \ {c} : row'[d] = row[d]
        /\ UNCHANGED <<delivered, noted>>
    BY <1>3 DEF OldProcessFails, OwnLease, IInv, TypeOK, OldProcessDelivers
  <2>2. row'[c].status = "failed" /\ row'[c].recon # "complete"
    BY <1>3, <2>1 DEF OldProcessFails, Trigger, ReconQueued, IInv, TypeOK, Row
  <2>3. Queue!Settle(c, "failed")
    BY <2>1, <2>2, SettleMaps DEF Answered
  <2> QED BY <2>3 DEF Queue!Next
<1>4. CASE LeaseLapses(c) \/ JobLeaseLapses(c)
  <2>1. UNCHANGED <<delivered, noted>>
    BY <1>4 DEF LeaseLapses, JobLeaseLapses
  <2>2. \A d \in Commands : Alike(d)
    <3>1. CASE LeaseLapses(c)
      BY <3>1 DEF LeaseLapses, Alike, IInv, TypeOK, Row
    <3>2. CASE JobLeaseLapses(c)
      BY <3>2 DEF JobLeaseLapses, Alike, IInv, TypeOK, Row
    <3> QED BY <1>4, <3>1, <3>2
  <2> QED BY <2>1, <2>2, AlikeRows
<1> QED BY <1>1, <1>2, <1>3, <1>4 DEF CommandStep

\* The router implements the queue.
THEOREM RouterImplementsQueue == Spec => ImplementsQueue
<1>1. Init => Queue!Init
  <2>1. Init => Inserted = {} /\ Reconciled = {}
    BY DEF Init, Inserted, Reconciled, AbsentRow
  <2> QED BY <2>1 DEF Init, Queue!Init, AbsentRow, Reconciled
<1>2. IInv /\ [Next]_vars => [Queue!Next]_(Queue!vars)
  <2> SUFFICES ASSUME IInv, [Next]_vars
               PROVE  Queue!Next \/ UNCHANGED Mapped
    BY DEF Queue!vars, Mapped, Outcome, Reconciled, Answered
  <2>1. CASE UNCHANGED vars
    BY <2>1, AlikeRows DEF vars, Mapped, Alike
  <2> QED BY <2>1, PollStepMaps, ProcessStepMaps, CommandStepMaps DEF Next
<1> QED BY <1>1, <1>2, Invariance, PTL DEF Spec, ImplementsQueue, Queue!Spec
=============================================================================
