------------------------------ MODULE WorkItems ------------------------------
(***************************************************************************)
(* The canonical work items in PostgreSQL: the rows, the event table, and  *)
(* the requests that create and transition items.  A request runs one      *)
(* READ COMMITTED transaction, of which every statement that may wait or   *)
(* see another transaction is one action, and looks once more for an event *)
(* of its command when the transaction failed (#replayAfterRace).          *)
(*                                                                         *)
(* Slots are request handlers, reused for ever, so that a client may retry *)
(* a command, or use it twice with different meanings, at any time.        *)
(***************************************************************************)
EXTENDS Integers, Sequences, FiniteSets

CONSTANTS
  Items,      \* work item ids
  Commands,   \* command ids
  Asks,       \* what a request may ask for
  Slots,      \* request handlers
  Faults,     \* how many faults may occur, or Unlimited
  Unlimited,
  None

\* WORK_ITEM_TRANSITIONS.
Transitions ==
  [backlog     |-> {"ready"},
   ready       |-> {"running", "blocked"},
   running     |-> {"blocked", "verifying", "failed", "interrupted"},
   blocked     |-> {"ready"},
   verifying   |-> {"running", "complete", "failed"},
   failed      |-> {"ready"},
   interrupted |-> {"ready", "running"},
   complete    |-> {}]

Statuses == DOMAIN Transitions

\* Everything the request digest covers: two requests with the same digest
\* ask for the same thing.
Ask == [op : {"create"}, item : Items, expected : {0}, to : {"backlog"}]
       \cup [op : {"transition"}, item : Items, expected : Nat \ {0}, to : Statuses]

ASSUME AsksAssumption == Asks \subseteq Ask
ASSUME NoneAssumption == None \notin [command : Commands, ask : Asks]
ASSUME FaultsAssumption == Faults \in Nat \/ Faults = Unlimited

VARIABLES
  row,        \* committed rows: status and version, 0 when absent
  events,     \* committed events
  request,    \* the command and the ask of each slot
  stage,      \* where the slot is
  pending,    \* the event its open transaction is about to commit
  answer,     \* the answer, or while rechecking the error it would give
  faultsLeft

work == <<request, stage, pending, answer>>
vars == <<row, events, work, faultsLeft>>

-----------------------------------------------------------------------------
Row == [status : Statuses \cup {"none"}, version : Nat]
AbsentRow == [status |-> "none", version |-> 0]

Event == [command : Commands, ask : Asks, item : Items, version : Nat,
          from : Statuses \cup {"none"}, to : Statuses]

\* The work item stored in the result column.
Result(e) == [status |-> e.to, version |-> e.version]

Stage == {"idle", "find", "row", "event", "commit", "recheck", "done"}

Refusals == {"stale", "ahead", "illegal", "exists", "missing", "reused"}
Answer == [kind : Refusals \cup {"none", "applied", "replayed", "error", "lost"},
           result : Row]
NoAnswer == [kind |-> "none", result |-> AbsentRow]

Init ==
  /\ row = [i \in Items |-> AbsentRow]
  /\ events = {}
  /\ request = [s \in Slots |-> None]
  /\ stage = [s \in Slots |-> "idle"]
  /\ pending = [s \in Slots |-> None]
  /\ answer = [s \in Slots |-> NoAnswer]
  /\ faultsLeft = Faults

Fault ==
  \/ faultsLeft = Unlimited /\ UNCHANGED faultsLeft
  \/ faultsLeft \in Nat \ {0} /\ faultsLeft' = faultsLeft - 1

Command(s) == request[s].command
Asked(s) == request[s].ask
Item(s) == Asked(s).item

\* Slot s moves on with event p in its transaction.
GoOn(s, to, p) ==
  /\ stage' = [stage EXCEPT ![s] = to]
  /\ pending' = [pending EXCEPT ![s] = p]
  /\ UNCHANGED <<request, answer>>

\* It ends, in an answer or in an error to be rechecked after the rollback.
EndIn(s, to, kind, result) ==
  /\ stage' = [stage EXCEPT ![s] = to]
  /\ pending' = [pending EXCEPT ![s] = None]
  /\ answer' = [answer EXCEPT ![s] = [kind |-> kind, result |-> result]]
  /\ UNCHANGED request

Answers(s, kind, result) == EndIn(s, "done", kind, result)
Fails(s, kind) == EndIn(s, "recheck", kind, AbsentRow)

-----------------------------------------------------------------------------
Submit(s, c, a) ==
  /\ stage[s] \in {"idle", "done"}
  /\ request' = [request EXCEPT ![s] = [command |-> c, ask |-> a]]
  /\ stage' = [stage EXCEPT ![s] = "find"]
  /\ answer' = [answer EXCEPT ![s] = NoAnswer]
  /\ UNCHANGED <<row, events, pending, faultsLeft>>

\* findReplay.
Find(s) ==
  /\ stage[s] = "find"
  /\ \/ /\ \A e \in events : e.command # Command(s)
        /\ GoOn(s, "row", None)
     \/ \E e \in events :
          /\ e.command = Command(s)
          /\ IF e.ask = Asked(s) THEN Answers(s, "replayed", Result(e))
                                 ELSE Fails(s, "reused")
  /\ UNCHANGED <<row, events, faultsLeft>>

\* Variant: a failed request never gives its connection back.
OpenForEver(s, op) ==
  /\ stage[s] \in {"event", "commit", "recheck", "done"}
  /\ Asked(s).op = op

\* The transaction of s holds the row it inserted or locked.
Open(s, op) == stage[s] \in {"event", "commit"} /\ Asked(s).op = op

Busy(s, op) == \E t \in Slots \ {s} : Open(t, op) /\ Item(t) = Item(s)

\* The event that takes the row from old to what is asked for.
EventOf(s, old) ==
  [command |-> Command(s), ask |-> Asked(s), item |-> Item(s),
   version |-> old.version + 1, from |-> old.status, to |-> Asked(s).to]

\* INSERT waits for an uncommitted row with the same key.
InsertItem(s) ==
  /\ stage[s] = "row" /\ Asked(s).op = "create"
  /\ ~ Busy(s, "create")
  /\ IF row[Item(s)].version = 0
     THEN GoOn(s, "event", EventOf(s, AbsentRow))
     ELSE Fails(s, "exists")
  /\ UNCHANGED <<row, events, faultsLeft>>

\* SELECT ... FOR UPDATE and transitionWorkItem; the UPDATE that follows
\* changes a row nobody else can.
LockItem(s) ==
  LET old == row[Item(s)]
      a   == Asked(s)
  IN  /\ stage[s] = "row" /\ a.op = "transition"
      /\ ~ Busy(s, "transition")
      /\ \/ old.version = 0 /\ Answers(s, "missing", AbsentRow)
         \/ old.version > a.expected /\ Fails(s, "stale")
         \/ old.version \in 1..(a.expected - 1) /\ Fails(s, "ahead")
         \/ /\ old.version = a.expected
            /\ IF a.to \in Transitions[old.status]
               THEN GoOn(s, "event", EventOf(s, old))
               ELSE Fails(s, "illegal")
      /\ UNCHANGED <<row, events, faultsLeft>>

\* UNIQUE (command_id) and UNIQUE (work_item_id, version).
Clash(d, e) == d.command = e.command \/ (d.item = e.item /\ d.version = e.version)

\* Variant: command_id is not unique.
InsertEventUnchecked(s) ==
  /\ stage[s] = "event"
  /\ GoOn(s, "commit", pending[s])
  /\ UNCHANGED <<row, events, faultsLeft>>

\* INSERT waits for an uncommitted event that clashes.
InsertEvent(s) ==
  /\ stage[s] = "event"
  /\ \A t \in Slots : stage[t] = "commit" => ~ Clash(pending[s], pending[t])
  /\ IF \E e \in events : Clash(pending[s], e) THEN Fails(s, "error")
                                              ELSE GoOn(s, "commit", pending[s])
  /\ UNCHANGED <<row, events, faultsLeft>>

Committed(s) ==
  /\ row' = [row EXCEPT ![pending[s].item] = Result(pending[s])]
  /\ events' = events \cup {pending[s]}

Commit(s) ==
  /\ stage[s] = "commit"
  /\ Committed(s)
  /\ Answers(s, "applied", Result(pending[s]))
  /\ UNCHANGED faultsLeft

\* Variant: the error is reported as it is.
RecheckNot(s) ==
  /\ stage[s] = "recheck"
  /\ Answers(s, answer[s].kind, AbsentRow)
  /\ UNCHANGED <<row, events, faultsLeft>>

\* #replayAfterRace.
Recheck(s) ==
  /\ stage[s] = "recheck"
  /\ \/ /\ \A e \in events : e.command # Command(s)
        /\ Answers(s, answer[s].kind, AbsentRow)
     \/ \E e \in events :
          /\ e.command = Command(s)
          /\ IF e.ask = Asked(s) THEN Answers(s, "replayed", Result(e))
                                 ELSE Answers(s, "reused", AbsentRow)
  /\ UNCHANGED <<row, events, faultsLeft>>

-----------------------------------------------------------------------------
(* Faults.                                                                 *)

\* A statement is rejected or the connection breaks: rollback.
StatementFails(s) ==
  /\ stage[s] \in {"find", "row", "event", "commit"}
  /\ Fails(s, "error")
  /\ Fault
  /\ UNCHANGED <<row, events>>

\* COMMIT takes effect and its answer is lost.
CommitUnanswered(s) ==
  /\ stage[s] = "commit"
  /\ Committed(s)
  /\ Fails(s, "error")
  /\ Fault

RecheckFails(s) ==
  /\ stage[s] = "recheck"
  /\ Answers(s, "error", AbsentRow)
  /\ Fault
  /\ UNCHANGED <<row, events>>

\* The process dies; the client gets no answer.
Dies(s) ==
  /\ stage[s] \notin {"idle", "done"}
  /\ Answers(s, "lost", AbsentRow)
  /\ Fault
  /\ UNCHANGED <<row, events>>

-----------------------------------------------------------------------------
Step(s) == \/ Find(s) \/ InsertItem(s) \/ LockItem(s) \/ InsertEvent(s)
           \/ Commit(s) \/ Recheck(s)

Disturb(s) == \/ StatementFails(s) \/ CommitUnanswered(s) \/ RecheckFails(s) \/ Dies(s)

Next == \E s \in Slots :
          \/ \E c \in Commands, a \in Asks : Submit(s, c, a)
          \/ Step(s)
          \/ Disturb(s)

Spec == Init /\ [][Next]_vars

\* Statements are answered, and those who wait for a row or a key are served
\* in turn.
Fairness == \A s \in Slots : SF_vars(Step(s))

FairSpec == Spec /\ Fairness

-----------------------------------------------------------------------------
(* Properties.                                                             *)

\* Rows, events and the memory of each request are well formed.
TypeOK ==
  /\ row \in [Items -> Row]
  /\ events \subseteq Event
  /\ request \in [Slots -> [command : Commands, ask : Asks] \cup {None}]
  /\ stage \in [Slots -> Stage]
  /\ pending \in [Slots -> Event \cup {None}]
  /\ answer \in [Slots -> Answer]
  /\ faultsLeft \in Nat \cup {Unlimited}

\* The events of an item are a gapless chain of legal transitions that ends
\* in the row: listEvents tells how the item became what it is, whatever ran
\* concurrently and wherever a request failed.
HistoryIsAChain ==
  \A i \in Items :
    /\ \A v \in 1..row[i].version :
         \E e \in events :
           /\ e.item = i /\ e.version = v
           /\ IF v = 1 THEN e.from = "none" /\ e.to = "backlog"
              ELSE \E d \in events : /\ d.item = i /\ d.version = v - 1
                                     /\ d.to = e.from /\ e.to \in Transitions[d.to]
           /\ v = row[i].version => e.to = row[i].status
    /\ \A e \in events : e.item = i => e.version \in 1..row[i].version

\* A positive answer is the recorded effect of this very request, first
\* answer or replay, also after an ambiguous COMMIT.
PositiveMeansRecorded ==
  \A s \in Slots :
    stage[s] = "done" /\ answer[s].kind \in {"applied", "replayed"} =>
      \E e \in events : /\ e.command = Command(s) /\ e.ask = Asked(s)
                        /\ Result(e) = answer[s].result

\* A request that is refused because of the state of the item has no effect,
\* and none of its retries has: a duplicate that lost a race against the
\* first try is never told that its version is stale or its item exists.
RefusedMeansNoEffect ==
  \A s \in Slots :
    stage[s] = "done" /\ answer[s].kind \in {"stale", "illegal", "exists"} =>
      \A e \in events : ~ (e.command = Command(s) /\ e.ask = Asked(s))

\* The inductive invariant behind these: what an open transaction has computed
\* still follows from the committed row, no other transaction holds that row,
\* what is ready to commit clashes with nothing, and the reason for a refusal
\* lasts.
EventsAreUnique == \A d, e \in events : Clash(d, e) => d = e

RequestsAreThere == \A s \in Slots : stage[s] # "idle" => request[s] # None

InTransaction(s) == stage[s] \in {"event", "commit"}

Follows(s, old) ==
  IF Asked(s).op = "create" THEN old = AbsentRow
  ELSE old.version = Asked(s).expected /\ Asked(s).to \in Transitions[old.status]

PendingFollows ==
  \A s \in Slots : InTransaction(s) =>
    /\ Follows(s, row[Item(s)])
    /\ pending[s] = EventOf(s, row[Item(s)])

OneHolder ==
  \A s, t \in Slots : InTransaction(s) /\ InTransaction(t) /\ Item(s) = Item(t) => s = t

CommitsAreFree ==
  \A s \in Slots : stage[s] = "commit" =>
    /\ \A e \in events : ~ Clash(pending[s], e)
    /\ \A t \in Slots : stage[t] = "commit" /\ Command(s) = Command(t) => s = t

AbsentMeansNone == \A i \in Items : row[i].version = 0 <=> row[i].status = "none"

ReasonLasts ==
  \A s \in Slots : stage[s] \in {"recheck", "done"} =>
    LET a == Asked(s)
        r == row[Item(s)]
    IN  /\ stage[s] = "recheck" => answer[s].kind \notin {"applied", "replayed"}
        /\ answer[s].kind = "exists" => a.op = "create" /\ r.version > 0
        /\ answer[s].kind = "stale" => a.op = "transition" /\ r.version > a.expected
        /\ answer[s].kind = "illegal" =>
             /\ a.op = "transition"
             /\ \/ r.version > a.expected
                \/ r.version = a.expected /\ a.to \notin Transitions[r.status]

IInv == /\ TypeOK /\ HistoryIsAChain /\ EventsAreUnique /\ RequestsAreThere
        /\ PendingFollows /\ OneHolder /\ CommitsAreFree /\ AbsentMeansNone
        /\ ReasonLasts /\ PositiveMeansRecorded /\ RefusedMeansNoEffect

\* Every request is answered, although transactions wait for one another.
EveryRequestIsAnswered ==
  \A s \in Slots : stage[s] = "find" ~> stage[s] = "done"

\* The event table is a WorkItemJournal.
Entry(i, v) ==
  LET e == CHOOSE x \in events : x.item = i /\ x.version = v
  IN  [command |-> e.command, to |-> e.to]

Journal == INSTANCE WorkItemJournal WITH
  journal <- [i \in Items |-> [v \in 1..row[i].version |-> Entry(i, v)]]

\* Each step of the work items is an entry in one journal, or none.
ImplementsJournal == Journal!Spec
=============================================================================
