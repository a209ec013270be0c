---------------------------- MODULE RealtimeFanout ----------------------------
(***************************************************************************)
(* How the web clients of several API processes learn of state changes:    *)
(* each process queues events, persists them one by one under a global     *)
(* lock, is notified of every commit, reads the table from where it was,   *)
(* and sends what it finds to its clients.  A client gets a snapshot when  *)
(* it connects or after a gap, or a replay when it comes back with a       *)
(* cursor.                                                                 *)
(*                                                                         *)
(* Every statement that another process may interleave with is an action;  *)
(* what a process does with its result until the next await is part of it. *)
(* Each change is to a resource of its own.                                *)
(***************************************************************************)
EXTENDS Integers, Sequences, FiniteSets

CONSTANTS
  Changes,     \* state changes, each announced by one event
  Processes,   \* API processes
  Clients,     \* browsers
  MaxQueued,   \* capacity of a publish queue
  MaxReplay,   \* replayAfter's maxEvents
  FaultKinds,  \* faults that may occur
  MaxFaults,   \* and how many of them
  Marker,      \* the realtime.resync_required event
  None

ASSUME BoundsAssumption ==
  MaxQueued \in Nat \ {0} /\ MaxReplay \in Nat /\ MaxFaults \in Nat
ASSUME MarkerAssumption == Marker \notin Changes
ASSUME NoneAssumption == None \notin Nat /\ None \notin Processes

VARIABLES
  made,        \* changes whose state is committed
  seq,         \* last value of the event id sequence
  log,         \* every event ever committed
  floor,       \* events up to this id have been deleted
  state,       \* of each process
  queue,       \* its publishQueue
  overflowed,
  flush,       \* what #flushPublishQueue is doing
  listening,   \* is its LISTEN connection alive?
  notices,     \* notifications on the way to it
  last,        \* its lastEventId
  drain,       \* what #drain is doing
  client,      \* each browser and its entry in clientSockets
  faults,
  skipped      \* history: ids some process has passed without delivering

database == <<made, seq, log, floor>>
publisher == <<queue, overflowed, flush>>
listener == <<listening, notices, last, drain>>
vars == <<database, state, publisher, listener, client, faults, skipped>>

-----------------------------------------------------------------------------
Row == [id : Nat \ {0}, event : Changes \cup {Marker}]

\* The table.
Rows == {r \in log : r.id > floor}

Ids(S) == {r.id : r \in S}
First(S) == IF S = {} THEN 0
            ELSE CHOOSE n \in Ids(S) : \A m \in Ids(S) : n <= m
Latest(S) == CHOOSE n \in Ids(S) \cup {0} : \A m \in Ids(S) : m <= n
News(S) == {r.event : r \in S} \ {Marker}

IdleFlush == [at |-> "idle", id |-> 0, written |-> 0]
IdleDrain == [at |-> "off", again |-> FALSE, first |-> 0, latest |-> 0, water |-> 0]
Offline == [at |-> "off", home |-> None, seen |-> None, pending |-> {},
            cursor |-> 0, held |-> {}, knows |-> {}, owed |-> {}]

Init ==
  /\ made = {} /\ seq = 0 /\ log = {} /\ floor = 0
  /\ state = [p \in Processes |-> "up"]
  /\ queue = [p \in Processes |-> <<>>]
  /\ overflowed = [p \in Processes |-> FALSE]
  /\ flush = [p \in Processes |-> IdleFlush]
  /\ listening = [p \in Processes |-> TRUE]
  /\ notices = [p \in Processes |-> 0]
  /\ last = [p \in Processes |-> 0]
  /\ drain = [p \in Processes |-> IdleDrain]
  /\ client = [k \in Clients |-> Offline]
  /\ faults = <<>> /\ skipped = {}

Fault(kind) ==
  /\ kind \in FaultKinds /\ Len(faults) < MaxFaults
  /\ faults' = Append(faults, kind)

-----------------------------------------------------------------------------
(* Publishing.                                                             *)

\* #flushPublishQueue goes on unless it is at it already.
Kick(p) ==
  IF flush[p].at = "idle" THEN [flush EXCEPT ![p].at = "begin"] ELSE flush

\* A handler commits a change and publishes it; an event beyond the capacity
\* of the queue is dropped.
Change(p, c) ==
  /\ c \notin made
  /\ state[p] = "up"
  /\ made' = made \cup {c}
  /\ \/ overflowed[p] /\ UNCHANGED publisher
     \/ /\ ~ overflowed[p]
        /\ IF Len(queue[p]) >= MaxQueued
           THEN overflowed' = [overflowed EXCEPT ![p] = TRUE] /\ UNCHANGED queue
           ELSE queue' = [queue EXCEPT ![p] = Append(@, c)] /\ UNCHANGED overflowed
        /\ flush' = Kick(p)
  /\ UNCHANGED <<seq, log, floor, state, listener, client, faults, skipped>>

\* The retry timer.
Retry(p) ==
  /\ state[p] # "closed" /\ queue[p] # <<>> /\ flush[p].at = "idle"
  /\ flush' = Kick(p)
  /\ UNCHANGED <<database, state, queue, overflowed, listener, client, faults, skipped>>

Locked == \E p \in Processes : flush[p].at = "drawn"

\* Variant: no lock.
DrawUnlocked(p) ==
  /\ flush[p].at = "begin"
  /\ seq' = seq + 1
  /\ flush' = [flush EXCEPT ![p].at = "drawn",
                            ![p].id = IF flush[p].written > floor
                                      THEN flush[p].written ELSE seq + 1]
  /\ UNCHANGED <<made, log, floor, state, queue, overflowed, listener, client, faults, skipped>>

\* #persist takes the lock and inserts: a new id is drawn, and thrown away if
\* the event has a row already.
Draw(p) ==
  /\ flush[p].at = "begin" /\ ~ Locked
  /\ seq' = seq + 1
  /\ flush' = [flush EXCEPT ![p].at = "drawn",
                            ![p].id = IF flush[p].written > floor
                                      THEN flush[p].written ELSE seq + 1]
  /\ UNCHANGED <<made, log, floor, state, queue, overflowed, listener, client, faults, skipped>>

\* COMMIT makes the row visible and notifies every listener.
Committed(p) ==
  /\ log' = log \cup {[id |-> flush[p].id, event |-> Head(queue[p])]}
  /\ notices' = [q \in Processes |-> notices[q] + IF listening[q] THEN 1 ELSE 0]
  /\ UNCHANGED <<made, seq, floor, state, listening, last, drain, client, skipped>>

\* Variant: an overflow leaves no marker.
CommitNoMarker(p) ==
  /\ flush[p].at = "drawn"
  /\ Committed(p)
  /\ queue' = [queue EXCEPT ![p] = Tail(@)]
  /\ overflowed' = [overflowed EXCEPT ![p] = overflowed[p] /\ Len(queue[p]) > 1]
  /\ flush' = [flush EXCEPT ![p] =
                 [IdleFlush EXCEPT !.at = IF queue'[p] = <<>> THEN "idle" ELSE "begin"]]
  /\ UNCHANGED faults

\* The end of one turn of #flushPublishQueue: the marker follows the last
\* event of an overflowed queue.
Commit(p) ==
  /\ flush[p].at = "drawn"
  /\ Committed(p)
  /\ IF Len(queue[p]) = 1 /\ overflowed[p]
     THEN /\ queue' = [queue EXCEPT ![p] = <<Marker>>]
          /\ overflowed' = [overflowed EXCEPT ![p] = FALSE]
     ELSE queue' = [queue EXCEPT ![p] = Tail(@)] /\ UNCHANGED overflowed
  /\ flush' = [flush EXCEPT ![p] =
                 [IdleFlush EXCEPT !.at = IF queue'[p] = <<>> THEN "idle" ELSE "begin"]]
  /\ UNCHANGED faults

\* A statement is rejected: rollback, retry later.
PersistFails(p) ==
  /\ flush[p].at \in {"begin", "drawn"}
  /\ Fault("persist")
  /\ flush' = [flush EXCEPT ![p].at = "idle", ![p].id = 0]
  /\ UNCHANGED <<database, state, queue, overflowed, listener, client, skipped>>

\* COMMIT takes effect and its answer is lost.
CommitUnanswered(p) ==
  /\ flush[p].at = "drawn"
  /\ Fault("answer")
  /\ Committed(p)
  /\ flush' = [flush EXCEPT ![p] = [IdleFlush EXCEPT !.written = flush[p].id]]
  /\ UNCHANGED <<queue, overflowed>>

-----------------------------------------------------------------------------
(* Delivering.                                                             *)

\* resyncClients, for one client: one that is resyncing is passed over, and is
\* owed what its snapshot or replay may have read too early.
Refreshed(c) ==
  CASE c.at = "live" -> [c EXCEPT !.at = "cursor"]
    [] c.at \in {"send", "replay", "replayed"} -> [c EXCEPT !.owed = made]
    [] OTHER -> c

\* onGap.
Gap(p) == [k \in Clients |-> IF client[k].home = p THEN Refreshed(client[k]) ELSE client[k]]

\* broadcastLocal for the rows S in order, up to and after the first marker.
Sent(c, S) ==
  LET marks == {r \in S : r.event = Marker}
      fresh == {r \in S \ marks : c.seen = None \/ r.id > c.seen}
      now   == IF c.at = "live" THEN {r \in fresh : \A m \in marks : r.id < m.id} ELSE {}
      d     == IF marks = {} THEN c ELSE Refreshed(c)
  IN  [d EXCEPT !.knows = @ \cup News(now),
                !.seen = IF now = {} THEN @ ELSE Latest(now),
                !.pending = @ \cup (fresh \ now)]

\* #drain, or a note to do it again.
Drained(p) ==
  IF drain[p].at = "off" THEN [drain EXCEPT ![p].at = "bounds"]
                         ELSE [drain EXCEPT ![p].again = TRUE]

\* The end of #drain.
DrainEnds(p) ==
  drain' = [drain EXCEPT ![p] = [IdleDrain EXCEPT !.at = IF drain[p].again THEN "bounds" ELSE "off"]]

Notice(p) ==
  /\ state[p] # "closed" /\ notices[p] > 0
  /\ notices' = [notices EXCEPT ![p] = @ - 1]
  /\ drain' = Drained(p)
  /\ UNCHANGED <<database, state, publisher, listening, last, client, faults, skipped>>

DrainBounds(p) ==
  /\ drain[p].at = "bounds"
  /\ drain' = [drain EXCEPT ![p].at = "water", ![p].first = First(Rows), ![p].latest = Latest(Rows)]
  /\ UNCHANGED <<database, state, publisher, listening, notices, last, client, faults, skipped>>

DrainWater(p) ==
  /\ drain[p].at = "water"
  /\ drain' = [drain EXCEPT ![p].at = "rows", ![p].water = seq]
  /\ UNCHANGED <<database, state, publisher, listening, notices, last, client, faults, skipped>>

\* The process goes on from id n after a gap.
PassTo(p, n) ==
  /\ last' = [last EXCEPT ![p] = n]
  /\ client' = Gap(p)
  /\ skipped' = skipped \cup ((last[p] + 1)..n)
  /\ DrainEnds(p)

\* Variant: an old position is no gap.
DrainRowsNoGap(p) ==
  LET found == {r \in Rows : r.id > last[p]}
  IN  /\ drain[p].at = "rows"
      /\ \/ found = {} /\ DrainEnds(p) /\ UNCHANGED <<last, client>>
         \/ /\ found # {}
            /\ last' = [last EXCEPT ![p] = Latest(found)]
            /\ client' = [k \in Clients |-> IF client[k].home = p
                                            THEN Sent(client[k], found) ELSE client[k]]
            /\ drain' = [drain EXCEPT ![p].at = "bounds"]
      /\ UNCHANGED <<database, state, publisher, listening, notices, faults, skipped>>

\* The rows after last are delivered, unless some are missing.
DrainRows(p) ==
  LET d     == drain[p]
      found == {r \in Rows : r.id > last[p]}
  IN  /\ d.at = "rows"
      /\ \/ d.first # 0 /\ last[p] < d.first - 1 /\ PassTo(p, d.latest)
         \/ /\ d.first = 0 \/ last[p] >= d.first - 1
            /\ found = {}
            /\ IF last[p] < d.water THEN PassTo(p, d.water)
               ELSE DrainEnds(p) /\ UNCHANGED <<last, client, skipped>>
         \/ /\ d.first = 0 \/ last[p] >= d.first - 1
            /\ found # {}
            /\ last' = [last EXCEPT ![p] = Latest(found)]
            /\ client' = [k \in Clients |-> IF client[k].home = p
                                            THEN Sent(client[k], found) ELSE client[k]]
            /\ drain' = [drain EXCEPT ![p] = [IdleDrain EXCEPT !.at = "bounds", !.again = d.again]]
            /\ skipped' = skipped \cup (((last[p] + 1)..Latest(found)) \ Ids(found))
      /\ UNCHANGED <<database, state, publisher, listening, notices, faults>>

\* A query of #drain is rejected; nothing tries it again.
DrainFails(p) ==
  /\ drain[p].at # "off"
  /\ Fault("drain")
  /\ DrainEnds(p)
  /\ UNCHANGED <<database, state, publisher, listening, notices, last, client, skipped>>

ListenerFails(p) ==
  /\ state[p] = "up" /\ listening[p]
  /\ Fault("listener")
  /\ listening' = [listening EXCEPT ![p] = FALSE]
  /\ notices' = [notices EXCEPT ![p] = 0]
  /\ UNCHANGED <<database, state, publisher, last, drain, client, skipped>>

\* #connectListener, by the reconnect timer.
Listen(p) ==
  /\ state[p] = "up" /\ ~ listening[p]
  /\ listening' = [listening EXCEPT ![p] = TRUE]
  /\ drain' = Drained(p)
  /\ UNCHANGED <<database, state, publisher, notices, last, client, faults, skipped>>

-----------------------------------------------------------------------------
(* Clients.                                                                *)

Moves(k, c) ==
  /\ client' = [client EXCEPT ![k] = c]
  /\ UNCHANGED <<database, state, publisher, listener, faults, skipped>>

\* With a cursor it asks for a replay, else for a snapshot.
Connect(k, p) ==
  LET c == client[k]
  IN  /\ c.at = "off" /\ state[p] = "up"
      /\ Moves(k, [c EXCEPT !.at = IF c.seen = None THEN "cursor" ELSE "replay",
                            !.home = p])

\* snapshotForClient: the cursor first, then the state.
ReadCursor(k) ==
  /\ client[k].at = "cursor"
  /\ Moves(k, [client[k] EXCEPT !.at = "lists", !.cursor = Latest(Rows)])

ReadLists(k) ==
  /\ client[k].at = "lists"
  /\ Moves(k, [client[k] EXCEPT !.at = "send", !.held = made, !.owed = {}])

\* What was held back while the client was resyncing.
Released(c, news, n) ==
  LET later == {r \in c.pending : r.id > n}
  IN  [c EXCEPT !.at = "live", !.pending = {}, !.cursor = 0, !.held = {},
                !.knows = news \cup News(later),
                !.seen = IF later = {} THEN n ELSE Latest(later)]

\* Variant: the cursor is read after the state.
SendSnapshotLate(k) ==
  LET c == client[k]
  IN  /\ c.at = "send"
      /\ Moves(k, Released(c, c.held, Latest(Rows)))

\* finishClientResync.
SendSnapshot(k) ==
  LET c == client[k]
  IN  /\ c.at = "send"
      /\ Moves(k, Released(c, c.held, c.cursor))

\* replayAfter: what is missing or too much is a gap.
Replay(k) ==
  LET c     == client[k]
      found == {r \in Rows : r.id > c.seen}
      gap   == \/ c.seen > Latest(Rows)
               \/ Rows # {} /\ c.seen < First(Rows) - 1
               \/ Rows = {} /\ c.seen < seq
               \/ Cardinality(found) > MaxReplay
               \/ Marker \in {r.event : r \in found}
  IN  /\ c.at = "replay"
      /\ Moves(k, IF gap THEN [c EXCEPT !.at = "cursor"]
                  ELSE [c EXCEPT !.at = "replayed", !.cursor = Latest(Rows), !.held = News(found)])

\* replayClient, after the memberships have been read again.
SendReplayed(k) ==
  LET c == client[k]
  IN  /\ c.at = "replayed"
      /\ Moves(k, Released(c, c.knows \cup c.held, c.cursor))

\* The connection ends, for any reason, a failed snapshot among them; the
\* browser keeps its state and cursor.
Gone(c) == [Offline EXCEPT !.seen = c.seen, !.knows = c.knows]

Disconnect(k) ==
  /\ client[k].at # "off"
  /\ Moves(k, Gone(client[k]))

Reload(k) ==
  /\ client[k].at = "off"
  /\ client[k] # Offline
  /\ Moves(k, Offline)

-----------------------------------------------------------------------------
(* The life of a process, and retention.                                   *)

\* close(): the clients' sockets are closed before the queue is drained.
CloseBegins(p) ==
  /\ state[p] = "up"
  /\ Fault("close")
  /\ state' = [state EXCEPT ![p] = "closing"]
  /\ client' = [k \in Clients |-> IF client[k].home = p THEN Gone(client[k]) ELSE client[k]]
  /\ UNCHANGED <<database, publisher, listener, skipped>>

Ends(p) ==
  /\ state' = [state EXCEPT ![p] = "closed"]
  /\ queue' = [queue EXCEPT ![p] = <<>>]
  /\ overflowed' = [overflowed EXCEPT ![p] = FALSE]
  /\ flush' = [flush EXCEPT ![p] = IdleFlush]
  /\ listening' = [listening EXCEPT ![p] = FALSE]
  /\ notices' = [notices EXCEPT ![p] = 0]
  /\ drain' = [drain EXCEPT ![p] = IdleDrain]
  /\ UNCHANGED <<database, last, skipped>>

CloseEnds(p) ==
  /\ state[p] = "closing" /\ queue[p] = <<>>
  /\ Ends(p)
  /\ UNCHANGED <<client, faults>>

\* The shutdown deadline passes, or the process dies.
Dies(p) ==
  /\ state[p] # "closed"
  /\ Fault("death")
  /\ Ends(p)
  /\ client' = [k \in Clients |-> IF client[k].home = p THEN Gone(client[k]) ELSE client[k]]

\* Ids that are drawn and not yet committed.
InFlight == {flush[p].id : p \in {q \in Processes : flush[q].at = "drawn"}} \ Ids(log)

\* start(): it begins at the high-water mark, before any client, and so passes
\* the ids in flight.
Restart(p) ==
  /\ state[p] = "closed"
  /\ state' = [state EXCEPT ![p] = "up"]
  /\ listening' = [listening EXCEPT ![p] = TRUE]
  /\ last' = [last EXCEPT ![p] = seq]
  /\ skipped' = skipped \cup InFlight
  /\ UNCHANGED <<database, publisher, notices, drain, client, faults>>

\* #pruneExpired.
Prune(r) ==
  /\ r \in Rows /\ \A p \in Processes : flush[p].id # r.id
  /\ Fault("prune")
  /\ floor' = r.id
  /\ UNCHANGED <<made, seq, log, state, publisher, listener, client, skipped>>

-----------------------------------------------------------------------------
Publishing(p) == Retry(p) \/ Draw(p) \/ Commit(p)
Draining(p) == DrainBounds(p) \/ DrainWater(p) \/ DrainRows(p)
Syncing(k) == ReadCursor(k) \/ ReadLists(k) \/ SendSnapshot(k) \/ Replay(k) \/ SendReplayed(k)
Disturb(p) == \/ PersistFails(p) \/ CommitUnanswered(p) \/ DrainFails(p) \/ ListenerFails(p)
              \/ CloseBegins(p) \/ Dies(p)

Next ==
  \/ \E p \in Processes :
       \/ \E c \in Changes : Change(p, c)
       \/ Publishing(p) \/ Notice(p) \/ Draining(p) \/ Listen(p)
       \/ CloseEnds(p) \/ Restart(p) \/ Disturb(p)
  \/ \E k \in Clients :
       \/ \E p \in Processes : Connect(k, p)
       \/ Syncing(k) \/ Disconnect(k) \/ Reload(k)
  \/ \E r \in log : Prune(r)

Spec == Init /\ [][Next]_vars

\* Timers fire, statements are answered and notifications arrive; the lock is
\* given to those who wait for it in turn.
Fairness ==
  /\ \A p \in Processes : /\ SF_vars(Publishing(p))
                          /\ WF_vars(Notice(p)) /\ WF_vars(Draining(p)) /\ WF_vars(Listen(p))
  /\ \A k \in Clients : WF_vars(Syncing(k))

FairSpec == Spec /\ Fairness

-----------------------------------------------------------------------------
(* Properties.                                                             *)

Flush == [at : {"idle", "begin", "drawn"}, id : Nat, written : Nat]
Drain == [at : {"off", "bounds", "water", "rows"}, again : BOOLEAN,
          first : Nat, latest : Nat, water : Nat]
Browser == [at : {"off", "cursor", "lists", "send", "replay", "replayed", "live"},
            home : Processes \cup {None}, seen : Nat \cup {None}, pending : SUBSET log,
            cursor : Nat, held : SUBSET Changes, knows : SUBSET Changes, owed : SUBSET Changes]

FaultList == {f \in Seq(FaultKinds) : Len(f) <= MaxFaults}

\* Tables, queues, positions and client entries are well formed.
TypeOK ==
  /\ made \subseteq Changes
  /\ seq \in Nat /\ floor \in 0..seq /\ skipped \subseteq Nat
  /\ log \subseteq Row /\ \A r \in log : r.id <= seq
  /\ state \in [Processes -> {"up", "closing", "closed"}]
  /\ queue \in [Processes -> Seq(Changes \cup {Marker})]
  /\ overflowed \in [Processes -> BOOLEAN]
  /\ flush \in [Processes -> Flush]
  /\ listening \in [Processes -> BOOLEAN]
  /\ notices \in [Processes -> Nat]
  /\ last \in [Processes -> Nat]
  /\ drain \in [Processes -> Drain]
  /\ client \in [Clients -> Browser]
  /\ faults \in FaultList

\* A client's cursor never passes an event whose change the client does not
\* know, unless a process has passed that event in a gap or by starting above
\* it: neither snapshots that race with events, nor replays, reconnects,
\* retention or lost notifications make a client miss one.
CursorsAreTrue ==
  \A k \in Clients, r \in log :
    client[k].seen # None /\ r.id <= client[k].seen /\ r.event # Marker =>
      r.event \in client[k].knows \/ r.id \in skipped

\* Events become visible in the order of their ids, so that a process that has
\* read one need not look for an earlier one.
CommitsInIdOrder ==
  [][\A r \in log' \ log : \A q \in log : q.id < r.id]_log

\* Every change reaches every client that stays connected, also when the queue
\* overflows, statements fail and listeners break, unless a gap passes it; a
\* drain that fails, a process that ends or events that are pruned are allowed
\* to keep it back.
ChangesAreSeen ==
  \A k \in Clients, c \in Changes :
    c \in made /\ client[k].at # "off" ~>
      \/ c \in client[k].knows \/ client[k].at = "off" \/ c \in client[k].owed
      \/ \E r \in log : r.event \in {c, Marker} /\ r.id \in skipped
      \/ \E i \in 1..Len(faults) : faults[i] \in {"drain", "close", "death", "prune"}

-----------------------------------------------------------------------------
(* The invariant that makes CommitsInIdOrder inductive.                    *)

\* A process that is writing has something to write.
BusyHasEvent == \A p \in Processes : flush[p].at # "idle" => queue[p] # <<>>

\* What was written without an answer is the event at the head of the queue.
WrittenIsHead ==
  \A p \in Processes :
    flush[p].written # 0 =>
      queue[p] # <<>> /\ [id |-> flush[p].written, event |-> Head(queue[p])] \in log

\* The advisory lock.
OneHolder ==
  \A p, q \in Processes : flush[p].at = "drawn" /\ flush[q].at = "drawn" => p = q

\* The id in hand is beyond every id in the table, or that of a row which is
\* there already.
DrawnIsNew ==
  \A p \in Processes :
    flush[p].at = "drawn" =>
      \/ flush[p].id = seq /\ seq # 0 /\ \A r \in log : r.id < seq
      \/ flush[p].id = flush[p].written /\ flush[p].written # 0

IInv == TypeOK /\ BusyHasEvent /\ WrittenIsHead /\ OneHolder /\ DrawnIsNew

-----------------------------------------------------------------------------
(* The invariant that makes CursorsAreTrue inductive.                      *)

\* K holds the change of every row up to id n, but for skipped ones and for
\* those in P, which are held back.
Covers(K, P, n) ==
  \A r \in log : r.id <= n /\ r.event # Marker =>
    r.event \in K \/ r.id \in skipped \/ r \in P

\* A change is made before its event is published.
EventsAreMade ==
  /\ \A r \in log : r.event \in made \cup {Marker}
  /\ \A p \in Processes : \A i \in 1..Len(queue[p]) : queue[p][i] \in made \cup {Marker}

IdsAreUnique == \A q, r \in log : q.id = r.id => q = r

\* No process is ahead of the sequence, nor of an id in flight that it has not
\* skipped.
PositionsAreDrawn ==
  /\ \A p \in Processes :
       /\ last[p] <= seq /\ drain[p].water <= seq /\ drain[p].latest <= seq
       /\ drain[p].first # 0 => drain[p].first <= drain[p].latest
  /\ \A p \in Processes : \A n \in InFlight : n <= last[p] => n \in skipped

\* Who is connected is connected to a process that is up, which holds back
\* only what it has read; positions of clients are ids of events.
ClientsArePlaced ==
  \A k \in Clients :
    LET c == client[k]
    IN  /\ c.at = "off" => c.home = None /\ c.pending = {}
        /\ c.at # "off" => /\ c.home \in Processes /\ state[c.home] = "up"
                           /\ \A r \in c.pending : r.id <= last[c.home]
        /\ c.seen = None => c.at \notin {"replay", "replayed", "live"}
        /\ c.seen \in Ids(log) \cup {0, None}
        /\ c.cursor \in Ids(log) \cup {0}

\* What a client will know when its snapshot or replay is sent.
Base(c) == IF c.at = "send" THEN c.held ELSE c.knows \cup c.held

\* A client knows, or is about to be sent, everything its process has passed.
ViewsAreWhole ==
  \A k \in Clients :
    LET c == client[k]
    IN  /\ c.at = "live" => Covers(c.knows, {}, last[c.home])
        /\ c.at \in {"send", "replayed"} =>
             /\ Covers(Base(c), {}, c.cursor)
             /\ c.seen # None => Covers(Base(c), {}, c.seen)
             /\ Covers(Base(c), c.pending, last[c.home])

ViewsInv == /\ EventsAreMade /\ IdsAreUnique /\ PositionsAreDrawn
            /\ ClientsArePlaced /\ ViewsAreWhole /\ CursorsAreTrue

-----------------------------------------------------------------------------
\* ADR-007: "Every API instance, including the origin, delivers events from persisted
\* rows in ID order": a row that is still there has not been passed over.
RetainedAreDelivered == \A r \in Rows : r.id \notin skipped
=============================================================================
