------------------------- MODULE RealtimeFanoutProofs -------------------------
(***************************************************************************)
(* What TLAPS proves of the fan-out, for any changes, processes, clients,  *)
(* limits and faults: tables, queues and client entries stay well formed,  *)
(* events become visible in the order of their ids, and no client's cursor *)
(* passes an event it does not know, unless a process has skipped it.      *)
(***************************************************************************)
EXTENDS RealtimeFanout, WellFoundedInduction, TLAPS

USE BoundsAssumption, MarkerAssumption, NoneAssumption

-----------------------------------------------------------------------------
(* The least and the greatest id of a set of rows.                         *)

\* A set of natural numbers has a least element.
LEMMA LeastExists ==
  ASSUME NEW S \in SUBSET Nat, S # {}
  PROVE  \E x \in S : \A y \in S : x <= y
<1>1. PICK x \in S : \A y \in S : ~ (<<y, x>> \in OpToRel(<, Nat))
  BY NatLessThanWellFounded, WFMin
<1>2. \A y \in S : x <= y
  <2> SUFFICES ASSUME NEW y \in S, y < x PROVE FALSE
    OBVIOUS
  <2>1. <<y, x>> \in Nat \X Nat /\ <<y, x>>[1] < <<y, x>>[2]
    OBVIOUS
  <2>2. <<y, x>> \in OpToRel(<, Nat)
    BY <2>1, Zenon DEF OpToRel
  <2> QED BY <1>1, <2>2
<1> QED BY <1>2

\* First and Latest are ids of the rows, or zero.
LEMMA IdsBounded ==
  ASSUME NEW n \in Nat, NEW S, \A r \in S : r.id \in Nat /\ r.id <= n
  PROVE  /\ First(S) \in 0..n
         /\ Latest(S) \in 0..n
         /\ \A r \in S : r.id <= Latest(S)
         /\ \A r \in S : First(S) <= r.id
         /\ Latest(S) \in Ids(S) \cup {0}
         /\ S # {} => First(S) \in Ids(S) /\ Latest(S) \in Ids(S)
<1>1. Ids(S) \in SUBSET Nat /\ \A m \in Ids(S) : m <= n
  BY DEF Ids
<1>2. /\ First(S) \in 0..n /\ \A r \in S : First(S) <= r.id
      /\ S # {} => First(S) \in Ids(S)
  <2>1. CASE S = {}
    BY <2>1 DEF First
  <2>2. CASE S # {}
    <3>1. Ids(S) # {}
      BY <2>2 DEF Ids
    <3>2. \E x \in Ids(S) : \A y \in Ids(S) : x <= y
      BY <1>1, <3>1, LeastExists
    <3>3. First(S) \in Ids(S) /\ \A y \in Ids(S) : First(S) <= y
      BY <2>2, <3>2 DEF First
    <3> QED BY <1>1, <3>3 DEF Ids
  <2> QED BY <2>1, <2>2
<1>3. /\ Latest(S) \in 0..n /\ \A r \in S : r.id <= Latest(S)
      /\ Latest(S) \in Ids(S) \cup {0}
      /\ S # {} => Latest(S) \in Ids(S)
  <2> DEFINE Above == {k \in Nat : \A m \in Ids(S) : m <= k}
  <2>1. PICK x \in Above : \A y \in Above : x <= y
    <3>1. n \in Above
      BY <1>1
    <3> HIDE DEF Above
    <3> QED BY <3>1, LeastExists DEF Above
  <2>2. x \in Ids(S) \cup {0}
    <3> SUFFICES ASSUME x \notin Ids(S), x # 0 PROVE FALSE
      OBVIOUS
    <3>1. x - 1 \in Nat /\ \A m \in Ids(S) : m <= x - 1
      BY <2>1, <1>1
    <3>2. x - 1 \in Above
      BY <3>1
    <3> QED BY <2>1, <3>2
  <2>3. \A m \in Ids(S) : m <= x
    BY <2>1
  <2>4. Latest(S) \in Ids(S) \cup {0} /\ \A m \in Ids(S) : m <= Latest(S)
    BY <2>2, <2>3 DEF Latest
  <2>5. S # {} => Latest(S) \in Ids(S)
    <3> SUFFICES ASSUME NEW r \in S, Latest(S) = 0 PROVE r.id = 0
      BY <2>4 DEF Ids
    <3>1. r.id \in Ids(S)
      BY DEF Ids
    <3> QED BY <1>1, <2>4, <3>1
  <2> QED BY <1>1, <2>4, <2>5 DEF Ids
<1> QED BY <1>2, <1>3

-----------------------------------------------------------------------------
(* Entries of clientSockets stay well formed.                              *)

\* News are changes.
LEMMA NewsTyped ==
  ASSUME TypeOK, NEW S \in SUBSET log
  PROVE  News(S) \subseteq Changes
BY DEF News, TypeOK, Row

\* A refreshed entry is an entry.
LEMMA RefreshedTyped ==
  ASSUME TypeOK, NEW c \in Browser
  PROVE  Refreshed(c) \in Browser
BY DEF Refreshed, TypeOK, Browser

\* So is one that rows were sent to.
LEMMA SentTyped ==
  ASSUME TypeOK, NEW c \in Browser, NEW S \in SUBSET log
  PROVE  Sent(c, S) \in Browser
<1> DEFINE marks == {r \in S : r.event = Marker}
           fresh == {r \in S \ marks : c.seen = None \/ r.id > c.seen}
           now   == IF c.at = "live" THEN {r \in fresh : \A m \in marks : r.id < m.id} ELSE {}
           d     == IF marks = {} THEN c ELSE Refreshed(c)
<1>1. now \in SUBSET log /\ fresh \ now \in SUBSET log
  OBVIOUS
<1>2. d \in Browser
  BY RefreshedTyped
<1>3. News(now) \subseteq Changes
  BY <1>1, NewsTyped
<1>4. Latest(now) \in Nat
  <2> HIDE DEF now
  <2> QED BY <1>1, IdsBounded DEF TypeOK, Row
<1>5. Sent(c, S) = [d EXCEPT !.knows = @ \cup News(now),
                             !.seen = IF now = {} THEN @ ELSE Latest(now),
                             !.pending = @ \cup (fresh \ now)]
  BY DEF Sent
<1> DEFINE knows   == d.knows \cup News(now)
           seen    == IF now = {} THEN d.seen ELSE Latest(now)
           pending == d.pending \cup (fresh \ now)
<1> HIDE DEF marks, fresh, now, d
<1>6. /\ knows \in SUBSET Changes /\ seen \in Nat \cup {None} /\ pending \in SUBSET log
  BY <1>1, <1>2, <1>3, <1>4 DEF Browser
<1> HIDE DEF knows, seen, pending
<1>7. [d EXCEPT !.knows = knows, !.seen = seen, !.pending = pending] \in Browser
  BY <1>2, <1>6 DEF Browser
<1> QED BY <1>5, <1>7 DEF knows, seen, pending

\* And one that has finished its snapshot or replay.
LEMMA ReleasedTyped ==
  ASSUME TypeOK, NEW c \in Browser, NEW news \in SUBSET Changes, NEW n \in Nat
  PROVE  Released(c, news, n) \in Browser
<1> DEFINE later == {r \in c.pending : r.id > n}
<1>1. later \in SUBSET log
  BY DEF Browser
<1>2. News(later) \subseteq Changes
  BY <1>1, NewsTyped
<1>3. Latest(later) \in Nat
  <2> HIDE DEF later
  <2> QED BY <1>1, IdsBounded DEF TypeOK, Row
<1>4. Released(c, news, n) =
        [c EXCEPT !.at = "live", !.pending = {}, !.cursor = 0, !.held = {},
                  !.knows = news \cup News(later),
                  !.seen = IF later = {} THEN n ELSE Latest(later)]
  BY DEF Released
<1> DEFINE seen == IF later = {} THEN n ELSE Latest(later)
           knows == news \cup News(later)
<1>5. seen \in Nat /\ knows \in SUBSET Changes
  BY <1>2, <1>3
<1> HIDE DEF later, seen, knows
<1>6. [c EXCEPT !.at = "live", !.pending = {}, !.cursor = 0, !.held = {},
                !.knows = knows, !.seen = seen] \in Browser
  BY <1>5 DEF Browser
<1> QED BY <1>4, <1>6 DEF seen, knows

\* A browser that is away is an entry, too.
LEMMA GoneTyped ==
  ASSUME NEW c \in Browser
  PROVE  Gone(c) \in Browser /\ Offline \in Browser
BY DEF Gone, Offline, Browser

-----------------------------------------------------------------------------
(* Type correctness.                                                       *)

\* The initial state is well formed.
LEMMA InitTyped == Init => TypeOK
<1> SUFFICES ASSUME Init PROVE TypeOK
  OBVIOUS
<1>1. Offline \in Browser
  BY DEF Offline, Browser
<1>2. IdleFlush \in Flush /\ IdleDrain \in Drain
  BY DEF IdleFlush, IdleDrain, Flush, Drain
<1>3. queue \in [Processes -> Seq(Changes \cup {Marker})]
  BY DEF Init
<1>4. floor \in 0..seq /\ faults \in FaultList
  <2>1. faults = <<>>
    BY DEF Init
  <2>2. <<>> \in FaultList
    BY BoundsAssumption DEF FaultList
  <2>3. floor \in 0..seq
    BY DEF Init
  <2> QED BY <2>1, <2>2, <2>3
<1>5. /\ flush \in [Processes -> Flush] /\ drain \in [Processes -> Drain]
      /\ client \in [Clients -> Browser]
  BY <1>1, <1>2 DEF Init
<1> QED BY <1>3, <1>4, <1>5 DEF Init, TypeOK

\* Faults are counted.
LEMMA FaultTyped ==
  ASSUME TypeOK, NEW kind, Fault(kind)
  PROVE  faults' \in FaultList
BY DEF Fault, FaultList, TypeOK

\* Entries stay well formed while the table grows.
LEMMA BrowserGrows ==
  ASSUME log \subseteq log'
  PROVE  Browser \subseteq Browser'
BY DEF Browser

\* And are the same while it does not change.
LEMMA BrowserKept ==
  ASSUME log' = log
  PROVE  Browser' = Browser
BY DEF Browser

\* #flushPublishQueue moves on with some id in hand.
LEMMA FlushTyped ==
  ASSUME TypeOK, NEW p \in Processes, NEW at \in {"idle", "begin", "drawn"}, NEW n \in Nat,
         flush' = [flush EXCEPT ![p].at = at, ![p].id = n]
  PROVE  flush' \in [Processes -> Flush]
<1>1. flush \in [Processes -> Flush]
  BY DEF TypeOK
<1>2. [flush[p] EXCEPT !.at = at, !.id = n] \in Flush
  BY <1>1 DEF Flush
<1>3. flush' = [flush EXCEPT ![p] = [flush[p] EXCEPT !.at = at, !.id = n]]
  BY <1>1
<1> QED BY <1>1, <1>2, <1>3

\* What the publisher changes stays well formed.
LEMMA PublishingTyped ==
  ASSUME TypeOK, NEW p \in Processes,
         (\E c \in Changes : Change(p, c)) \/ Retry(p) \/ Draw(p) \/ PersistFails(p)
  PROVE  TypeOK'
<1>1. Kick(p) \in [Processes -> Flush]
  <2>1. flush \in [Processes -> Flush]
    BY DEF TypeOK
  <2>2. [flush[p] EXCEPT !.at = "begin"] \in Flush
    BY <2>1 DEF Flush
  <2>3. Kick(p) = flush \/ Kick(p) = [flush EXCEPT ![p] = [flush[p] EXCEPT !.at = "begin"]]
    BY <2>1 DEF Kick
  <2> QED BY <2>1, <2>2, <2>3
<1>2. CASE \E c \in Changes : Change(p, c)
  <2>1. PICK c \in Changes : Change(p, c)
    BY <1>2
  <2>2. /\ queue' \in [Processes -> Seq(Changes \cup {Marker})]
        /\ overflowed' \in [Processes -> BOOLEAN] /\ flush' \in [Processes -> Flush]
    <3>1. Append(queue[p], c) \in Seq(Changes \cup {Marker})
      BY DEF TypeOK
    <3>2. queue' = queue \/ queue' = [queue EXCEPT ![p] = Append(queue[p], c)]
      BY <2>1 DEF Change, publisher
    <3>3. overflowed' = overflowed \/ overflowed' = [overflowed EXCEPT ![p] = TRUE]
      BY <2>1 DEF Change, publisher
    <3>4. flush' = flush \/ flush' = Kick(p)
      BY <2>1 DEF Change, publisher
    <3>5. queue' \in [Processes -> Seq(Changes \cup {Marker})]
      BY <3>1, <3>2 DEF TypeOK
    <3>6. overflowed' \in [Processes -> BOOLEAN]
      BY <3>3 DEF TypeOK
    <3> QED BY <1>1, <3>4, <3>5, <3>6 DEF TypeOK
  <2> QED BY <2>1, <2>2, BrowserKept DEF Change, TypeOK, listener
<1>3. CASE Retry(p)
  BY <1>1, <1>3, BrowserKept DEF Retry, TypeOK, database, listener
<1>4. CASE Draw(p)
  <2>1. seq' \in Nat /\ floor' \in 0..seq' /\ \A r \in log' : r.id <= seq'
    <3>1. seq \in Nat /\ floor \in 0..seq /\ \A r \in log : r.id \in Nat /\ r.id <= seq
      BY DEF TypeOK, Row
    <3>2. seq' = seq + 1 /\ floor' = floor /\ log' = log
      BY <1>4 DEF Draw
    <3> QED BY <3>1, <3>2
  <2>2. flush' \in [Processes -> Flush]
    <3> DEFINE n == IF flush[p].written > floor THEN flush[p].written ELSE seq + 1
    <3>1. flush \in [Processes -> Flush] /\ n \in Nat
      BY DEF TypeOK, Flush
    <3>2. flush' = [flush EXCEPT ![p].at = "drawn", ![p].id = n]
      BY <1>4 DEF Draw
    <3> HIDE DEF n
    <3> QED BY <3>1, <3>2, FlushTyped
  <2> QED BY <1>4, <2>1, <2>2, BrowserKept DEF Draw, TypeOK, listener
<1>5. CASE PersistFails(p)
  <2>1. flush' \in [Processes -> Flush]
    <3>1. flush' = [flush EXCEPT ![p].at = "idle", ![p].id = 0]
      BY <1>5 DEF PersistFails
    <3> QED BY <3>1, FlushTyped
  <2> QED BY <1>5, <2>1, BrowserKept, FaultTyped DEF PersistFails, TypeOK, database, listener
<1> QED BY <1>2, <1>3, <1>4, <1>5

\* So does what a commit changes.
LEMMA CommittingTyped ==
  ASSUME IInv, NEW p \in Processes, Commit(p) \/ CommitUnanswered(p)
  PROVE  TypeOK'
<1> DEFINE r == [id |-> flush[p].id, event |-> Head(queue[p])]
<1>1. flush[p].at = "drawn" /\ Committed(p)
  BY DEF Commit, CommitUnanswered
<1>2. queue[p] \in Seq(Changes \cup {Marker}) /\ queue[p] # <<>>
  BY <1>1 DEF IInv, TypeOK, BusyHasEvent
<1>3. Head(queue[p]) \in Changes \cup {Marker}
  BY <1>2
<1>4. flush[p].id \in Nat \ {0} /\ flush[p].id <= seq
  <2>1. flush[p].id \in Nat /\ flush[p].written \in Nat /\ seq \in Nat
    BY DEF IInv, TypeOK, Flush
  <2>2. CASE flush[p].id = seq /\ seq # 0
    BY <2>1, <2>2
  <2>3. CASE flush[p].id = flush[p].written /\ flush[p].written # 0
    <3>1. [id |-> flush[p].written, event |-> Head(queue[p])] \in log
      BY <2>3 DEF IInv, WrittenIsHead
    <3>2. flush[p].written <= seq
      BY <3>1 DEF IInv, TypeOK
    <3> QED BY <2>1, <2>3, <3>2
  <2> QED BY <1>1, <2>2, <2>3 DEF IInv, DrawnIsNew
<1>5. r \in Row /\ log' = log \cup {r}
  BY <1>1, <1>3, <1>4 DEF Committed, Row
<1>6. log' \subseteq Row /\ \A q \in log' : q.id <= seq'
  BY <1>1, <1>4, <1>5 DEF Committed, IInv, TypeOK
<1>7. client' \in [Clients -> Browser']
  BY <1>1, <1>5, BrowserGrows DEF Committed, IInv, TypeOK
<1>8. notices' \in [Processes -> Nat]
  BY <1>1 DEF Committed, IInv, TypeOK
<1>9. flush' \in [Processes -> Flush]
  <2>1. flush \in [Processes -> Flush] /\ IdleFlush \in Flush
    BY DEF IInv, TypeOK, Flush, IdleFlush
  <2>2. CASE Commit(p)
    <3> DEFINE at == IF queue'[p] = <<>> THEN "idle" ELSE "begin"
    <3>1. flush' = [flush EXCEPT ![p] = [IdleFlush EXCEPT !.at = at]]
      BY <2>2 DEF Commit
    <3>2. at \in {"idle", "begin"}
      OBVIOUS
    <3> HIDE DEF at
    <3>3. [IdleFlush EXCEPT !.at = at] \in Flush
      BY <2>1, <3>2 DEF Flush
    <3> QED BY <2>1, <3>1, <3>3
  <2>3. CASE CommitUnanswered(p)
    <3>1. flush[p].id \in Nat
      BY <1>4
    <3> QED BY <2>1, <2>3, <3>1 DEF CommitUnanswered, Flush, IdleFlush
  <2> QED BY <2>2, <2>3
<1>10. queue' \in [Processes -> Seq(Changes \cup {Marker})]
  <2>1. Tail(queue[p]) \in Seq(Changes \cup {Marker}) /\ <<Marker>> \in Seq(Changes \cup {Marker})
    BY <1>2
  <2> QED BY <2>1 DEF Commit, CommitUnanswered, IInv, TypeOK
<1>11. overflowed' \in [Processes -> BOOLEAN] /\ faults' \in FaultList
  <2>1. CASE Commit(p)
    BY <2>1 DEF Commit, IInv, TypeOK
  <2>2. CASE CommitUnanswered(p)
    BY <2>2, FaultTyped DEF CommitUnanswered, IInv, TypeOK
  <2> QED BY <2>1, <2>2
<1> QED BY <1>1, <1>6, <1>7, <1>8, <1>9, <1>10, <1>11 DEF Committed, IInv, TypeOK

\* Rows that retention has left have ids up to the last one drawn.
LEMMA RowsBounded ==
  ASSUME TypeOK
  PROVE  /\ First(Rows) \in Nat /\ Latest(Rows) \in 0..seq
         /\ \A r \in Rows : r \in log /\ r.id \in Nat /\ r.id <= seq /\ r.id <= Latest(Rows)
<1>1. \A r \in Rows : r \in log /\ r.id \in Nat /\ r.id <= seq
  BY DEF Rows, TypeOK, Row
<1>2. seq \in Nat
  BY DEF TypeOK
<1> QED BY <1>1, <1>2, IdsBounded

\* What is noted in drain stays well formed.
LEMMA DrainTyped ==
  ASSUME TypeOK, NEW p \in Processes
  PROVE  /\ Drained(p) \in [Processes -> Drain]
         /\ DrainEnds(p) => drain' \in [Processes -> Drain]
<1>1. drain \in [Processes -> Drain] /\ drain[p] \in Drain
  BY DEF TypeOK
<1>2. Drained(p) \in [Processes -> Drain]
  <2>1. [drain[p] EXCEPT !.at = "bounds"] \in Drain /\ [drain[p] EXCEPT !.again = TRUE] \in Drain
    BY <1>1 DEF Drain
  <2>2. \/ Drained(p) = [drain EXCEPT ![p] = [drain[p] EXCEPT !.at = "bounds"]]
        \/ Drained(p) = [drain EXCEPT ![p] = [drain[p] EXCEPT !.again = TRUE]]
    BY <1>1 DEF Drained
  <2> QED BY <1>1, <2>1, <2>2
<1>3. ASSUME DrainEnds(p) PROVE drain' \in [Processes -> Drain]
  <2> DEFINE at == IF drain[p].again THEN "bounds" ELSE "off"
  <2>1. at \in {"bounds", "off"}
    OBVIOUS
  <2>2. drain' = [drain EXCEPT ![p] = [IdleDrain EXCEPT !.at = at]]
    BY <1>3 DEF DrainEnds
  <2> HIDE DEF at
  <2>3. [IdleDrain EXCEPT !.at = at] \in Drain
    BY <2>1 DEF IdleDrain, Drain
  <2> QED BY <1>1, <2>2, <2>3
<1> QED BY <1>2, <1>3

\* The listener keeps everything well formed.
LEMMA DrainingTyped ==
  ASSUME TypeOK, NEW p \in Processes, Draining(p)
  PROVE  TypeOK'
<1>1. drain \in [Processes -> Drain] /\ drain[p] \in Drain /\ seq \in Nat
  BY DEF TypeOK
<1>2. CASE DrainBounds(p)
  <2> DEFINE d == [drain[p] EXCEPT !.at = "water", !.first = First(Rows), !.latest = Latest(Rows)]
  <2>1. drain' = [drain EXCEPT ![p] = d]
    <3>1. drain' = [drain EXCEPT ![p].at = "water", ![p].first = First(Rows),
                                 ![p].latest = Latest(Rows)]
      BY <1>2 DEF DrainBounds
    <3> QED BY <1>1, <3>1
  <2>2. d \in Drain
    <3> DEFINE m == First(Rows)
               n == Latest(Rows)
    <3>1. m \in Nat /\ n \in Nat
      BY <1>1, RowsBounded
    <3> HIDE DEF m, n
    <3>2. [drain[p] EXCEPT !.at = "water", !.first = m, !.latest = n] \in Drain
      BY <1>1, <3>1 DEF Drain
    <3> QED BY <3>2 DEF m, n
  <2> HIDE DEF d
  <2>3. drain' \in [Processes -> Drain]
    BY <1>1, <2>1, <2>2
  <2> QED BY <1>2, <2>3, BrowserKept DEF DrainBounds, TypeOK, database, publisher
<1>3. CASE DrainWater(p)
  <2> DEFINE d == [drain[p] EXCEPT !.at = "rows", !.water = seq]
  <2>1. drain' = [drain EXCEPT ![p] = d]
    BY <1>1, <1>3 DEF DrainWater
  <2>2. d \in Drain
    BY <1>1 DEF Drain
  <2> HIDE DEF d
  <2>3. drain' \in [Processes -> Drain]
    BY <1>1, <2>1, <2>2
  <2> QED BY <1>3, <2>3, BrowserKept DEF DrainWater, TypeOK, database, publisher
<1>4. CASE DrainRows(p)
  <2> DEFINE found == {r \in Rows : r.id > last[p]}
  <2>1. found \in SUBSET log /\ Latest(found) \in Nat
    <3>1. \A r \in found : r \in log /\ r.id \in Nat /\ r.id <= seq
      BY RowsBounded
    <3> HIDE DEF found
    <3> QED BY <1>1, <3>1, IdsBounded
  <2>2. last \in [Processes -> Nat] /\ client \in [Clients -> Browser] /\ skipped \subseteq Nat
    BY DEF TypeOK
  <2>3. ASSUME NEW n \in Nat, PassTo(p, n)
        PROVE  /\ drain' \in [Processes -> Drain] /\ last' \in [Processes -> Nat]
               /\ client' \in [Clients -> Browser] /\ skipped' \subseteq Nat
    <3>1. Gap(p) \in [Clients -> Browser]
      BY <2>2, RefreshedTyped DEF Gap
    <3>2. ((last[p] + 1)..n) \subseteq Nat
      BY <2>2
    <3> QED BY <2>2, <2>3, <3>1, <3>2, DrainTyped DEF PassTo
  <2>4. /\ drain' \in [Processes -> Drain] /\ last' \in [Processes -> Nat]
        /\ client' \in [Clients -> Browser] /\ skipped' \subseteq Nat
    <3>1. drain[p].latest \in Nat /\ drain[p].water \in Nat
      BY <1>1 DEF Drain
    <3>2. CASE PassTo(p, drain[p].latest) \/ PassTo(p, drain[p].water)
      BY <2>3, <3>1, <3>2
    <3>3. CASE DrainEnds(p) /\ UNCHANGED <<last, client, skipped>>
      BY <2>2, <3>3, DrainTyped
    <3> DEFINE sent == [k \in Clients |-> IF client[k].home = p THEN Sent(client[k], found) ELSE client[k]]
               idle == [IdleDrain EXCEPT !.at = "bounds", !.again = drain[p].again]
    <3>4. CASE /\ last' = [last EXCEPT ![p] = Latest(found)]
               /\ client' = sent
               /\ drain' = [drain EXCEPT ![p] = idle]
               /\ skipped' = skipped \cup (((last[p] + 1)..Latest(found)) \ Ids(found))
      <4>1. sent \in [Clients -> Browser]
        <5> HIDE DEF found
        <5> QED BY <2>1, <2>2, SentTyped
      <4>2. idle \in Drain
        BY <1>1 DEF IdleDrain, Drain
      <4>3. (((last[p] + 1)..Latest(found)) \ Ids(found)) \subseteq Nat
        BY <2>1, <2>2
      <4> HIDE DEF found, sent, idle
      <4> QED BY <1>1, <2>1, <2>2, <3>4, <4>1, <4>2, <4>3
    <3> QED BY <1>4, <3>2, <3>3, <3>4 DEF DrainRows
  <2> QED BY <1>4, <2>4, BrowserKept DEF DrainRows, TypeOK, database, publisher
<1> QED BY <1>2, <1>3, <1>4 DEF Draining

\* So do notifications and faults of the listener.
LEMMA ListeningTyped ==
  ASSUME TypeOK, NEW p \in Processes,
         Notice(p) \/ DrainFails(p) \/ ListenerFails(p) \/ Listen(p)
  PROVE  TypeOK'
<1>1. CASE Notice(p)
  <2>1. notices' \in [Processes -> Nat]
    BY <1>1 DEF Notice, TypeOK
  <2> QED BY <1>1, <2>1, DrainTyped, BrowserKept DEF Notice, TypeOK, database, publisher
<1>2. CASE DrainFails(p)
  BY <1>2, DrainTyped, BrowserKept, FaultTyped DEF DrainFails, TypeOK, database, publisher
<1>3. CASE ListenerFails(p)
  <2>1. notices' \in [Processes -> Nat] /\ listening' \in [Processes -> BOOLEAN]
    <3>1. /\ listening' = [listening EXCEPT ![p] = FALSE]
          /\ notices' = [notices EXCEPT ![p] = 0]
      BY <1>3 DEF ListenerFails
    <3> QED BY <3>1 DEF TypeOK
  <2> QED BY <1>3, <2>1, BrowserKept, FaultTyped DEF ListenerFails, TypeOK, database, publisher
<1>4. CASE Listen(p)
  <2>1. listening' \in [Processes -> BOOLEAN]
    <3>1. listening' = [listening EXCEPT ![p] = TRUE]
      BY <1>4 DEF Listen
    <3> QED BY <3>1 DEF TypeOK
  <2> QED BY <1>4, <2>1, DrainTyped, BrowserKept DEF Listen, TypeOK, database, publisher
<1> QED BY <1>1, <1>2, <1>3, <1>4

\* A step of one client that leaves a well-formed entry.
LEMMA MovesTyped ==
  ASSUME TypeOK, NEW k \in Clients, NEW c \in Browser, Moves(k, c)
  PROVE  TypeOK'
<1>1. client' \in [Clients -> Browser]
  BY DEF Moves, TypeOK
<1> QED BY <1>1, BrowserKept DEF Moves, TypeOK, database, publisher, listener

\* The clients keep everything well formed.
LEMMA ClientsTyped ==
  ASSUME TypeOK, NEW k \in Clients,
         \/ \E p \in Processes : Connect(k, p)
         \/ Syncing(k) \/ Disconnect(k) \/ Reload(k)
  PROVE  TypeOK'
<1> DEFINE c == client[k]
<1>1. c \in Browser /\ made \in SUBSET Changes
  BY DEF TypeOK
<1>2. Latest(Rows) \in Nat
  BY RowsBounded DEF TypeOK
<1> SUFFICES \E d \in Browser : Moves(k, d)
  BY MovesTyped
<1> HIDE DEF c
<1>3. CASE \E p \in Processes : Connect(k, p)
  <2>1. PICK p \in Processes : Connect(k, p)
    BY <1>3
  <2> DEFINE at == IF c.seen = None THEN "cursor" ELSE "replay"
  <2>2. at \in {"cursor", "replay"}
    OBVIOUS
  <2>3. Moves(k, [c EXCEPT !.at = at, !.home = p])
    BY <2>1 DEF Connect, c
  <2> HIDE DEF at
  <2>4. [c EXCEPT !.at = at, !.home = p] \in Browser
    BY <1>1, <2>2 DEF Browser
  <2> QED BY <2>3, <2>4
<1>4. CASE ReadCursor(k)
  <2>1. [c EXCEPT !.at = "lists", !.cursor = Latest(Rows)] \in Browser
    BY <1>1, <1>2 DEF Browser
  <2> QED BY <1>4, <2>1 DEF ReadCursor, c
<1>5. CASE ReadLists(k)
  <2>1. [c EXCEPT !.at = "send", !.held = made, !.owed = {}] \in Browser
    BY <1>1 DEF Browser
  <2> QED BY <1>5, <2>1 DEF ReadLists, c
<1>6. CASE SendSnapshot(k)
  <2>1. Released(c, c.held, c.cursor) \in Browser
    BY <1>1, ReleasedTyped DEF Browser
  <2> QED BY <1>6, <2>1 DEF SendSnapshot, c
<1>7. CASE Replay(k)
  <2> DEFINE found == {r \in Rows : r.id > c.seen}
  <2>1. found \in SUBSET log
    BY RowsBounded
  <2>2. News(found) \in SUBSET Changes
    BY <2>1, NewsTyped
  <2>3. \/ Moves(k, [c EXCEPT !.at = "cursor"])
        \/ Moves(k, [c EXCEPT !.at = "replayed", !.cursor = Latest(Rows), !.held = News(found)])
    BY <1>7 DEF Replay, c
  <2> HIDE DEF found
  <2>4. /\ [c EXCEPT !.at = "cursor"] \in Browser
        /\ [c EXCEPT !.at = "replayed", !.cursor = Latest(Rows), !.held = News(found)] \in Browser
    BY <1>1, <1>2, <2>2 DEF Browser
  <2> QED BY <2>3, <2>4
<1>8. CASE SendReplayed(k)
  <2>1. c.knows \cup c.held \in SUBSET Changes /\ c.cursor \in Nat
    BY <1>1 DEF Browser
  <2>2. Released(c, c.knows \cup c.held, c.cursor) \in Browser
    BY <1>1, <2>1, ReleasedTyped
  <2> QED BY <1>8, <2>2 DEF SendReplayed, c
<1>9. CASE Disconnect(k) \/ Reload(k)
  BY <1>1, <1>9, GoneTyped DEF Disconnect, Reload, c
<1> QED BY <1>3, <1>4, <1>5, <1>6, <1>7, <1>8, <1>9 DEF Syncing

\* So do the life of a process, and retention.
LEMMA LifeTyped ==
  ASSUME TypeOK, NEW p \in Processes,
         CloseBegins(p) \/ CloseEnds(p) \/ Dies(p) \/ Restart(p)
  PROVE  TypeOK'
<1> DEFINE left == [k \in Clients |-> IF client[k].home = p THEN Gone(client[k]) ELSE client[k]]
<1>1. left \in [Clients -> Browser]
  BY GoneTyped DEF TypeOK
<1>2. ASSUME Ends(p), client' \in [Clients -> Browser], faults' \in FaultList
      PROVE  TypeOK'
  <2>1. IdleFlush \in Flush /\ IdleDrain \in Drain /\ <<>> \in Seq(Changes \cup {Marker})
    BY DEF IdleFlush, Flush, IdleDrain, Drain
  <2>2. queue' \in [Processes -> Seq(Changes \cup {Marker})] /\ flush' \in [Processes -> Flush]
    BY <1>2, <2>1 DEF Ends, TypeOK
  <2>3. overflowed' \in [Processes -> BOOLEAN] /\ listening' \in [Processes -> BOOLEAN]
    BY <1>2 DEF Ends, TypeOK
  <2>4. state' \in [Processes -> {"up", "closing", "closed"}] /\ notices' \in [Processes -> Nat]
    BY <1>2 DEF Ends, TypeOK
  <2>5. drain' \in [Processes -> Drain]
    BY <1>2, <2>1 DEF Ends, TypeOK
  <2>6. /\ made' = made /\ seq' = seq /\ log' = log /\ floor' = floor
        /\ last' = last /\ skipped' = skipped
    BY <1>2 DEF Ends, database
  <2>7. client' \in [Clients -> Browser']
    BY <1>2, <2>6, BrowserKept
  <2> QED BY <1>2, <2>2, <2>3, <2>4, <2>5, <2>6, <2>7 DEF TypeOK
<1>3. CASE CloseBegins(p)
  <2>1. client' \in [Clients -> Browser] /\ state' \in [Processes -> {"up", "closing", "closed"}]
    BY <1>1, <1>3 DEF CloseBegins, TypeOK
  <2> HIDE DEF left
  <2> QED BY <1>3, <2>1, BrowserKept, FaultTyped
        DEF CloseBegins, TypeOK, database, publisher, listener
<1>4. CASE CloseEnds(p)
  <2>1. Ends(p) /\ client' \in [Clients -> Browser] /\ faults' \in FaultList
    BY <1>4 DEF CloseEnds, TypeOK
  <2> QED BY <1>2, <2>1
<1>5. CASE Dies(p)
  <2>1. Ends(p) /\ client' = left /\ faults' \in FaultList
    BY <1>5, FaultTyped DEF Dies
  <2> HIDE DEF left
  <2>2. client' \in [Clients -> Browser]
    BY <1>1, <2>1
  <2> QED BY <1>2, <2>1, <2>2
<1>6. CASE Restart(p)
  <2>1. /\ state' = [state EXCEPT ![p] = "up"]
        /\ listening' = [listening EXCEPT ![p] = TRUE]
        /\ last' = [last EXCEPT ![p] = seq]
    BY <1>6 DEF Restart
  <2>2. /\ state' \in [Processes -> {"up", "closing", "closed"}]
        /\ last' \in [Processes -> Nat]
    BY <2>1 DEF TypeOK
  <2>3. listening' \in [Processes -> BOOLEAN]
    BY <2>1 DEF TypeOK
  <2>4. skipped' \subseteq Nat
    <3>1. \A q \in Processes : flush[q].id \in Nat
      BY DEF TypeOK, Flush
    <3>2. InFlight \subseteq Nat
      BY <3>1 DEF InFlight
    <3> QED BY <1>6, <3>2 DEF Restart, TypeOK
  <2> QED BY <1>6, <2>2, <2>3, <2>4, BrowserKept DEF Restart, TypeOK, database, publisher
<1> QED BY <1>3, <1>4, <1>5, <1>6

\* And so does retention.
LEMMA PruneTyped ==
  ASSUME TypeOK, NEW r \in log, Prune(r)
  PROVE  TypeOK'
<1>1. r.id \in Nat /\ r.id <= seq
  BY DEF TypeOK, Row
<1> QED BY <1>1, BrowserKept, FaultTyped DEF Prune, TypeOK, publisher, listener

\* Every step keeps everything well formed.
LEMMA StepTyped == IInv /\ [Next]_vars => TypeOK'
<1> SUFFICES ASSUME IInv, [Next]_vars PROVE TypeOK'
  OBVIOUS
<1>1. TypeOK
  BY DEF IInv
<1>2. CASE UNCHANGED vars
  <2>1. Browser' = Browser
    BY <1>2, BrowserKept DEF vars, database
  <2> QED BY <1>1, <1>2, <2>1 DEF TypeOK, vars, database, publisher, listener
<1>3. CASE \E k \in Clients : \/ \E p \in Processes : Connect(k, p)
                             \/ Syncing(k) \/ Disconnect(k) \/ Reload(k)
  BY <1>1, <1>3, ClientsTyped
<1>4. CASE \E r \in log : Prune(r)
  BY <1>1, <1>4, PruneTyped
<1>5. ASSUME NEW p \in Processes,
             \/ \E c \in Changes : Change(p, c)
             \/ Publishing(p) \/ Notice(p) \/ Draining(p) \/ Listen(p)
             \/ CloseEnds(p) \/ Restart(p) \/ Disturb(p)
      PROVE  TypeOK'
  BY <1>1, <1>5, PublishingTyped, CommittingTyped, DrainingTyped, ListeningTyped, LifeTyped
     DEF Publishing, Disturb
<1> QED BY <1>2, <1>3, <1>4, <1>5 DEF Next

-----------------------------------------------------------------------------
(* The lock.                                                               *)

Lock == BusyHasEvent /\ WrittenIsHead /\ OneHolder /\ DrawnIsNew

\* Steps that leave the table's ids, the queues and the writers alone.
LEMMA LockKept ==
  ASSUME IInv, UNCHANGED <<seq, log, queue, flush>>
  PROVE  Lock'
BY DEF IInv, Lock, BusyHasEvent, WrittenIsHead, OneHolder, DrawnIsNew

\* A writer starts or stops; a queue grows at its tail.
LEMMA LockIdle ==
  ASSUME IInv, NEW p \in Processes,
         (\E c \in Changes : Change(p, c)) \/ Retry(p) \/ PersistFails(p)
  PROVE  Lock'
<1>1. /\ flush \in [Processes -> Flush] /\ queue \in [Processes -> Seq(Changes \cup {Marker})]
      /\ seq' = seq /\ log' = log
  BY DEF IInv, TypeOK, Change, Retry, PersistFails, database
<1>2. \/ flush' = flush
      \/ flush' = [flush EXCEPT ![p].at = "begin"] /\ flush[p].at = "idle"
      \/ flush' = [flush EXCEPT ![p].at = "idle", ![p].id = 0]
  <2>1. flush' = Kick(p) => \/ flush' = flush
                            \/ flush' = [flush EXCEPT ![p].at = "begin"] /\ flush[p].at = "idle"
    BY DEF Kick
  <2>2. CASE (\E c \in Changes : Change(p, c)) \/ Retry(p)
    <3>1. flush' = flush \/ flush' = Kick(p)
      <4>1. ASSUME NEW c \in Changes, Change(p, c) PROVE flush' = flush \/ flush' = Kick(p)
        BY <4>1, Zenon DEF Change, publisher
      <4> QED BY <2>2, <4>1 DEF Retry
    <3> QED BY <2>1, <3>1
  <2>3. CASE PersistFails(p)
    BY <2>3 DEF PersistFails
  <2> QED BY <2>2, <2>3
<1>3. \A q \in Processes : flush'[q].written = flush[q].written
  <2>1. CASE flush' = [flush EXCEPT ![p].at = "begin"]
    BY <1>1, <2>1 DEF Flush
  <2>2. CASE flush' = [flush EXCEPT ![p].at = "idle", ![p].id = 0]
    BY <1>1, <2>2 DEF Flush
  <2> QED BY <1>2, <2>1, <2>2
<1>4. \A q \in Processes :
        flush'[q].at = "drawn" => flush[q].at = "drawn" /\ flush'[q] = flush[q]
  BY <1>1, <1>2 DEF Flush
<1>5. \A q \in Processes :
        queue[q] # <<>> => queue'[q] # <<>> /\ Head(queue'[q]) = Head(queue[q])
  <2>1. CASE UNCHANGED queue
    BY <2>1
  <2>2. ASSUME NEW c \in Changes, queue' = [queue EXCEPT ![p] = Append(queue[p], c)]
        PROVE  \A q \in Processes :
                 queue[q] # <<>> => queue'[q] # <<>> /\ Head(queue'[q]) = Head(queue[q])
    BY <1>1, <2>2
  <2> QED BY <2>1, <2>2 DEF Change, Retry, PersistFails, publisher
<1>6. \A q \in Processes : flush'[q].at # "idle" => queue'[q] # <<>>
  <2>1. CASE \E c \in Changes : Change(p, c)
    <3>1. PICK c \in Changes : Change(p, c)
      BY <2>1
    <3>2. CASE UNCHANGED publisher
      BY <3>2 DEF IInv, BusyHasEvent, publisher
    <3>3. CASE flush' = Kick(p)
      <4>1. \A q \in Processes \ {p} : flush'[q] = flush[q]
        BY <1>1, <3>3 DEF Kick
      <4>2. queue'[p] # <<>>
        <5>1. CASE Len(queue[p]) >= MaxQueued
          <6>1. queue[p] # <<>>
            BY <1>1, <5>1
          <6> QED BY <1>5, <6>1
        <5>2. CASE queue' = [queue EXCEPT ![p] = Append(queue[p], c)]
          BY <1>1, <5>2
        <5>3. CASE UNCHANGED publisher /\ overflowed[p]
          BY <3>1, <3>3, <5>3 DEF Kick, IInv, BusyHasEvent, publisher, Flush, TypeOK
        <5> QED BY <3>1, <5>1, <5>2, <5>3 DEF Change
      <4> QED BY <1>5, <4>1, <4>2 DEF IInv, BusyHasEvent
    <3> QED BY <3>1, <3>2, <3>3 DEF Change
  <2>2. CASE Retry(p)
    BY <1>1, <2>2 DEF Retry, Kick, IInv, BusyHasEvent
  <2>3. CASE PersistFails(p)
    BY <1>1, <2>3 DEF PersistFails, IInv, BusyHasEvent, Flush
  <2> QED BY <2>1, <2>2, <2>3
<1>7. BusyHasEvent'
  BY <1>6 DEF BusyHasEvent
<1>8. WrittenIsHead'
  BY <1>1, <1>3, <1>5 DEF IInv, WrittenIsHead
<1>9. OneHolder' /\ DrawnIsNew'
  BY <1>1, <1>3, <1>4 DEF IInv, OneHolder, DrawnIsNew
<1> QED BY <1>7, <1>8, <1>9 DEF Lock

\* Taking the lock: the id drawn is new, or the row is there.
LEMMA LockTaken ==
  ASSUME IInv, NEW p \in Processes, Draw(p)
  PROVE  Lock'
<1>1. /\ flush \in [Processes -> Flush] /\ seq \in Nat /\ floor \in Nat
      /\ \A r \in log : r.id \in Nat /\ r.id <= seq
  BY DEF IInv, TypeOK, Row
<1> DEFINE n == IF flush[p].written > floor THEN flush[p].written ELSE seq + 1
<1>2. /\ flush' = [flush EXCEPT ![p].at = "drawn", ![p].id = n]
      /\ seq' = seq + 1 /\ log' = log /\ queue' = queue
      /\ flush[p].at = "begin" /\ \A q \in Processes : flush[q].at # "drawn"
  BY DEF Draw, Locked
<1>3. n \in Nat /\ flush[p].written \in Nat /\ (n = seq + 1 \/ (n = flush[p].written /\ n # 0))
  BY <1>1 DEF Flush
<1> HIDE DEF n
<1>4. /\ flush'[p].at = "drawn" /\ flush'[p].id = n
      /\ \A q \in Processes : flush'[q].written = flush[q].written
      /\ \A q \in Processes \ {p} : flush'[q] = flush[q]
  BY <1>1, <1>2 DEF Flush
<1>5. BusyHasEvent' /\ WrittenIsHead'
  <2>1. BusyHasEvent'
    <3> SUFFICES ASSUME NEW q \in Processes, flush'[q].at # "idle" PROVE queue'[q] # <<>>
      BY DEF BusyHasEvent
    <3>1. flush[q].at # "idle"
      BY <1>2, <1>4
    <3> QED BY <1>2, <3>1 DEF IInv, BusyHasEvent
  <2>2. WrittenIsHead'
    BY <1>2, <1>4 DEF IInv, WrittenIsHead
  <2> QED BY <2>1, <2>2
<1>6. OneHolder'
  <2>1. \A q \in Processes : flush'[q].at = "drawn" => q = p
    BY <1>2, <1>4
  <2> QED BY <2>1 DEF OneHolder
<1>7. DrawnIsNew'
  BY <1>1, <1>2, <1>3, <1>4 DEF DrawnIsNew
<1> QED BY <1>5, <1>6, <1>7 DEF Lock

\* A commit adds one row, with the greatest id, or the one that is there.
LEMMA RowCommitted ==
  ASSUME IInv, NEW p \in Processes, flush[p].at = "drawn", Committed(p)
  PROVE  LET r == [id |-> flush[p].id, event |-> Head(queue[p])]
         IN  /\ log' = log \cup {r}
             /\ r \in log \/ \A q \in log : q.id < r.id
<1> DEFINE r == [id |-> flush[p].id, event |-> Head(queue[p])]
<1>1. log' = log \cup {r}
  BY DEF Committed
<1>2. CASE flush[p].id = seq /\ \A q \in log : q.id < seq
  BY <1>1, <1>2
<1>3. CASE flush[p].id = flush[p].written /\ flush[p].written # 0
  <2>1. r \in log
    BY <1>3 DEF IInv, WrittenIsHead
  <2> QED BY <1>1, <2>1
<1> QED BY <1>2, <1>3 DEF IInv, DrawnIsNew

\* Giving the lock back with a commit.
LEMMA LockGiven ==
  ASSUME IInv, NEW p \in Processes, Commit(p) \/ CommitUnanswered(p)
  PROVE  Lock'
<1>1. /\ flush[p].at = "drawn" /\ Committed(p) /\ seq' = seq
      /\ log' = log \cup {[id |-> flush[p].id, event |-> Head(queue[p])]}
  BY DEF Commit, CommitUnanswered, Committed
<1>2. /\ flush \in [Processes -> Flush] /\ queue \in [Processes -> Seq(Changes \cup {Marker})]
      /\ queue[p] # <<>>
  BY <1>1 DEF IInv, TypeOK, BusyHasEvent
<1>3. /\ \A q \in Processes \ {p} : flush'[q] = flush[q] /\ queue'[q] = queue[q] /\ flush[q].at # "drawn"
      /\ flush'[p].at # "drawn"
  <2>1. \A q \in Processes \ {p} : flush[q].at # "drawn"
    BY <1>1 DEF IInv, OneHolder
  <2>2. CASE Commit(p)
    <3>1. /\ \A q \in Processes \ {p} : flush'[q] = flush[q]
          /\ flush'[p] = [IdleFlush EXCEPT !.at = IF queue'[p] = <<>> THEN "idle" ELSE "begin"]
      BY <1>2, <2>2 DEF Commit
    <3>2. \A q \in Processes \ {p} : queue'[q] = queue[q]
      BY <1>2, <2>2 DEF Commit
    <3> QED BY <2>1, <3>1, <3>2 DEF IdleFlush
  <2>3. CASE CommitUnanswered(p)
    BY <1>2, <2>1, <2>3 DEF CommitUnanswered, IdleFlush
  <2> QED BY <2>2, <2>3
<1>4. /\ flush'[p].at # "idle" => queue'[p] # <<>>
      /\ flush'[p].written # 0 =>
           queue'[p] # <<>> /\ [id |-> flush'[p].written, event |-> Head(queue'[p])] \in log'
  <2>1. CASE Commit(p)
    <3>1. flush'[p] = [IdleFlush EXCEPT !.at = IF queue'[p] = <<>> THEN "idle" ELSE "begin"]
      BY <1>2, <2>1 DEF Commit
    <3>2. flush'[p].written = 0
      BY <3>1 DEF IdleFlush
    <3>3. queue'[p] = <<>> => flush'[p].at = "idle"
      BY <3>1 DEF IdleFlush
    <3> QED BY <3>2, <3>3
  <2>2. CASE CommitUnanswered(p)
    <3>1. flush'[p] = [IdleFlush EXCEPT !.written = flush[p].id] /\ queue' = queue
      BY <1>2, <2>2 DEF CommitUnanswered
    <3>2. flush'[p].at = "idle" /\ flush'[p].written = flush[p].id
      BY <3>1 DEF IdleFlush
    <3> QED BY <1>1, <1>2, <3>1, <3>2
  <2> QED BY <2>1, <2>2
<1>5. BusyHasEvent' /\ WrittenIsHead'
  BY <1>1, <1>3, <1>4 DEF IInv, BusyHasEvent, WrittenIsHead
<1>6. OneHolder' /\ DrawnIsNew'
  BY <1>3 DEF OneHolder, DrawnIsNew
<1> QED BY <1>5, <1>6 DEF Lock

\* A process that ends gives everything up.
LEMMA LockEnds ==
  ASSUME IInv, NEW p \in Processes, Ends(p)
  PROVE  Lock'
<1>1. /\ flush \in [Processes -> Flush] /\ queue \in [Processes -> Seq(Changes \cup {Marker})]
      /\ flush' = [flush EXCEPT ![p] = IdleFlush] /\ queue' = [queue EXCEPT ![p] = <<>>]
      /\ seq' = seq /\ log' = log
  BY DEF IInv, TypeOK, Ends, database
<1>2. /\ flush'[p].at = "idle" /\ flush'[p].written = 0
      /\ \A q \in Processes \ {p} : flush'[q] = flush[q] /\ queue'[q] = queue[q]
  BY <1>1 DEF IdleFlush
<1> QED BY <1>1, <1>2 DEF IInv, Lock, BusyHasEvent, WrittenIsHead, OneHolder, DrawnIsNew

\* Every step keeps the lock.
LEMMA StepLocked == IInv /\ [Next]_vars => Lock'
<1> SUFFICES ASSUME IInv, [Next]_vars PROVE Lock'
  OBVIOUS
<1>1. CASE UNCHANGED vars
  BY <1>1, LockKept DEF vars, database, publisher
<1>2. ASSUME NEW k \in Clients,
             \/ \E p \in Processes : Connect(k, p)
             \/ Syncing(k) \/ Disconnect(k) \/ Reload(k)
      PROVE  Lock'
  <2>1. UNCHANGED <<seq, log, queue, flush>>
    BY <1>2 DEF Connect, Syncing, ReadCursor, ReadLists, SendSnapshot, Replay, SendReplayed,
                Disconnect, Reload, Moves, database, publisher
  <2> QED BY <2>1, LockKept
<1>3. ASSUME NEW r \in log, Prune(r) PROVE Lock'
  BY <1>3, LockKept DEF Prune, publisher
<1>4. ASSUME NEW p \in Processes,
             \/ Notice(p) \/ Draining(p) \/ Listen(p) \/ DrainFails(p)
             \/ ListenerFails(p) \/ CloseBegins(p) \/ Restart(p)
      PROVE  Lock'
  <2>1. UNCHANGED <<database, publisher>>
    BY <1>4 DEF Notice, Draining, DrainBounds, DrainWater, DrainRows, Listen, DrainFails,
                ListenerFails, CloseBegins, Restart
  <2> QED BY <2>1, LockKept DEF database, publisher
<1>5. ASSUME NEW p \in Processes,
             \/ \E c \in Changes : Change(p, c)
             \/ Publishing(p) \/ PersistFails(p) \/ CommitUnanswered(p)
             \/ CloseEnds(p) \/ Dies(p)
      PROVE  Lock'
  BY <1>5, LockIdle, LockTaken, LockGiven, LockEnds DEF Publishing, CloseEnds, Dies
<1> QED BY <1>1, <1>2, <1>3, <1>4, <1>5 DEF Next, Disturb

-----------------------------------------------------------------------------
(* The theorems.                                                           *)

\* The invariant holds in every reachable state.
THEOREM FanoutInvariance == Spec => []IInv
<1>1. Init => IInv
  <2> SUFFICES ASSUME Init PROVE IInv
    OBVIOUS
  <2>1. \A p \in Processes : flush[p].at = "idle" /\ flush[p].written = 0
    BY DEF Init, IdleFlush
  <2> QED BY <2>1, InitTyped DEF IInv, BusyHasEvent, WrittenIsHead, OneHolder, DrawnIsNew
<1>2. IInv /\ [Next]_vars => IInv'
  BY StepTyped, StepLocked DEF IInv, Lock
<1> QED BY <1>1, <1>2, PTL DEF Spec

\* Tables, queues, positions and client entries are well formed in every
\* reachable state: rows have ids the sequence has given out, and what a
\* client holds back is in the table.
THEOREM FanoutTypeCorrect == Spec => []TypeOK
BY FanoutInvariance, PTL DEF IInv

\* Only a commit makes events visible, and it makes one visible whose id is
\* greater than all before it, whatever process it is of.
LEMMA CommitsAreLast == IInv /\ [Next]_vars => [\A r \in log' \ log : \A q \in log : q.id < r.id]_log
<1> SUFFICES ASSUME IInv, [Next]_vars, log' # log
             PROVE  \A r \in log' \ log : \A q \in log : q.id < r.id
  OBVIOUS
<1>1. ASSUME NEW p \in Processes, Commit(p) \/ CommitUnanswered(p)
      PROVE  \A r \in log' \ log : \A q \in log : q.id < r.id
  <2>1. flush[p].at = "drawn" /\ Committed(p)
    BY <1>1 DEF Commit, CommitUnanswered
  <2> QED BY <2>1, RowCommitted
<1>2. \E p \in Processes : Commit(p) \/ CommitUnanswered(p)
  <2>1. ~ UNCHANGED vars
    BY DEF vars, database
  <2>2. \A k \in Clients : ~ (\/ \E p \in Processes : Connect(k, p)
                             \/ Syncing(k) \/ Disconnect(k) \/ Reload(k))
    BY DEF Connect, Syncing, ReadCursor, ReadLists, SendSnapshot, Replay, SendReplayed,
           Disconnect, Reload, Moves, database
  <2>3. ~ \E r \in log : Prune(r)
    BY DEF Prune
  <2>4. \A p \in Processes :
          ~ (\/ Notice(p) \/ Draining(p) \/ Listen(p) \/ DrainFails(p)
             \/ ListenerFails(p) \/ CloseBegins(p) \/ Restart(p))
    BY DEF Notice, Draining, DrainBounds, DrainWater, DrainRows, Listen, DrainFails,
           ListenerFails, CloseBegins, Restart, database
  <2>5. \A p \in Processes :
          ~ (\/ \E c \in Changes : Change(p, c)
             \/ Retry(p) \/ Draw(p) \/ PersistFails(p) \/ CloseEnds(p) \/ Dies(p))
    BY DEF Change, Retry, Draw, PersistFails, CloseEnds, Dies, Ends, database
  <2> QED BY <2>1, <2>2, <2>3, <2>4, <2>5 DEF Next, Publishing, Disturb
<1> QED BY <1>1, <1>2

\* Events become visible in the order of their ids, in any number of
\* processes, with any statement failing and any COMMIT unanswered.
THEOREM EventsInIdOrder == Spec => CommitsInIdOrder
BY FanoutInvariance, CommitsAreLast, PTL DEF Spec, CommitsInIdOrder

-----------------------------------------------------------------------------
(* Views.  What the invariant says of a client is restated with the table, *)
(* the skipped ids, the positions and the states of the processes as       *)
(* parameters, so that an entry can be judged before and after a step.     *)

Cov(L, S, K, P, n) ==
  \A r \in L : r.id <= n /\ r.event # Marker => r.event \in K \/ r.id \in S \/ r \in P

\* The entry c is placed and sees what it should.
Entry(c, L, S, pos, st) ==
  /\ c.at = "off" => c.home = None /\ c.pending = {}
  /\ c.at # "off" => /\ c.home \in Processes /\ st[c.home] = "up"
                     /\ \A r \in c.pending : r.id <= pos[c.home]
  /\ c.seen = None => c.at \notin {"replay", "replayed", "live"}
  /\ c.seen \in Ids(L) \cup {0, None}
  /\ c.cursor \in Ids(L) \cup {0}
  /\ c.seen # None => Cov(L, S, c.knows, {}, c.seen)
  /\ c.at = "live" => Cov(L, S, c.knows, {}, pos[c.home])
  /\ c.at \in {"send", "replayed"} =>
       /\ Cov(L, S, Base(c), {}, c.cursor)
       /\ c.seen # None => Cov(L, S, Base(c), {}, c.seen)
       /\ Cov(L, S, Base(c), c.pending, pos[c.home])

Entries == \A k \in Clients : Entry(client[k], log, skipped, last, state)

\* The invariant in these terms.
LEMMA ViewsAreEntries ==
  /\ ViewsInv <=> EventsAreMade /\ IdsAreUnique /\ PositionsAreDrawn /\ Entries
  /\ ViewsInv' <=> EventsAreMade' /\ IdsAreUnique' /\ PositionsAreDrawn'
                   /\ \A k \in Clients : Entry(client'[k], log', skipped', last', state')
<1>1. ClientsArePlaced /\ ViewsAreWhole /\ CursorsAreTrue <=> Entries
  BY DEF ClientsArePlaced, ViewsAreWhole, CursorsAreTrue, Covers, Entries, Entry, Cov
<1>2. (ClientsArePlaced /\ ViewsAreWhole /\ CursorsAreTrue)' <=>
        \A k \in Clients : Entry(client'[k], log', skipped', last', state')
  BY DEF ClientsArePlaced, ViewsAreWhole, CursorsAreTrue, Covers, Entry, Cov, Base, Ids
<1> QED BY <1>1, <1>2 DEF ViewsInv

\* More skipped ids do not harm an entry, nor do other processes.
LEMMA EntryKept ==
  ASSUME NEW c, NEW L, NEW S, NEW pos, NEW st, NEW S2, NEW pos2, NEW st2,
         Entry(c, L, S, pos, st), S \subseteq S2,
         c.at # "off" => pos2[c.home] = pos[c.home] /\ st2[c.home] = st[c.home]
  PROVE  Entry(c, L, S2, pos2, st2)
<1>1. \A K, P, n : Cov(L, S, K, P, n) => Cov(L, S2, K, P, n)
  BY DEF Cov
<1>2. CASE c.at = "off"
  BY <1>1, <1>2 DEF Entry
<1>3. CASE c.at # "off"
  <2>1. pos2[c.home] = pos[c.home] /\ st2[c.home] = st[c.home]
    BY <1>3
  <2> QED BY <1>1, <1>3, <2>1 DEF Entry
<1> QED BY <1>2, <1>3

\* What a browser is, field by field.
LEMMA BrowserFields ==
  ASSUME TypeOK, NEW c \in Browser
  PROVE  /\ c.at \in {"off", "cursor", "lists", "send", "replay", "replayed", "live"}
         /\ c.home \in Processes \cup {None} /\ c.seen \in Nat \cup {None}
         /\ c.pending \subseteq log /\ c.cursor \in Nat
         /\ c.knows \subseteq Changes /\ c.held \subseteq Changes
         /\ \A r \in log : r.id \in Nat \ {0} /\ r.id <= seq /\ r.event \in Changes \cup {Marker}
  BY DEF Browser, TypeOK, Row

\* A new row is past every cursor, and skipped by whoever is past it.
LEMMA EntryGrows ==
  ASSUME TypeOK, NEW c \in Browser, NEW S, NEW st, NEW pos \in [Processes -> Nat],
         Entry(c, log, S, pos, st), NEW r \in Row,
         r \in log \/ \A q \in log : q.id < r.id,
         r \in log \/ \A p \in Processes : r.id <= pos[p] => r.id \in S
  PROVE  Entry(c, log \cup {r}, S, pos, st)
<1>1. CASE r \in log
  <2>1. log \cup {r} = log
    BY <1>1
  <2> QED BY <2>1
<1>2. CASE r \notin log
  <2>1. /\ r.id \in Nat \ {0} /\ \A q \in log : q.id < r.id /\ q.id \in Nat
        /\ \A p \in Processes : r.id <= pos[p] => r.id \in S
    BY <1>2, BrowserFields DEF Row
  <2>2. Ids(log) \subseteq Ids(log \cup {r})
    BY DEF Ids
  <2>3. \A n \in Ids(log) \cup {0} : n < r.id
    BY <2>1 DEF Ids
  <2>4. ASSUME NEW K, NEW P, NEW n, n \in Ids(log) \cup {0}, Cov(log, S, K, P, n)
        PROVE  Cov(log \cup {r}, S, K, P, n)
    <3>1. n < r.id /\ n \in Nat
      BY <2>1, <2>3, <2>4 DEF Ids
    <3>2. ~ r.id <= n
      BY <2>1, <3>1
    <3> QED BY <2>4, <3>2 DEF Cov
  <2>5. ASSUME NEW K, NEW P, NEW p \in Processes, Cov(log, S, K, P, pos[p])
        PROVE  Cov(log \cup {r}, S, K, P, pos[p])
    BY <2>1, <2>5 DEF Cov
  <2>6. c.seen # None => c.seen \in Ids(log) \cup {0}
    BY DEF Entry
  <2>7. c.cursor \in Ids(log) \cup {0}
    BY DEF Entry
  <2>8. c.at \notin {"off"} => c.home \in Processes
    BY DEF Entry
  <2> QED BY <2>2, <2>4, <2>5, <2>6, <2>7, <2>8 DEF Entry
<1> QED BY <1>1, <1>2

\* What a snapshot or a replay leaves behind.
LEMMA EntryReleased ==
  ASSUME TypeOK, NEW c \in Browser, Entry(c, log, skipped, last, state),
         c.at \in {"send", "replayed"}
  PROVE  Entry(Released(c, Base(c), c.cursor), log, skipped, last, state)
<1> DEFINE later == {r \in c.pending : r.id > c.cursor}
           d == Released(c, Base(c), c.cursor)
           seen == IF later = {} THEN c.cursor ELSE Latest(later)
<1>1. /\ d.at = "live" /\ d.pending = {} /\ d.cursor = 0 /\ d.home = c.home
      /\ d.knows = Base(c) \cup News(later) /\ d.seen = seen
  BY DEF Released, Browser
<1>2. /\ c.home \in Processes /\ state[c.home] = "up"
      /\ \A r \in c.pending : r.id <= last[c.home]
      /\ c.cursor \in Ids(log) \cup {0} /\ c.cursor \in Nat /\ last[c.home] \in Nat
      /\ Cov(log, skipped, Base(c), {}, c.cursor)
      /\ Cov(log, skipped, Base(c), c.pending, last[c.home])
  BY BrowserFields DEF Entry, TypeOK
<1>3. Cov(log, skipped, Base(c) \cup News(later), {}, last[c.home])
  <2> SUFFICES ASSUME NEW r \in log, r.id <= last[c.home], r.event # Marker, r.id \notin skipped,
                      r.event \notin Base(c)
               PROVE  r.event \in News(later)
    BY DEF Cov
  <2>1. r \in c.pending
    BY <1>2 DEF Cov
  <2>2. ~ r.id <= c.cursor
    BY <1>2 DEF Cov
  <2>3. r \in later
    BY <1>2, <2>1, <2>2, BrowserFields
  <2> QED BY <2>3 DEF News
<1>4. /\ later \subseteq log
      /\ later # {} => Latest(later) \in Ids(log) /\ Latest(later) <= last[c.home]
  <2>1. \A r \in later : r \in log /\ r.id \in Nat /\ r.id <= last[c.home]
    BY <1>2, BrowserFields
  <2> HIDE DEF later
  <2>2. later # {} => Latest(later) \in Ids(later)
    BY <1>2, <2>1, IdsBounded
  <2> QED BY <2>1, <2>2 DEF Ids
<1>5. Cov(log, skipped, Base(c) \cup News(later), {}, seen)
  <2>1. CASE later = {}
    BY <1>2, <2>1 DEF Cov
  <2>2. CASE later # {}
    <3>1. seen \in Nat /\ seen <= last[c.home]
      BY <1>4, <2>2, BrowserFields DEF Ids
    <3> HIDE DEF seen, later
    <3> QED BY <1>2, <1>3, <3>1, BrowserFields DEF Cov
  <2> QED BY <2>1, <2>2
<1>6. seen \in Ids(log) \cup {0} /\ seen # None
  BY <1>2, <1>4, BrowserFields DEF Ids
<1> HIDE DEF later, d, seen
<1>7. Entry(d, log, skipped, last, state)
  BY <1>1, <1>2, <1>3, <1>5, <1>6 DEF Entry
<1> QED BY <1>7 DEF d

\* After a gap nothing is left that the process has passed in silence.
LEMMA EntryPassed ==
  ASSUME TypeOK, NEW c \in Browser, Entry(c, log, skipped, last, state),
         NEW p \in Processes, c.home = p, NEW n \in Nat, last[p] <= n
  PROVE  Entry(Refreshed(c), log, skipped \cup ((last[p] + 1)..n), [last EXCEPT ![p] = n], state)
<1> DEFINE S2 == skipped \cup ((last[p] + 1)..n)
           pos2 == [last EXCEPT ![p] = n]
           d == Refreshed(c)
<1>1. /\ last[p] \in Nat /\ pos2[p] = n /\ c.at # "off" /\ state[p] = "up"
      /\ \A r \in c.pending : r \in log /\ r.id \in Nat /\ r.id <= last[p]
  BY BrowserFields DEF Entry, TypeOK
<1>2. /\ d.home = p /\ d.seen = c.seen /\ d.pending = c.pending /\ d.cursor = c.cursor
      /\ d.held = c.held /\ d.knows = c.knows
      /\ d.at = IF c.at = "live" THEN "cursor" ELSE c.at
  BY DEF Refreshed, Browser
<1>3. \A K, P, m : Cov(log, skipped, K, P, m) => Cov(log, S2, K, P, m)
  BY DEF Cov
<1>4. ASSUME NEW K, NEW P, Cov(log, skipped, K, P, last[p]) PROVE Cov(log, S2, K, P, n)
  <2> SUFFICES ASSUME NEW r \in log, r.id <= n, r.event # Marker PROVE r.event \in K \/ r.id \in S2 \/ r \in P
    BY DEF Cov
  <2>1. r.id \in Nat
    BY BrowserFields
  <2> QED BY <1>1, <1>4, <2>1 DEF Cov
<1>5. \A r \in c.pending : r.id <= n
  BY <1>1
<1>6. d.at # "live" /\ d.at # "off" /\ (d.at \in {"send", "replayed"} => c.at = d.at /\ Base(d) = Base(c))
  BY <1>1, <1>2 DEF Base
<1>7. d.at # "cursor" => d.at = c.at
  BY <1>2
<1> HIDE DEF S2, pos2, d
<1>8. Entry(d, log, S2, pos2, state)
  BY <1>1, <1>2, <1>3, <1>4, <1>5, <1>6, <1>7 DEF Entry
<1> QED BY <1>8 DEF S2, pos2, d

\* What is sent of the rows found, and held back of them, is what the process
\* passes.
LEMMA EntrySent ==
  ASSUME TypeOK, IdsAreUnique, NEW c \in Browser, Entry(c, log, skipped, last, state),
         NEW p \in Processes, c.home = p,
         NEW found, found = {r \in Rows : r.id > last[p]}, found # {}
  PROVE  Entry(Sent(c, found), log, skipped \cup (((last[p] + 1)..Latest(found)) \ Ids(found)),
               [last EXCEPT ![p] = Latest(found)], state)
<1> DEFINE n    == Latest(found)
           S2   == skipped \cup (((last[p] + 1)..n) \ Ids(found))
           pos2 == [last EXCEPT ![p] = n]
           marks == {r \in found : r.event = Marker}
           fresh == {r \in found \ marks : c.seen = None \/ r.id > c.seen}
           now   == IF c.at = "live" THEN {r \in fresh : \A m \in marks : r.id < m.id} ELSE {}
           d     == Sent(c, found)
<1>1. \A r \in found : r \in log /\ r.id \in Nat /\ r.id <= seq /\ r.id > last[p]
  BY RowsBounded
<1>2. /\ n \in Nat /\ n \in Ids(found) /\ \A r \in found : r.id <= n
  <2>1. seq \in Nat /\ \A r \in found : r.id \in Nat /\ r.id <= seq
    BY <1>1 DEF TypeOK
  <2>2. found # {}
    OBVIOUS
  <2> QED BY <2>1, <2>2, IdsBounded
<1>3. /\ last[p] \in Nat /\ last[p] < n /\ pos2[p] = n /\ c.at # "off" /\ state[p] = "up"
      /\ \A r \in c.pending : r \in log /\ r.id \in Nat /\ r.id <= last[p]
  <2>1. last[p] \in Nat /\ pos2[p] = n
    BY DEF TypeOK
  <2>2. last[p] < n
    BY <1>1, <1>2 DEF Ids
  <2> QED BY <2>1, <2>2, BrowserFields DEF Entry
<1>4. ASSUME NEW r \in log, r.id > last[p], r.id <= n, r.id \notin S2 PROVE r \in found
  <2>1. r.id \in Ids(found)
    BY <1>2, <1>3, <1>4, BrowserFields
  <2>2. PICK q \in found : q.id = r.id
    BY <2>1 DEF Ids
  <2> QED BY <1>1, <2>2 DEF IdsAreUnique
<1>5. \A K, P, m : Cov(log, skipped, K, P, m) => Cov(log, S2, K, P, m)
  BY DEF Cov
<1>6. /\ d.home = p /\ d.cursor = c.cursor /\ d.held = c.held
      /\ d.knows = c.knows \cup News(now)
      /\ d.seen = IF now = {} THEN c.seen ELSE Latest(now)
      /\ d.pending = c.pending \cup (fresh \ now)
      /\ d.at = IF c.at = "live" /\ marks # {} THEN "cursor" ELSE c.at
  <2> DEFINE e == IF marks = {} THEN c ELSE Refreshed(c)
             knows == News(now)
             seen  == IF now = {} THEN e.seen ELSE Latest(now)
             rest  == fresh \ now
  <2>1. /\ e \in Browser /\ e.home = c.home /\ e.cursor = c.cursor /\ e.held = c.held
        /\ e.knows = c.knows /\ e.seen = c.seen /\ e.pending = c.pending
        /\ e.at = IF c.at = "live" /\ marks # {} THEN "cursor" ELSE c.at
    BY RefreshedTyped DEF Refreshed, Browser
  <2>2. d = [e EXCEPT !.knows = @ \cup knows, !.seen = IF now = {} THEN @ ELSE Latest(now),
                      !.pending = @ \cup rest]
    BY DEF Sent
  <2> HIDE DEF d, e, knows, now, fresh, marks, rest
  <2>3. d = [e EXCEPT !.knows = e.knows \cup knows, !.seen = seen, !.pending = e.pending \cup rest]
    BY <2>1, <2>2 DEF Browser
  <2> HIDE DEF seen
  <2>4. /\ d.home = e.home /\ d.cursor = e.cursor /\ d.held = e.held /\ d.at = e.at
        /\ d.knows = e.knows \cup knows /\ d.seen = seen /\ d.pending = e.pending \cup rest
    BY <2>1, <2>3 DEF Browser
  <2>5. c.home = p
    OBVIOUS
  <2> QED BY <2>1, <2>4, <2>5 DEF knows, seen, rest
<1>7. /\ \A r \in d.pending : r.id <= n
  <2>1. \A r \in c.pending : r.id <= n
    BY <1>2, <1>3
  <2>2. \A r \in fresh \ now : r.id <= n
    BY <1>2
  <2> QED BY <1>6, <2>1, <2>2
<1>8. CASE c.at = "live"
  <2>1. c.seen \in Nat /\ c.seen # None
    BY <1>8, BrowserFields DEF Entry
  <2>2. /\ Cov(log, S2, c.knows, {}, c.seen) /\ Cov(log, S2, c.knows, {}, last[p])
    BY <1>5, <1>8, <2>1 DEF Entry
  <2>3. ASSUME NEW r \in log, r.id <= n, r.event # Marker, r.id \notin S2, r.event \notin c.knows
        PROVE  r \in fresh /\ r.id \in Nat
    <3>1. r.id > last[p] /\ r.id > c.seen /\ r.id \in Nat
      BY <1>3, <2>1, <2>2, <2>3, BrowserFields DEF Cov
    <3>2. r \in found
      BY <1>4, <2>3, <3>1
    <3> QED BY <2>3, <3>1, <3>2
  <2>4. now # {} => /\ Latest(now) \in Ids(now) /\ Latest(now) \in Ids(log) /\ Latest(now) \in Nat
                    /\ Latest(now) <= n
    <3>1. \A r \in now : r \in log /\ r.id \in Nat /\ r.id <= n
      BY <1>1, <1>2
    <3> HIDE DEF now, n
    <3>2. now # {} => Latest(now) \in Ids(now)
      BY <1>2, <3>1, IdsBounded
    <3> QED BY <3>1, <3>2 DEF Ids
  <2>5. d.seen # None /\ d.seen \in Ids(log) \cup {0} /\ Cov(log, S2, d.knows, {}, d.seen)
    <3>1. CASE now = {}
      <4> HIDE DEF now, d, n, S2
      <4> QED BY <1>6, <2>1, <2>2, <3>1 DEF Entry, Cov
    <3>2. CASE now # {}
      <4>1. d.seen = Latest(now)
        BY <1>6, <3>2
      <4>2. ASSUME NEW r \in log, r.id <= Latest(now), r.event # Marker, r.id \notin S2,
                   r.event \notin c.knows
            PROVE  r.event \in News(now)
        <5>1. r.id \in Nat /\ r.id <= n
          BY <1>2, <2>4, <3>2, <4>2, BrowserFields
        <5>2. r \in fresh
          BY <2>3, <4>2, <5>1
        <5>3. PICK q \in now : q.id = Latest(now)
          BY <2>4, <3>2 DEF Ids
        <5>4. \A m \in marks : q.id < m.id /\ m.id \in Nat
          BY <1>1, <1>8, <5>3
        <5>5. \A m \in marks : r.id < m.id
          BY <2>4, <3>2, <4>2, <5>1, <5>3, <5>4
        <5>6. r \in now
          BY <1>8, <5>2, <5>5
        <5> QED BY <4>2, <5>6 DEF News
      <4>3. Cov(log, S2, d.knows, {}, d.seen)
        <5> HIDE DEF now, d, n, S2
        <5> QED BY <1>6, <4>1, <4>2 DEF Cov
      <4> HIDE DEF now, d, n, S2
      <4> QED BY <2>4, <3>2, <4>1, <4>3, NoneAssumption
    <3> QED BY <3>1, <3>2
  <2>6. d.at = "live" => Cov(log, S2, d.knows, {}, n)
    <3> SUFFICES ASSUME marks = {}, NEW r \in log, r.id <= n, r.event # Marker, r.id \notin S2,
                        r.event \notin c.knows
                 PROVE  r.event \in News(now)
      <4> HIDE DEF now, fresh, marks, d, n, S2
      <4> QED BY <1>6, <1>8 DEF Cov
    <3>1. r \in now
      BY <1>8, <2>3
    <3> QED BY <3>1 DEF News
  <2>7. d.at \in {"live", "cursor"} /\ d.cursor \in Ids(log) \cup {0}
    <3> HIDE DEF d
    <3> QED BY <1>6, <1>8 DEF Entry
  <2> HIDE DEF now, fresh, marks, d, n, S2, pos2
  <2>8. Entry(d, log, S2, pos2, state)
    BY <1>3, <1>6, <1>7, <2>5, <2>6, <2>7 DEF Entry
  <2> QED BY <2>8 DEF d, S2, pos2, n
<1>9. CASE c.at # "live"
  <2>1. now = {} /\ News(now) = {}
    BY <1>9 DEF News
  <2>2. /\ d.knows = c.knows /\ d.seen = c.seen /\ d.at = c.at /\ Base(d) = Base(c)
        /\ d.pending = c.pending \cup fresh
    <3> HIDE DEF now, d
    <3> QED BY <1>6, <1>9, <2>1 DEF Base
  <2>3. ASSUME c.at \in {"send", "replayed"}, NEW r \in log, r.id <= n, r.event # Marker,
               r.id \notin S2, r \notin d.pending
        PROVE  r.event \in Base(c)
    <3>1. /\ Cov(log, S2, Base(c), c.pending, last[p])
          /\ c.seen # None => Cov(log, S2, Base(c), {}, c.seen)
      BY <1>5, <2>3 DEF Entry
    <3>2. CASE r.id <= last[p]
      BY <2>2, <2>3, <3>1, <3>2 DEF Cov
    <3>3. CASE r.id > last[p]
      <4>1. r \in found
        BY <1>4, <2>3, <3>3
      <4>2. c.seen # None /\ ~ r.id > c.seen
        BY <2>2, <2>3, <4>1
      <4>3. r.id <= c.seen
        BY <4>2, BrowserFields
      <4> QED BY <2>3, <3>1, <4>2, <4>3 DEF Cov
    <3> QED BY <1>3, <3>2, <3>3, BrowserFields
  <2> HIDE DEF now, fresh, marks, d, n, S2, pos2
  <2>4. c.at \in {"send", "replayed"} => Cov(log, S2, Base(d), d.pending, n)
    BY <2>2, <2>3 DEF Cov
  <2>5. Entry(d, log, S2, pos2, state)
    BY <1>3, <1>5, <1>6, <1>7, <1>9, <2>2, <2>4 DEF Entry
  <2> QED BY <2>5 DEF d, S2, pos2, n
<1> QED BY <1>8, <1>9

\* A browser that is away keeps its cursor and what it knows.
LEMMA EntryGone ==
  ASSUME NEW c, NEW L, NEW S, NEW pos, NEW st, Entry(c, L, S, pos, st)
  PROVE  Entry(Gone(c), L, S, pos, st) /\ Entry(Offline, L, S, pos, st)
<1>1. /\ Gone(c).at = "off" /\ Gone(c).home = None /\ Gone(c).pending = {} /\ Gone(c).cursor = 0
      /\ Gone(c).seen = c.seen /\ Gone(c).knows = c.knows
  BY DEF Gone, Offline
<1>2. /\ Offline.at = "off" /\ Offline.home = None /\ Offline.pending = {} /\ Offline.cursor = 0
      /\ Offline.seen = None
  BY DEF Offline
<1>3. Entry(Gone(c), L, S, pos, st)
  <2> DEFINE d == Gone(c)
  <2> HIDE DEF d
  <2>1. Entry(d, L, S, pos, st)
    BY <1>1 DEF Entry, d
  <2> QED BY <2>1 DEF d
<1>4. Entry(Offline, L, S, pos, st)
  BY <1>2 DEF Entry
<1> QED BY <1>3, <1>4

\* A replay without a gap leaves out nothing that is in the table.
LEMMA EntryReplayed ==
  ASSUME TypeOK, NEW c \in Browser, Entry(c, log, skipped, last, state), c.at = "replay",
         NEW found, found = {r \in Rows : r.id > c.seen},
         Rows # {} => c.seen >= First(Rows) - 1, Rows = {} => c.seen >= seq
  PROVE  Entry([c EXCEPT !.at = "replayed", !.cursor = Latest(Rows), !.held = News(found)],
               log, skipped, last, state)
<1> DEFINE news == News(found)
           n == Latest(Rows)
           d == [c EXCEPT !.at = "replayed", !.cursor = n, !.held = news]
<1>1. /\ c.seen \in Nat /\ c.seen # None /\ Cov(log, skipped, c.knows, {}, c.seen)
  BY BrowserFields DEF Entry
<1>2. \A r \in Rows : r \in log /\ r.id \in Nat /\ r.id <= seq /\ r.id > floor
  BY RowsBounded DEF Rows
<1>3. /\ seq \in Nat /\ floor \in Nat
      /\ Rows # {} => First(Rows) \in Ids(Rows)
      /\ n \in Ids(Rows) \cup {0}
  <2>1. seq \in Nat /\ floor \in Nat
    BY DEF TypeOK
  <2>2. /\ Rows # {} => First(Rows) \in Ids(Rows)
        /\ Latest(Rows) \in Ids(Rows) \cup {0}
    BY <1>2, <2>1, IdsBounded
  <2> QED BY <2>1, <2>2
<1>4. ASSUME NEW r \in log, r.event # Marker, r.id \notin skipped PROVE r.event \in c.knows \cup news
  <2>1. r.id \in Nat /\ r.id <= seq
    BY BrowserFields
  <2>2. CASE r.id <= c.seen
    BY <1>1, <1>4, <2>2 DEF Cov
  <2>3. CASE r.id > c.seen
    <3>1. Rows # {}
      BY <1>1, <1>3, <2>1, <2>3
    <3>2. First(Rows) > floor /\ First(Rows) \in Nat
      BY <1>2, <1>3, <3>1 DEF Ids
    <3>3. r.id > floor
      BY <1>1, <1>3, <2>1, <2>3, <3>1, <3>2
    <3>4. r \in found
      BY <2>3, <3>3 DEF Rows
    <3> QED BY <1>4, <3>4 DEF News
  <2> QED BY <1>1, <2>1, <2>2, <2>3
<1>5. n \in Ids(log) \cup {0}
  BY <1>2, <1>3 DEF Ids
<1>6. /\ d.at = "replayed" /\ d.cursor = n /\ d.held = news /\ d.home = c.home /\ d.seen = c.seen
      /\ d.pending = c.pending /\ d.knows = c.knows
  BY DEF Browser
<1> HIDE DEF news, n, d
<1>7. \A P, m : Cov(log, skipped, Base(d), P, m)
  BY <1>4, <1>6 DEF Cov, Base
<1>8. Entry(d, log, skipped, last, state)
  BY <1>1, <1>5, <1>6, <1>7 DEF Entry
<1> QED BY <1>8 DEF d, n, news

\* A step of a client keeps its entry whole.
LEMMA ClientsSee ==
  ASSUME TypeOK, EventsAreMade, Entries, NEW k \in Clients,
         \/ \E p \in Processes : Connect(k, p)
         \/ Syncing(k) \/ Disconnect(k) \/ Reload(k)
  PROVE  \A j \in Clients : Entry(client'[j], log', skipped', last', state')
<1> DEFINE c == client[k]
<1>1. c \in Browser /\ client \in [Clients -> Browser] /\ Entry(c, log, skipped, last, state)
  BY DEF TypeOK, Entries
<1> SUFFICES \E d : Moves(k, d) /\ Entry(d, log, skipped, last, state)
  <2> SUFFICES ASSUME NEW d, Moves(k, d), Entry(d, log, skipped, last, state), NEW j \in Clients
               PROVE  Entry(client'[j], log', skipped', last', state')
    OBVIOUS
  <2>1. client'[j] = IF j = k THEN d ELSE client[j]
    BY <1>1 DEF Moves
  <2>2. log' = log /\ skipped' = skipped /\ last' = last /\ state' = state
    BY DEF Moves, database, listener
  <2>3. Entry(client'[j], log, skipped, last, state)
    BY <2>1 DEF Entries
  <2> QED BY <2>2, <2>3
<1> HIDE DEF c
<1>2. Latest(Rows) \in Ids(log) \cup {0}
  <2>1. \A r \in Rows : r \in log /\ r.id \in Nat /\ r.id <= seq
    BY RowsBounded
  <2>2. Latest(Rows) \in Ids(Rows) \cup {0}
    BY <2>1, IdsBounded DEF TypeOK
  <2> QED BY <2>1, <2>2 DEF Ids
<1>3. CASE \E p \in Processes : Connect(k, p)
  <2>1. PICK p \in Processes : Connect(k, p)
    BY <1>3
  <2> DEFINE at == IF c.seen = None THEN "cursor" ELSE "replay"
             d  == [c EXCEPT !.at = at, !.home = p]
  <2>2. c.at = "off" /\ state[p] = "up" /\ Moves(k, d)
    BY <2>1 DEF Connect, c
  <2>3. /\ at \in {"cursor", "replay"} /\ (at = "replay" => c.seen # None)
    OBVIOUS
  <2> HIDE DEF at
  <2>4. /\ d.at = at /\ d.home = p /\ d.seen = c.seen /\ d.pending = c.pending
        /\ d.cursor = c.cursor /\ d.knows = c.knows
    BY <1>1 DEF Browser
  <2> HIDE DEF d
  <2>5. Entry(d, log, skipped, last, state)
    BY <1>1, <2>2, <2>3, <2>4 DEF Entry
  <2> QED BY <2>2, <2>5
<1>4. CASE ReadCursor(k)
  <2> DEFINE n == Latest(Rows)
             d == [c EXCEPT !.at = "lists", !.cursor = n]
  <2>1. c.at = "cursor" /\ Moves(k, d)
    BY <1>4 DEF ReadCursor, c
  <2> HIDE DEF n
  <2>2. /\ d.at = "lists" /\ d.home = c.home /\ d.seen = c.seen /\ d.pending = c.pending
        /\ d.cursor = n /\ d.knows = c.knows
    BY <1>1 DEF Browser
  <2> HIDE DEF d
  <2>3. Entry(d, log, skipped, last, state)
    BY <1>1, <1>2, <2>1, <2>2 DEF Entry, n
  <2> QED BY <2>1, <2>3
<1>5. CASE ReadLists(k)
  <2> DEFINE d == [c EXCEPT !.at = "send", !.held = made, !.owed = {}]
  <2>1. c.at = "lists" /\ Moves(k, d)
    BY <1>5 DEF ReadLists, c
  <2>2. /\ d.at = "send" /\ d.home = c.home /\ d.seen = c.seen /\ d.pending = c.pending
        /\ d.cursor = c.cursor /\ d.knows = c.knows /\ d.held = made
    BY <1>1 DEF Browser
  <2> HIDE DEF d
  <2>3. \A P, m : Cov(log, skipped, Base(d), P, m)
    BY <2>2 DEF Cov, Base, EventsAreMade
  <2>4. Entry(d, log, skipped, last, state)
    BY <1>1, <2>1, <2>2, <2>3 DEF Entry
  <2> QED BY <2>1, <2>4
<1>6. CASE SendSnapshot(k) \/ SendReplayed(k)
  <2>1. c.at \in {"send", "replayed"} /\ Moves(k, Released(c, Base(c), c.cursor))
    BY <1>6 DEF SendSnapshot, SendReplayed, Base, c
  <2> QED BY <1>1, <2>1, EntryReleased
<1>7. CASE Replay(k)
  <2> DEFINE found == {r \in Rows : r.id > c.seen}
  <2>1. /\ c.at = "replay"
        /\ \/ Moves(k, [c EXCEPT !.at = "cursor"])
           \/ /\ ~ (Rows # {} /\ c.seen < First(Rows) - 1) /\ ~ (Rows = {} /\ c.seen < seq)
              /\ Moves(k, [c EXCEPT !.at = "replayed", !.cursor = Latest(Rows), !.held = News(found)])
    BY <1>7 DEF Replay, c
  <2>2. CASE Moves(k, [c EXCEPT !.at = "cursor"])
    <3> DEFINE d == [c EXCEPT !.at = "cursor"]
    <3>1. /\ d.at = "cursor" /\ d.home = c.home /\ d.seen = c.seen /\ d.pending = c.pending
          /\ d.cursor = c.cursor /\ d.knows = c.knows
      BY <1>1 DEF Browser
    <3> HIDE DEF d
    <3>2. Entry(d, log, skipped, last, state)
      BY <1>1, <2>1, <3>1 DEF Entry
    <3> QED BY <2>2, <3>2 DEF d
  <2>3. CASE /\ ~ (Rows # {} /\ c.seen < First(Rows) - 1) /\ ~ (Rows = {} /\ c.seen < seq)
             /\ Moves(k, [c EXCEPT !.at = "replayed", !.cursor = Latest(Rows), !.held = News(found)])
    <3>1. c.seen \in Nat /\ First(Rows) \in Nat /\ seq \in Nat
      BY <1>1, <2>1, BrowserFields, RowsBounded DEF Entry, TypeOK
    <3>2. /\ Rows # {} => c.seen >= First(Rows) - 1
          /\ Rows = {} => c.seen >= seq
      BY <2>3, <3>1
    <3>3. Entry([c EXCEPT !.at = "replayed", !.cursor = Latest(Rows), !.held = News(found)],
                log, skipped, last, state)
      BY <1>1, <2>1, <3>2, EntryReplayed
    <3> QED BY <2>3, <3>3
  <2> QED BY <2>1, <2>2, <2>3
<1>8. CASE Disconnect(k) \/ Reload(k)
  BY <1>1, <1>8, EntryGone DEF Disconnect, Reload, c
<1> QED BY <1>3, <1>4, <1>5, <1>6, <1>7, <1>8 DEF Syncing

-----------------------------------------------------------------------------
(* What most steps leave alone.                                            *)

EntriesAfter == \A k \in Clients : Entry(client'[k], log', skipped', last', state')

\* What one #drain has read is not ahead of the sequence.
Sound(d, n) == d.water <= n /\ d.latest <= n /\ (d.first # 0 => d.first <= d.latest)

\* Queues that lose events, and changes that are added.
LEMMA EventsKept ==
  ASSUME EventsAreMade, log' = log, made \subseteq made',
         \A q \in Processes : queue'[q] = queue[q] \/ queue'[q] = <<>>
  PROVE  EventsAreMade'
BY DEF EventsAreMade

\* Without a new row, ids stay unique.
LEMMA IdsKept == IdsAreUnique /\ log' = log => IdsAreUnique'
BY DEF IdsAreUnique

\* Nothing comes into flight unless it is drawn.
LEMMA FlightKept ==
  ASSUME log' = log,
         \A q \in Processes :
           flush'[q].at = "drawn" => flush[q].at = "drawn" /\ flush'[q].id = flush[q].id
  PROVE  InFlight' \subseteq InFlight
<1>1. Ids(log)' = Ids(log)
  BY DEF Ids
<1> QED BY <1>1 DEF InFlight

\* Positions that do not move.
LEMMA PositionsKept ==
  ASSUME PositionsAreDrawn, last' = last, seq' = seq, skipped \subseteq skipped',
         InFlight' \subseteq InFlight, \A q \in Processes : Sound(drain'[q], seq)
  PROVE  PositionsAreDrawn'
BY DEF PositionsAreDrawn, Sound

\* What is noted in drain stays sound.
LEMMA DrainSound ==
  ASSUME TypeOK, PositionsAreDrawn, NEW p \in Processes
  PROVE  /\ \A q \in Processes : Sound(drain[q], seq)
         /\ \A q \in Processes : Sound(Drained(p)[q], seq)
         /\ DrainEnds(p) => \A q \in Processes : Sound(drain'[q], seq)
<1>1. seq \in Nat /\ drain \in [Processes -> Drain] /\ \A q \in Processes : Sound(drain[q], seq)
  BY DEF TypeOK, PositionsAreDrawn, Sound
<1>2. \A q \in Processes : Sound(Drained(p)[q], seq)
  <2>1. /\ Drained(p)[p].water = drain[p].water /\ Drained(p)[p].latest = drain[p].latest
        /\ Drained(p)[p].first = drain[p].first
        /\ \A q \in Processes \ {p} : Drained(p)[q] = drain[q]
    BY <1>1 DEF Drained, Drain
  <2> QED BY <1>1, <2>1 DEF Sound
<1>3. DrainEnds(p) => \A q \in Processes : Sound(drain'[q], seq)
  <2> SUFFICES ASSUME DrainEnds(p) PROVE \A q \in Processes : Sound(drain'[q], seq)
    OBVIOUS
  <2>1. /\ drain'[p].water = 0 /\ drain'[p].latest = 0 /\ drain'[p].first = 0
        /\ \A q \in Processes \ {p} : drain'[q] = drain[q]
    BY <1>1 DEF DrainEnds, IdleDrain
  <2> QED BY <1>1, <2>1 DEF Sound
<1> QED BY <1>1, <1>2, <1>3

\* Entries that do not change, next to processes that move elsewhere.
LEMMA EntriesKept ==
  ASSUME Entries, log' = log, client' = client, skipped \subseteq skipped',
         \A k \in Clients : client[k].at # "off" =>
           /\ last'[client[k].home] = last[client[k].home]
           /\ state'[client[k].home] = state[client[k].home]
  PROVE  EntriesAfter
<1> SUFFICES ASSUME NEW k \in Clients PROVE Entry(client[k], log, skipped', last', state')
  BY DEF EntriesAfter
<1> QED BY EntryKept DEF Entries

-----------------------------------------------------------------------------
(* The steps of a publisher.                                               *)

\* Views, as the steps change them.
Seen == EventsAreMade /\ IdsAreUnique /\ PositionsAreDrawn /\ Entries
SeenAfter == EventsAreMade' /\ IdsAreUnique' /\ PositionsAreDrawn' /\ EntriesAfter

\* Queueing an event, or beginning or giving up a turn.
LEMMA IdleSeen ==
  ASSUME IInv, Seen, NEW p \in Processes,
         (\E c \in Changes : Change(p, c)) \/ Retry(p) \/ PersistFails(p)
  PROVE  SeenAfter
<1>1. /\ seq' = seq /\ log' = log /\ state' = state /\ last' = last /\ drain' = drain
      /\ client' = client /\ skipped' = skipped
  BY DEF Change, Retry, PersistFails, database, listener
<1>2. flush \in [Processes -> Flush] /\ queue \in [Processes -> Seq(Changes \cup {Marker})] /\ TypeOK
  BY DEF IInv, TypeOK
<1>3. \A q \in Processes :
        flush'[q].at = "drawn" => flush[q].at = "drawn" /\ flush'[q].id = flush[q].id
  <2>1. flush' = flush \/ flush' = Kick(p) \/ flush' = [flush EXCEPT ![p].at = "idle", ![p].id = 0]
    BY DEF Change, Retry, PersistFails, publisher
  <2> QED BY <1>2, <2>1 DEF Kick, Flush
<1>4. InFlight' \subseteq InFlight
  BY <1>1, <1>3, FlightKept
<1>5. PositionsAreDrawn'
  BY <1>1, <1>2, <1>4, PositionsKept, DrainSound DEF Seen
<1>6. EventsAreMade'
  <2>1. CASE queue' = queue
    <3>1. made \subseteq made'
      BY DEF Change, Retry, PersistFails, database
    <3> QED BY <1>1, <2>1, <3>1, EventsKept DEF Seen
  <2>2. ASSUME NEW c \in Changes, made' = made \cup {c}, queue' = [queue EXCEPT ![p] = Append(@, c)]
        PROVE  EventsAreMade'
    <3>1. /\ \A q \in Processes \ {p} : queue'[q] = queue[q]
          /\ queue'[p] = Append(queue[p], c) /\ queue[p] \in Seq(Changes \cup {Marker})
      BY <1>2, <2>2
    <3>2. \A i \in 1..Len(queue'[p]) : queue'[p][i] \in made' \cup {Marker}
      BY <2>2, <3>1 DEF Seen, EventsAreMade
    <3> QED BY <1>1, <2>2, <3>1, <3>2 DEF Seen, EventsAreMade
  <2> QED BY <2>1, <2>2 DEF Change, Retry, PersistFails, publisher
<1>7. IdsAreUnique' /\ EntriesAfter
  BY <1>1, IdsKept, EntriesKept DEF Seen
<1> QED BY <1>5, <1>6, <1>7 DEF SeenAfter

\* A number is drawn that no process has reached.
LEMMA DrawSeen ==
  ASSUME IInv, Seen, NEW p \in Processes, Draw(p)
  PROVE  SeenAfter
<1>1. /\ seq' = seq + 1 /\ made' = made /\ log' = log /\ state' = state /\ last' = last
      /\ drain' = drain /\ client' = client /\ skipped' = skipped /\ queue' = queue
  BY DEF Draw, listener
<1>2. /\ flush \in [Processes -> Flush] /\ TypeOK /\ seq \in Nat /\ floor \in Nat
      /\ last \in [Processes -> Nat] /\ drain \in [Processes -> Drain]
  BY DEF IInv, TypeOK
<1>3. /\ \A q \in Processes \ {p} : flush'[q].at # "drawn"
      /\ flush'[p].id = IF flush[p].written > floor THEN flush[p].written ELSE seq + 1
  BY <1>2 DEF Draw, Locked, Flush
<1>4. \A n \in InFlight' : n = seq + 1
  <2> SUFFICES ASSUME NEW n \in InFlight', n # seq + 1 PROVE FALSE
    OBVIOUS
  <2>1. n = flush'[p].id /\ n \notin Ids(log)
    BY <1>1, <1>3 DEF InFlight, Ids
  <2>2. n = flush[p].written /\ flush[p].written # 0
    BY <1>2, <1>3, <2>1 DEF Flush
  <2>3. [id |-> n, event |-> Head(queue[p])] \in log
    BY <2>2 DEF IInv, WrittenIsHead
  <2>4. [id |-> n, event |-> Head(queue[p])].id \in Ids(log)
    BY <2>3 DEF Ids
  <2> QED BY <2>1, <2>4
<1>5. PositionsAreDrawn'
  <2>1. \A q \in Processes : last[q] <= seq /\ last[q] \in Nat
    BY <1>2 DEF Seen, PositionsAreDrawn
  <2>2. \A q \in Processes, n \in InFlight' : ~ n <= last'[q]
    BY <1>1, <1>2, <1>4, <2>1
  <2>3. \A q \in Processes : drain'[q] \in Drain /\ last'[q] \in Nat
    BY <1>1, <1>2
  <2>4. \A q \in Processes : /\ last'[q] <= seq' /\ drain'[q].water <= seq' /\ drain'[q].latest <= seq'
                             /\ drain'[q].first # 0 => drain'[q].first <= drain'[q].latest
    BY <1>1, <1>2, <2>3 DEF Seen, PositionsAreDrawn, Drain
  <2> QED BY <2>2, <2>4 DEF PositionsAreDrawn
<1>6. EventsAreMade' /\ IdsAreUnique' /\ EntriesAfter
  BY <1>1, EventsKept, IdsKept, EntriesKept DEF Seen
<1> QED BY <1>5, <1>6 DEF SeenAfter

\* A commit adds a row whose event is made, and which every process that is
\* past it has skipped.
LEMMA CommitSeen ==
  ASSUME IInv, Seen, TypeOK', NEW p \in Processes, Commit(p) \/ CommitUnanswered(p)
  PROVE  SeenAfter
<1> DEFINE r == [id |-> flush[p].id, event |-> Head(queue[p])]
<1>1. /\ flush[p].at = "drawn" /\ Committed(p) /\ made' = made /\ seq' = seq /\ state' = state
      /\ last' = last /\ drain' = drain /\ client' = client /\ skipped' = skipped
  BY DEF Commit, CommitUnanswered, Committed
<1>2. log' = log \cup {r} /\ (r \in log \/ \A q \in log : q.id < r.id)
  BY <1>1, RowCommitted
<1>3. /\ flush \in [Processes -> Flush] /\ queue \in [Processes -> Seq(Changes \cup {Marker})]
      /\ queue[p] # <<>> /\ TypeOK /\ last \in [Processes -> Nat] /\ client \in [Clients -> Browser]
  BY <1>1 DEF IInv, TypeOK, BusyHasEvent
<1>4. r \in Row
  BY <1>2 DEF TypeOK
<1>5. \A n \in InFlight' : FALSE
  <2>1. \A q \in Processes : flush'[q].at # "drawn"
    <3>1. \A q \in Processes \ {p} : flush[q].at # "drawn"
      BY <1>1 DEF IInv, OneHolder
    <3>2. CASE Commit(p)
      BY <1>3, <3>1, <3>2 DEF Commit, IdleFlush
    <3>3. CASE CommitUnanswered(p)
      BY <1>3, <3>1, <3>3 DEF CommitUnanswered, IdleFlush
    <3> QED BY <3>2, <3>3
  <2> QED BY <2>1 DEF InFlight
<1>6. PositionsAreDrawn'
  BY <1>1, <1>3, <1>5, PositionsKept, DrainSound DEF Seen
<1>7. EventsAreMade'
  <2>1. Head(queue[p]) \in made \cup {Marker}
    BY <1>3 DEF Seen, EventsAreMade
  <2>2. \A q \in log' : q.event \in made \cup {Marker}
    BY <1>2, <2>1 DEF Seen, EventsAreMade
  <2>3. \A q \in Processes : \A i \in 1..Len(queue'[q]) : queue'[q][i] \in made \cup {Marker}
    <3>1. \A q \in Processes : \A i \in 1..Len(queue[q]) : queue[q][i] \in made \cup {Marker}
      BY DEF Seen, EventsAreMade
    <3>2. CASE queue' = queue
      BY <3>1, <3>2
    <3>3. CASE queue' = [queue EXCEPT ![p] = <<Marker>>]
      <4>1. queue'[p] = <<Marker>> /\ \A q \in Processes \ {p} : queue'[q] = queue[q]
        BY <1>3, <3>3
      <4> QED BY <3>1, <4>1
    <3>4. CASE queue' = [queue EXCEPT ![p] = Tail(@)]
      <4>1. /\ queue'[p] = Tail(queue[p]) /\ \A q \in Processes \ {p} : queue'[q] = queue[q]
            /\ queue[p] \in Seq(Changes \cup {Marker})
        BY <1>3, <3>4
      <4>2. \A i \in 1..Len(queue'[p]) : queue'[p][i] \in made \cup {Marker}
        BY <1>3, <3>1, <4>1
      <4> QED BY <3>1, <4>1, <4>2
    <3> QED BY <3>2, <3>3, <3>4 DEF Commit, CommitUnanswered
  <2> QED BY <1>1, <2>2, <2>3 DEF EventsAreMade
<1>8. IdsAreUnique'
  <2>1. \A q \in log : q.id \in Nat /\ r.id \in Nat
    BY <1>3, <1>4, BrowserFields DEF TypeOK, Row
  <2> HIDE DEF r
  <2> QED BY <1>2, <2>1 DEF Seen, IdsAreUnique
<1>9. r \in log \/ \A q \in Processes : r.id <= last[q] => r.id \in skipped
  <2> SUFFICES ASSUME r \notin log PROVE r.id \in InFlight
    BY DEF Seen, PositionsAreDrawn
  <2>1. r.id \notin Ids(log)
    <3>1. \A q \in log : q.id \in Nat /\ q.id < r.id /\ r.id \in Nat
      BY <1>2, <1>3, <1>4 DEF TypeOK, Row
    <3> HIDE DEF r
    <3> QED BY <3>1 DEF Ids
  <2> QED BY <1>1, <2>1 DEF InFlight
<1>10. EntriesAfter
  <2> SUFFICES ASSUME NEW k \in Clients PROVE Entry(client[k], log \cup {r}, skipped, last, state)
    BY <1>1, <1>2 DEF EntriesAfter
  <2>1. client[k] \in Browser /\ Entry(client[k], log, skipped, last, state)
    BY <1>3 DEF Seen, Entries
  <2> HIDE DEF r
  <2> QED BY <1>2, <1>3, <1>4, <1>9, <2>1, EntryGrows
<1> QED BY <1>6, <1>7, <1>8, <1>10 DEF SeenAfter

-----------------------------------------------------------------------------
(* The steps of a listener.                                                *)

\* Notifications, faults of the connection, and what a drain reads first.
LEMMA NoteSeen ==
  ASSUME IInv, Seen, NEW p \in Processes,
         \/ Notice(p) \/ Listen(p) \/ ListenerFails(p) \/ DrainFails(p)
         \/ DrainBounds(p) \/ DrainWater(p)
  PROVE  SeenAfter
<1>1. /\ made' = made /\ seq' = seq /\ log' = log /\ state' = state /\ last' = last
      /\ client' = client /\ skipped' = skipped /\ queue' = queue /\ flush' = flush
  BY DEF Notice, Listen, ListenerFails, DrainFails, DrainBounds, DrainWater, database, publisher
<1>2. TypeOK /\ drain \in [Processes -> Drain] /\ seq \in Nat /\ PositionsAreDrawn
  BY DEF IInv, TypeOK, Seen
<1>3. \A q \in Processes : Sound(drain'[q], seq)
  <2>1. CASE drain' = drain \/ drain' = Drained(p) \/ DrainEnds(p)
    BY <1>2, <2>1, DrainSound
  <2>2. CASE DrainBounds(p)
    <3> DEFINE m == First(Rows)
               n == Latest(Rows)
    <3>1. n <= seq /\ (m # 0 => m <= n)
      <4>1. \A r \in Rows : r.id \in Nat /\ r.id <= seq
        BY <1>2, RowsBounded
      <4>2. n <= seq /\ (\A r \in Rows : m <= r.id) /\ (Rows # {} => n \in Ids(Rows))
        BY <1>2, <4>1, IdsBounded
      <4>3. Rows = {} => m = 0
        BY DEF First
      <4> HIDE DEF m, n
      <4> QED BY <4>2, <4>3 DEF Ids
    <3>2. drain' = [drain EXCEPT ![p].at = "water", ![p].first = m, ![p].latest = n]
      BY <2>2 DEF DrainBounds
    <3> HIDE DEF m, n
    <3>3. /\ drain'[p].first = m /\ drain'[p].latest = n /\ drain'[p].water = drain[p].water
          /\ \A q \in Processes \ {p} : drain'[q] = drain[q]
      BY <1>2, <3>2 DEF Drain
    <3> QED BY <1>2, <3>1, <3>3, DrainSound DEF Sound
  <2>3. CASE DrainWater(p)
    <3>1. /\ drain'[p].first = drain[p].first /\ drain'[p].latest = drain[p].latest
          /\ drain'[p].water = seq /\ \A q \in Processes \ {p} : drain'[q] = drain[q]
      BY <1>2, <2>3 DEF DrainWater, Drain
    <3> QED BY <1>2, <3>1, DrainSound DEF Sound
  <2> QED BY <2>1, <2>2, <2>3 DEF Notice, Listen, ListenerFails, DrainFails
<1>4. PositionsAreDrawn'
  <2>1. InFlight' \subseteq InFlight
    BY <1>1, FlightKept
  <2> QED BY <1>1, <1>2, <1>3, <2>1, PositionsKept
<1>5. EventsAreMade' /\ IdsAreUnique' /\ EntriesAfter
  BY <1>1, EventsKept, IdsKept, EntriesKept DEF Seen
<1> QED BY <1>4, <1>5 DEF SeenAfter

\* A process that moves on to n has skipped what is in flight up to n.
LEMMA PositionsPassed ==
  ASSUME IInv, PositionsAreDrawn, NEW p \in Processes, NEW n \in Nat, last[p] <= n, n <= seq,
         last' = [last EXCEPT ![p] = n], seq' = seq, log' = log, flush' = flush,
         skipped \subseteq skipped', \A m \in (last[p] + 1)..n : m \in Ids(log) \cup skipped',
         \A q \in Processes : Sound(drain'[q], seq)
  PROVE  PositionsAreDrawn'
<1>1. last \in [Processes -> Nat] /\ \A q \in Processes : flush[q].id \in Nat
  BY DEF IInv, TypeOK, Flush
<1>2. InFlight' \subseteq InFlight
  BY FlightKept
<1>3. \A m \in InFlight : m \in Nat /\ m \notin Ids(log)
  BY <1>1 DEF InFlight
<1>4. ASSUME NEW q \in Processes, NEW m \in InFlight, m <= last'[q] PROVE m \in skipped'
  <2>1. CASE q = p /\ m > last[p]
    BY <1>1, <1>3, <1>4, <2>1
  <2>2. CASE q # p \/ m <= last[p]
    BY <1>1, <1>4, <2>2 DEF PositionsAreDrawn
  <2> QED BY <1>1, <1>3, <2>1, <2>2
<1>5. \A q \in Processes : last'[q] <= seq
  BY <1>1 DEF PositionsAreDrawn
<1> QED BY <1>2, <1>4, <1>5 DEF PositionsAreDrawn, Sound

\* A gap that is passed.
LEMMA PassSeen ==
  ASSUME IInv, Seen, NEW p \in Processes, NEW n \in Nat, last[p] <= n, n <= seq, PassTo(p, n),
         UNCHANGED <<database, state, publisher>>
  PROVE  SeenAfter
<1>1. /\ made' = made /\ seq' = seq /\ log' = log /\ state' = state /\ queue' = queue /\ flush' = flush
      /\ last' = [last EXCEPT ![p] = n] /\ skipped' = skipped \cup ((last[p] + 1)..n)
      /\ client' = Gap(p) /\ DrainEnds(p)
  BY DEF PassTo, database, publisher
<1>2. TypeOK /\ client \in [Clients -> Browser] /\ last \in [Processes -> Nat] /\ PositionsAreDrawn
  BY DEF IInv, TypeOK, Seen
<1>3. PositionsAreDrawn'
  <2>1. \A q \in Processes : Sound(drain'[q], seq)
    BY <1>1, <1>2, DrainSound
  <2>2. skipped \subseteq skipped' /\ \A m \in (last[p] + 1)..n : m \in Ids(log) \cup skipped'
    BY <1>1
  <2>3. last' = [last EXCEPT ![p] = n] /\ seq' = seq /\ log' = log /\ flush' = flush
    BY <1>1
  <2> QED BY <1>2, <2>1, <2>2, <2>3, PositionsPassed
<1>4. EntriesAfter
  <2> SUFFICES ASSUME NEW k \in Clients PROVE Entry(client'[k], log, skipped', last', state)
    BY <1>1 DEF EntriesAfter
  <2>1. client[k] \in Browser /\ Entry(client[k], log, skipped, last, state)
    BY <1>2 DEF Seen, Entries
  <2>2. CASE client[k].home = p
    <3>1. client'[k] = Refreshed(client[k])
      BY <1>1, <2>2 DEF Gap
    <3>2. Entry(Refreshed(client[k]), log, skipped \cup ((last[p] + 1)..n),
                [last EXCEPT ![p] = n], state)
      BY <1>2, <2>1, <2>2, EntryPassed
    <3> QED BY <1>1, <3>1, <3>2
  <2>3. CASE client[k].home # p
    <3>1. client'[k] = client[k]
      BY <1>1, <2>3 DEF Gap
    <3>2. client[k].at # "off" => last'[client[k].home] = last[client[k].home]
      BY <1>1, <1>2, <2>1, <2>3 DEF Entry
    <3>3. skipped \subseteq skipped'
      BY <1>1
    <3> QED BY <2>1, <3>1, <3>2, <3>3, EntryKept
  <2> QED BY <2>2, <2>3
<1>5. EventsAreMade' /\ IdsAreUnique'
  BY <1>1, EventsKept, IdsKept DEF Seen
<1> QED BY <1>3, <1>4, <1>5 DEF SeenAfter

\* Rows that are delivered.
LEMMA DeliverSeen ==
  ASSUME IInv, Seen, NEW p \in Processes, NEW found, found = {r \in Rows : r.id > last[p]}, found # {},
         last' = [last EXCEPT ![p] = Latest(found)],
         client' = [k \in Clients |-> IF client[k].home = p THEN Sent(client[k], found) ELSE client[k]],
         drain' = [drain EXCEPT ![p] = [IdleDrain EXCEPT !.at = "bounds", !.again = drain[p].again]],
         skipped' = skipped \cup (((last[p] + 1)..Latest(found)) \ Ids(found)),
         UNCHANGED <<database, state, publisher>>
  PROVE  SeenAfter
<1>1. made' = made /\ seq' = seq /\ log' = log /\ state' = state /\ queue' = queue /\ flush' = flush
  BY DEF database, publisher
<1>2. /\ TypeOK /\ client \in [Clients -> Browser] /\ last \in [Processes -> Nat] /\ PositionsAreDrawn
      /\ drain \in [Processes -> Drain] /\ seq \in Nat
  BY DEF IInv, TypeOK, Seen
<1>3. \A r \in found : r \in log /\ r.id \in Nat /\ r.id <= seq /\ r.id > last[p]
  BY <1>2, RowsBounded
<1>4. /\ Latest(found) \in Nat /\ Latest(found) <= seq /\ last[p] <= Latest(found)
      /\ Ids(found) \subseteq Ids(log)
  <2>1. /\ Latest(found) \in 0..seq /\ Latest(found) \in Ids(found)
    BY <1>2, <1>3, IdsBounded
  <2>2. \A n \in Ids(found) : n > last[p] /\ n \in Nat
    BY <1>3 DEF Ids
  <2>3. Ids(found) \subseteq Ids(log)
    BY <1>3 DEF Ids
  <2> QED BY <1>2, <2>1, <2>2, <2>3
<1>5. PositionsAreDrawn'
  <2>1. /\ drain'[p].water = 0 /\ drain'[p].latest = 0 /\ drain'[p].first = 0
        /\ \A q \in Processes \ {p} : drain'[q] = drain[q]
    BY <1>2 DEF IdleDrain
  <2>2. \A q \in Processes : Sound(drain'[q], seq)
    BY <1>2, <2>1, DrainSound DEF Sound
  <2>3. skipped \subseteq skipped' /\ \A m \in (last[p] + 1)..Latest(found) : m \in Ids(log) \cup skipped'
    BY <1>4
  <2> QED BY <1>1, <1>2, <1>4, <2>2, <2>3, PositionsPassed
<1>6. EntriesAfter
  <2> SUFFICES ASSUME NEW k \in Clients PROVE Entry(client'[k], log, skipped', last', state)
    BY <1>1 DEF EntriesAfter
  <2>1. client[k] \in Browser /\ Entry(client[k], log, skipped, last, state)
    BY <1>2 DEF Seen, Entries
  <2>2. CASE client[k].home = p
    <3>1. client'[k] = Sent(client[k], found)
      BY <2>2
    <3>2. Entry(Sent(client[k], found), log,
                skipped \cup (((last[p] + 1)..Latest(found)) \ Ids(found)),
                [last EXCEPT ![p] = Latest(found)], state)
      BY <1>2, <2>1, <2>2, EntrySent DEF Seen
    <3> QED BY <3>1, <3>2
  <2>3. CASE client[k].home # p
    <3>1. client'[k] = client[k]
      BY <2>3
    <3>2. client[k].at # "off" => last'[client[k].home] = last[client[k].home]
      BY <1>2, <2>1, <2>3 DEF Entry
    <3>3. skipped \subseteq skipped'
      OBVIOUS
    <3>4. Entry(client[k], log, skipped', last', state)
      BY ONLY <2>1, <3>2, <3>3, EntryKept
    <3> QED BY <3>1, <3>4
  <2> QED BY <2>2, <2>3
<1>7. EventsAreMade' /\ IdsAreUnique'
  BY <1>1, EventsKept, IdsKept DEF Seen
<1> QED BY <1>5, <1>6, <1>7 DEF SeenAfter

\* One turn of a drain.
LEMMA RowsSeen ==
  ASSUME IInv, Seen, NEW p \in Processes, DrainRows(p)
  PROVE  SeenAfter
<1> DEFINE d == drain[p]
           found == {r \in Rows : r.id > last[p]}
<1>1. /\ made' = made /\ seq' = seq /\ log' = log /\ state' = state /\ queue' = queue /\ flush' = flush
      /\ UNCHANGED <<database, state, publisher>>
  BY DEF DrainRows, database, publisher
<1>2. /\ TypeOK /\ last[p] \in Nat /\ PositionsAreDrawn /\ seq \in Nat
      /\ d.first \in Nat /\ d.latest \in Nat /\ d.water \in Nat
      /\ d.latest <= seq /\ d.water <= seq /\ (d.first # 0 => d.first <= d.latest)
  BY DEF IInv, TypeOK, Seen, Drain, PositionsAreDrawn
<1>3. \/ d.first # 0 /\ last[p] < d.first - 1 /\ PassTo(p, d.latest)
      \/ last[p] < d.water /\ PassTo(p, d.water)
      \/ DrainEnds(p) /\ UNCHANGED <<last, client, skipped>>
      \/ /\ found # {}
         /\ last' = [last EXCEPT ![p] = Latest(found)]
         /\ client' = [k \in Clients |-> IF client[k].home = p
                                         THEN Sent(client[k], found) ELSE client[k]]
         /\ drain' = [drain EXCEPT ![p] = [IdleDrain EXCEPT !.at = "bounds", !.again = d.again]]
         /\ skipped' = skipped \cup (((last[p] + 1)..Latest(found)) \ Ids(found))
  BY DEF DrainRows
<1>4. CASE d.first # 0 /\ last[p] < d.first - 1 /\ PassTo(p, d.latest)
  <2>1. last[p] <= d.latest
    BY <1>2, <1>4
  <2> QED BY <1>1, <1>2, <1>4, <2>1, PassSeen
<1>5. CASE last[p] < d.water /\ PassTo(p, d.water)
  <2>1. last[p] <= d.water
    BY <1>2, <1>5
  <2> QED BY <1>1, <1>2, <1>5, <2>1, PassSeen
<1>6. CASE DrainEnds(p) /\ UNCHANGED <<last, client, skipped>>
  <2>1. InFlight' \subseteq InFlight
    BY <1>1, FlightKept
  <2>2. PositionsAreDrawn'
    BY <1>1, <1>2, <1>6, <2>1, PositionsKept, DrainSound
  <2>3. EventsAreMade' /\ IdsAreUnique' /\ EntriesAfter
    BY <1>1, <1>6, EventsKept, IdsKept, EntriesKept DEF Seen
  <2> QED BY <2>2, <2>3 DEF SeenAfter
<1>7. CASE /\ found # {}
           /\ last' = [last EXCEPT ![p] = Latest(found)]
           /\ client' = [k \in Clients |-> IF client[k].home = p
                                           THEN Sent(client[k], found) ELSE client[k]]
           /\ drain' = [drain EXCEPT ![p] = [IdleDrain EXCEPT !.at = "bounds", !.again = d.again]]
           /\ skipped' = skipped \cup (((last[p] + 1)..Latest(found)) \ Ids(found))
  BY <1>1, <1>7, DeliverSeen
<1> QED BY <1>3, <1>4, <1>5, <1>6, <1>7

-----------------------------------------------------------------------------
(* The life of a process, and retention.                                   *)

\* Nobody is connected to a process that is not up.
LEMMA HomesAreUp ==
  ASSUME Seen, NEW p \in Processes, state[p] # "up", NEW k \in Clients
  PROVE  client[k].home # p
BY NoneAssumption DEF Seen, Entries, Entry

\* Entries when the sockets of a process are closed.
LEMMA EntriesLeft ==
  ASSUME Entries, NEW p \in Processes, log' = log, last' = last, skipped' = skipped,
         \A q \in Processes \ {p} : state'[q] = state[q],
         client' = [k \in Clients |-> IF client[k].home = p THEN Gone(client[k]) ELSE client[k]]
  PROVE  EntriesAfter
<1> SUFFICES ASSUME NEW k \in Clients PROVE Entry(client'[k], log, skipped, last, state')
  BY DEF EntriesAfter
<1>1. Entry(client[k], log, skipped, last, state)
  BY DEF Entries
<1>2. CASE client[k].home = p
  <2>1. client'[k] = Gone(client[k])
    BY <1>2
  <2>2. Gone(client[k]).at = "off"
    BY DEF Gone, Offline
  <2>3. Entry(Gone(client[k]), log, skipped, last, state)
    BY <1>1, EntryGone
  <2> HIDE DEF Gone
  <2>4. Entry(Gone(client[k]), log, skipped, last, state')
    BY <2>2, <2>3, EntryKept
  <2> QED BY <2>1, <2>4
<1>3. CASE client[k].home # p
  <2>1. client'[k] = client[k]
    BY <1>3
  <2>2. client[k].at # "off" => state'[client[k].home] = state[client[k].home]
    BY <1>1, <1>3 DEF Entry
  <2> QED BY <1>1, <2>1, <2>2, EntryKept
<1> QED BY <1>2, <1>3

\* A process that closes, ends or begins.
LEMMA LifeSeen ==
  ASSUME IInv, Seen, NEW p \in Processes,
         CloseBegins(p) \/ CloseEnds(p) \/ Dies(p) \/ Restart(p)
  PROVE  SeenAfter
<1> DEFINE left == [k \in Clients |-> IF client[k].home = p THEN Gone(client[k]) ELSE client[k]]
<1>1. /\ made' = made /\ seq' = seq /\ log' = log /\ skipped \subseteq skipped'
      /\ \A q \in Processes \ {p} : state'[q] = state[q]
  BY DEF CloseBegins, CloseEnds, Dies, Restart, Ends, database, IInv, TypeOK
<1>2. /\ TypeOK /\ PositionsAreDrawn /\ flush \in [Processes -> Flush] /\ seq \in Nat
      /\ last \in [Processes -> Nat] /\ drain \in [Processes -> Drain]
      /\ queue \in [Processes -> Seq(Changes \cup {Marker})] /\ client \in [Clients -> Browser]
  BY DEF IInv, TypeOK, Seen
<1>3. EventsAreMade' /\ IdsAreUnique'
  <2>1. \A q \in Processes : queue'[q] = queue[q] \/ queue'[q] = <<>>
    BY <1>2 DEF CloseBegins, CloseEnds, Dies, Restart, Ends, publisher
  <2> QED BY <1>1, <2>1, EventsKept, IdsKept DEF Seen
<1>4. InFlight' \subseteq InFlight
  <2>1. flush' = flush \/ flush' = [flush EXCEPT ![p] = IdleFlush]
    BY DEF CloseBegins, CloseEnds, Dies, Restart, Ends, publisher
  <2>2. \A q \in Processes :
          flush'[q].at = "drawn" => flush[q].at = "drawn" /\ flush'[q].id = flush[q].id
    <3>1. CASE flush' = flush
      BY <3>1
    <3>2. CASE flush' = [flush EXCEPT ![p] = IdleFlush]
      <4>1. flush'[p] = IdleFlush /\ \A q \in Processes \ {p} : flush'[q] = flush[q]
        BY <1>2, <3>2
      <4> QED BY <4>1 DEF IdleFlush
    <3> QED BY <2>1, <3>1, <3>2
  <2> QED BY <1>1, <2>2, FlightKept
<1>5. \A q \in Processes : Sound(drain'[q], seq)
  <2>1. CASE drain' = drain
    BY <1>2, <2>1, DrainSound
  <2>2. CASE drain' = [drain EXCEPT ![p] = IdleDrain]
    <3>1. /\ drain'[p].water = 0 /\ drain'[p].latest = 0 /\ drain'[p].first = 0
          /\ \A q \in Processes \ {p} : drain'[q] = drain[q]
      BY <1>2, <2>2 DEF IdleDrain
    <3>2. \A q \in Processes : Sound(drain[q], seq)
      BY <1>2, DrainSound
    <3>3. Sound(drain'[p], seq)
      BY <1>2, <3>1 DEF Sound
    <3> QED BY <3>1, <3>2, <3>3
  <2> QED BY <2>1, <2>2 DEF CloseBegins, CloseEnds, Dies, Restart, Ends, listener
<1>6. CASE CloseBegins(p) \/ CloseEnds(p) \/ Dies(p)
  <2>1. last' = last /\ skipped' = skipped
    BY <1>6 DEF CloseBegins, CloseEnds, Dies, Ends, listener
  <2>2. PositionsAreDrawn'
    BY <1>1, <1>2, <1>4, <1>5, <2>1, PositionsKept
  <2>3. client' = left
    <3>1. CASE CloseEnds(p)
      <4>1. state[p] # "up" /\ client' = client
        BY <3>1 DEF CloseEnds
      <4>2. \A k \in Clients : client[k].home # p
        BY <4>1, HomesAreUp
      <4> QED BY <1>2, <4>1, <4>2
    <3> QED BY <1>6, <3>1 DEF CloseBegins, Dies
  <2>4. EntriesAfter
    BY <1>1, <2>1, <2>3, EntriesLeft DEF Seen
  <2> QED BY <1>3, <2>2, <2>4 DEF SeenAfter
<1>7. CASE Restart(p)
  <2>1. /\ state[p] # "up" /\ last' = [last EXCEPT ![p] = seq] /\ skipped' = skipped \cup InFlight
        /\ client' = client
    BY <1>7 DEF Restart
  <2>2. PositionsAreDrawn'
    <3>1. \A q \in Processes : last'[q] <= seq
      BY <1>2, <2>1 DEF PositionsAreDrawn
    <3> QED BY <1>1, <1>4, <1>5, <2>1, <3>1 DEF PositionsAreDrawn, Sound
  <2>3. \A k \in Clients : client[k].at # "off" =>
          /\ last'[client[k].home] = last[client[k].home]
          /\ state'[client[k].home] = state[client[k].home]
    <3> SUFFICES ASSUME NEW k \in Clients, client[k].at # "off"
                 PROVE  /\ last'[client[k].home] = last[client[k].home]
                        /\ state'[client[k].home] = state[client[k].home]
      OBVIOUS
    <3>1. client[k].home # p
      BY <2>1, HomesAreUp
    <3>2. client[k].home \in Processes
      BY DEF Seen, Entries, Entry
    <3> QED BY <1>1, <1>2, <2>1, <3>1, <3>2
  <2>4. EntriesAfter
    BY <1>1, <2>1, <2>3, EntriesKept DEF Seen
  <2> QED BY <1>3, <2>2, <2>4 DEF SeenAfter
<1> QED BY <1>6, <1>7

\* Every step keeps the views whole.
LEMMA StepSeen == IInv /\ IInv' /\ ViewsInv /\ [Next]_vars => ViewsInv'
<1> SUFFICES ASSUME IInv, IInv', ViewsInv, [Next]_vars PROVE ViewsInv'
  OBVIOUS
<1>1. Seen /\ (SeenAfter => ViewsInv') /\ TypeOK /\ TypeOK'
  BY ViewsAreEntries DEF Seen, SeenAfter, EntriesAfter, IInv
<1>2. ASSUME UNCHANGED <<made, seq, log, queue, flush, drain, last, skipped>>
      PROVE  EventsAreMade' /\ IdsAreUnique' /\ PositionsAreDrawn'
  <2>1. InFlight' \subseteq InFlight
    BY <1>2, FlightKept
  <2> QED BY <1>1, <1>2, <2>1, EventsKept, IdsKept, PositionsKept, DrainSound DEF Seen
<1>3. CASE UNCHANGED vars
  <2>1. UNCHANGED <<made, seq, log, queue, flush, drain, last, skipped, state, client>>
    BY <1>3 DEF vars, database, publisher, listener
  <2> QED BY <1>1, <1>2, <2>1, EntriesKept DEF Seen, SeenAfter
<1>4. CASE \E k \in Clients : \/ \E p \in Processes : Connect(k, p)
                             \/ Syncing(k) \/ Disconnect(k) \/ Reload(k)
  <2>1. UNCHANGED <<made, seq, log, queue, flush, drain, last, skipped>>
    BY <1>4 DEF Connect, Syncing, ReadCursor, ReadLists, SendSnapshot, Replay, SendReplayed,
                Disconnect, Reload, Moves, database, publisher, listener
  <2>2. EntriesAfter
    BY <1>1, <1>4, ClientsSee DEF Seen, EntriesAfter
  <2> QED BY <1>1, <1>2, <2>1, <2>2 DEF SeenAfter
<1>5. CASE \E r \in log : Prune(r)
  <2>1. UNCHANGED <<made, seq, log, queue, flush, drain, last, skipped, state, client>>
    BY <1>5 DEF Prune, publisher, listener
  <2> QED BY <1>1, <1>2, <2>1, EntriesKept DEF Seen, SeenAfter
<1>6. ASSUME NEW p \in Processes,
             \/ \E c \in Changes : Change(p, c)
             \/ Publishing(p) \/ Notice(p) \/ Draining(p) \/ Listen(p)
             \/ CloseEnds(p) \/ Restart(p) \/ Disturb(p)
      PROVE  ViewsInv'
  BY <1>1, <1>6, IdleSeen, DrawSeen, CommitSeen, NoteSeen, RowsSeen, LifeSeen
     DEF Publishing, Draining, Disturb
<1> QED BY <1>3, <1>4, <1>5, <1>6 DEF Next

\* The views are whole in every reachable state, with any faults.
THEOREM ViewsInvariance == Spec => []ViewsInv
<1>1. Init => ViewsInv
  <2> SUFFICES ASSUME Init PROVE ViewsInv
    OBVIOUS
  <2>1. EventsAreMade /\ IdsAreUnique
    BY DEF Init, EventsAreMade, IdsAreUnique
  <2>2. PositionsAreDrawn
    BY DEF Init, PositionsAreDrawn, InFlight, IdleFlush, IdleDrain
  <2>3. Entries
    <3>1. \A k \in Clients : client[k] = Offline
      BY DEF Init
    <3> QED BY <3>1 DEF Entries, Entry, Offline
  <2> QED BY <2>1, <2>2, <2>3, ViewsAreEntries
<1>2. IInv /\ IInv' /\ ViewsInv /\ [Next]_vars => ViewsInv'
  BY StepSeen
<1> QED BY <1>1, <1>2, FanoutInvariance, PTL DEF Spec

\* In every reachable state a client knows the change of every event up to its
\* cursor, but for those that a process has passed in a gap or by starting
\* above them, with any number of processes and clients, whatever snapshots,
\* replays, reconnects and faults there were.
THEOREM CursorsHold == Spec => []CursorsAreTrue
BY ViewsInvariance, PTL DEF ViewsInv
=============================================================================
