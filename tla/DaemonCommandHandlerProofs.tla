--------------------- MODULE DaemonCommandHandlerProofs ---------------------
(***************************************************************************)
(* What TLAPS proves of the daemon, for any number of commands and runs    *)
(* and any size of the cache.  The argument is about one completion: it    *)
(* puts one entry into the cache, changes no other, and whatever it drops  *)
(* is written down as dropped (Completion).                                *)
(***************************************************************************)
EXTENDS DaemonCommandHandler, SequenceTheorems, TLAPS

Entry == [cmd : Commands, ok : BOOLEAN]

\* The cache part of TypeOK.
CacheOK ==
  /\ receipts \in Seq(Entry)
  /\ Len(receipts) =< MaxEntries
  /\ \A j, k \in DOMAIN receipts : receipts[j].cmd = receipts[k].cmd => j = k
  /\ inFlight \subseteq Commands /\ evicted \subseteq Commands

\* Receipt reads the one entry a command has.
LEMMA OneReceipt ==
  ASSUME CacheOK, NEW c \in Commands, NEW ok \in BOOLEAN
  PROVE  (Remembered(c) /\ Receipt(c) = ok) <=> Has(c, ok)
<1>1. ASSUME Remembered(c)
      PROVE  \E k \in DOMAIN receipts : receipts[k].cmd = c /\ Receipt(c) = receipts[k].ok
  BY <1>1 DEF Remembered, Receipt
<1>2. \A k \in DOMAIN receipts : receipts[k] \in Entry
  BY DEF CacheOK
<1>3. \A k \in DOMAIN receipts : receipts[k].cmd = c =>
        (receipts[k].ok = ok <=> receipts[k] = [cmd |-> c, ok |-> ok])
  BY <1>2 DEF Entry
<1>4. Remembered(c) /\ Receipt(c) = ok => Has(c, ok)
  BY <1>1, <1>3 DEF Has
<1>5. ASSUME Has(c, ok)
      PROVE  Remembered(c) /\ Receipt(c) = ok
  <2>1. PICK j \in DOMAIN receipts : receipts[j] = [cmd |-> c, ok |-> ok]
    BY <1>5 DEF Has
  <2>2. Remembered(c)
    BY <2>1 DEF Remembered
  <2>3. PICK k \in DOMAIN receipts : receipts[k].cmd = c /\ Receipt(c) = receipts[k].ok
    BY <1>1, <2>2
  <2>4. k = j
    BY <2>1, <2>3 DEF CacheOK
  <2> QED BY <2>1, <2>2, <2>3, <2>4
<1> QED BY <1>4, <1>5

\* Being remembered is having one of the two answers.
LEMMA RememberedHas ==
  ASSUME CacheOK, NEW c \in Commands
  PROVE  Remembered(c) <=> Has(c, TRUE) \/ Has(c, FALSE)
<1>1. \A k \in DOMAIN receipts : receipts[k] \in Entry
  BY DEF CacheOK
<1>2. \A k \in DOMAIN receipts : receipts[k].cmd = c =>
        receipts[k] = [cmd |-> c, ok |-> TRUE] \/ receipts[k] = [cmd |-> c, ok |-> FALSE]
  BY <1>1 DEF Entry
<1> QED BY <1>2 DEF Remembered, Has

\* What Map.set leaves: one entry for c, the others as they were.
LEMMA Storing ==
  ASSUME CacheOK, NEW c \in Commands, NEW ok \in BOOLEAN
  PROVE  /\ Stored(c, ok) \in Seq(Entry)
         /\ \A j, k \in DOMAIN Stored(c, ok) :
              Stored(c, ok)[j].cmd = Stored(c, ok)[k].cmd => j = k
         /\ \A k \in DOMAIN Stored(c, ok) :
              \/ Stored(c, ok)[k] = [cmd |-> c, ok |-> ok]
              \/ /\ k \in DOMAIN receipts /\ Stored(c, ok)[k] = receipts[k]
                 /\ receipts[k].cmd # c
         /\ \A k \in DOMAIN receipts : /\ k \in DOMAIN Stored(c, ok)
                                       /\ receipts[k].cmd # c => Stored(c, ok)[k] = receipts[k]
         /\ \/ Len(Stored(c, ok)) =< MaxEntries
               /\ \E k \in DOMAIN Stored(c, ok) : Stored(c, ok)[k].cmd = c
            \/ /\ Len(Stored(c, ok)) = Len(receipts) + 1
               /\ Stored(c, ok)[Len(receipts) + 1].cmd = c
<1> DEFINE e == [cmd |-> c, ok |-> ok]
<1>0. e \in Entry /\ e.cmd = c /\ e.ok = ok
  BY DEF Entry
<1>1. \A k \in DOMAIN receipts : receipts[k] \in Entry
  BY DEF CacheOK
<1>2. CASE Remembered(c)
  <2>1. Stored(c, ok) = [k \in DOMAIN receipts |-> IF receipts[k].cmd = c THEN e ELSE receipts[k]]
    BY <1>2 DEF Stored
  <2>2. DOMAIN receipts = 1..Len(receipts) /\ Len(receipts) \in Nat
    BY DEF CacheOK
  <2>3. Stored(c, ok) \in Seq(Entry) /\ Len(Stored(c, ok)) = Len(receipts)
    <3>1. Stored(c, ok) \in [1..Len(receipts) -> Entry]
      BY <1>0, <1>1, <2>1, <2>2
    <3> QED BY <2>2, <3>1, SeqDef, LenProperties, ElementOfSeq
  <2>4. \A k \in DOMAIN receipts : Stored(c, ok)[k] = IF receipts[k].cmd = c THEN e ELSE receipts[k]
    BY <2>1
  <2>5. DOMAIN Stored(c, ok) = DOMAIN receipts
    BY <2>1
  <2>6. \A k \in DOMAIN receipts : Stored(c, ok)[k].cmd = receipts[k].cmd
    BY <2>4, <1>0
  <2> HIDE DEF e
  <2>7. \E k \in DOMAIN receipts : receipts[k].cmd = c
    BY <1>2 DEF Remembered
  <2> QED BY <2>3, <2>4, <2>5, <2>6, <2>7 DEF CacheOK, e
<1>3. CASE ~ Remembered(c)
  <2>1. Stored(c, ok) = Append(receipts, e)
    BY <1>3 DEF Stored
  <2>2. /\ Stored(c, ok) \in Seq(Entry) /\ Len(Stored(c, ok)) = Len(receipts) + 1
        /\ Stored(c, ok)[Len(receipts) + 1] = e
        /\ \A k \in 1..Len(receipts) : Stored(c, ok)[k] = receipts[k]
    BY <1>0, <2>1 DEF CacheOK
  <2>3. /\ DOMAIN receipts = 1..Len(receipts) /\ DOMAIN Stored(c, ok) = 1..(Len(receipts) + 1)
        /\ Len(receipts) \in Nat
    BY <2>2 DEF CacheOK
  <2>4. \A k \in DOMAIN receipts : receipts[k].cmd # c
    BY <1>3 DEF Remembered
  <2> HIDE DEF e
  <2> QED BY <1>0, <2>2, <2>3, <2>4 DEF CacheOK, e
<1> QED BY <1>2, <1>3

\* Dropping the first n elements of a sequence.
LEMMA Suffix ==
  ASSUME NEW S, NEW s \in Seq(S), NEW n \in 0..Len(s)
  PROVE  /\ SubSeq(s, n + 1, Len(s)) \in Seq(S)
         /\ Len(SubSeq(s, n + 1, Len(s))) = Len(s) - n
         /\ \A k \in 1..(Len(s) - n) : SubSeq(s, n + 1, Len(s))[k] = s[n + k]
  OBVIOUS

\* One completion: c has the new answer and only that one, every other answer
\* was there before, and what is no longer there is written down as dropped.
LEMMA Completion ==
  ASSUME CacheOK, NEW c \in Commands, NEW ok \in BOOLEAN, Complete(c, ok)
  PROVE  /\ CacheOK'
         /\ Has(c, ok)' /\ \A b \in BOOLEAN : Has(c, b)' => b = ok
         /\ \A d \in Commands \ {c}, b \in BOOLEAN :
              /\ Has(d, b)' => Has(d, b)
              /\ Has(d, b) => Has(d, b)' \/ d \in evicted'
         /\ Remembered(c)' /\ \A d \in Commands \ {c} : Remembered(d)' => Remembered(d)
         /\ evicted \subseteq evicted'
         /\ inFlight' = inFlight \ {c}
<1> DEFINE all  == Stored(c, ok)
           over == IF Len(all) > MaxEntries THEN Len(all) - MaxEntries ELSE 0
<1>1. /\ receipts' = SubSeq(all, over + 1, Len(all))
      /\ evicted' = evicted \cup {all[k].cmd : k \in 1..over}
      /\ inFlight' = inFlight \ {c}
  BY DEF Complete
<1>2. /\ all \in Seq(Entry) /\ Len(all) \in Nat /\ DOMAIN all = 1..Len(all)
      /\ \A j, k \in DOMAIN all : all[j].cmd = all[k].cmd => j = k
      /\ \A k \in DOMAIN all :
           \/ all[k] = [cmd |-> c, ok |-> ok]
           \/ k \in DOMAIN receipts /\ all[k] = receipts[k] /\ receipts[k].cmd # c
      /\ \A k \in DOMAIN receipts : k \in DOMAIN all /\ (receipts[k].cmd # c => all[k] = receipts[k])
  BY Storing
<1>3. \/ Len(all) =< MaxEntries /\ \E k \in DOMAIN all : all[k].cmd = c
      \/ Len(all) = Len(receipts) + 1 /\ all[Len(receipts) + 1].cmd = c
  BY Storing
<1> HIDE DEF all
<1>4. /\ over \in 0..Len(all) /\ Len(all) - over =< MaxEntries
      /\ MaxEntries \in Nat \ {0} /\ Len(receipts) \in Nat /\ Len(receipts) =< MaxEntries
      /\ DOMAIN receipts = 1..Len(receipts)
  BY <1>2, BoundsAssumption DEF CacheOK
<1>5. \E k \in DOMAIN all : k > over /\ all[k] = [cmd |-> c, ok |-> ok]
  <2>1. \E k \in DOMAIN all : k > over /\ all[k].cmd = c
    <3>1. CASE Len(all) =< MaxEntries /\ \E k \in DOMAIN all : all[k].cmd = c
      BY <1>2, <1>4, <3>1
    <3>2. CASE Len(all) = Len(receipts) + 1 /\ all[Len(receipts) + 1].cmd = c
      <4>1. Len(all) \in DOMAIN all /\ Len(all) > over
        BY <1>2, <1>4, <3>2
      <4> QED BY <3>2, <4>1
    <3> QED BY <1>3, <3>1, <3>2
  <2> QED BY <1>2, <2>1
<1> HIDE DEF over
<1>6. /\ receipts' \in Seq(Entry) /\ Len(receipts') = Len(all) - over
      /\ DOMAIN receipts' = 1..(Len(all) - over)
      /\ \A k \in 1..(Len(all) - over) : receipts'[k] = all[over + k]
  <2>1. over \in 0..Len(all)
    BY <1>4
  <2> DEFINE rest == SubSeq(all, over + 1, Len(all))
  <2>2. /\ rest \in Seq(Entry) /\ Len(rest) = Len(all) - over
        /\ \A k \in 1..(Len(all) - over) : rest[k] = all[over + k]
    <3>1. all \in Seq(Entry)
      BY <1>2
    <3> QED BY <2>1, <3>1, Suffix, Zenon
  <2>3. receipts' = rest
    BY <1>1
  <2> HIDE DEF rest
  <2> QED BY <2>2, <2>3, LenProperties
<1>7. \A k \in DOMAIN receipts' : over + k \in DOMAIN all /\ receipts'[k] = all[over + k]
  BY <1>2, <1>4, <1>6
<1>8. \A k \in DOMAIN all : \/ k > over /\ k - over \in DOMAIN receipts' /\ receipts'[k - over] = all[k]
                            \/ k \in 1..over
  BY <1>2, <1>4, <1>6
<1>9. CacheOK'
  <2>1. \A j, k \in DOMAIN receipts' : receipts'[j].cmd = receipts'[k].cmd => j = k
    BY <1>2, <1>4, <1>6, <1>7
  <2>2. evicted' \subseteq Commands
    <3>1. \A k \in 1..over : all[k] \in Entry
      BY <1>2, <1>4
    <3> QED BY <1>1, <3>1 DEF Entry, CacheOK
  <2> QED BY <1>1, <1>4, <1>6, <2>1, <2>2 DEF CacheOK
<1>10. Has(c, ok)' /\ \A b \in BOOLEAN : Has(c, b)' => b = ok
  <2>1. Has(c, ok)'
    BY <1>5, <1>8, <1>4, <1>2 DEF Has
  <2>2. ASSUME NEW b \in BOOLEAN, NEW k \in DOMAIN receipts', receipts'[k] = [cmd |-> c, ok |-> b]
        PROVE  b = ok
    <3>1. all[over + k] = [cmd |-> c, ok |-> b] /\ over + k \in DOMAIN all
      BY <1>7, <2>2
    <3>2. all[over + k].cmd = c /\ all[over + k].ok = b
      BY <3>1
    <3>3. all[over + k] = [cmd |-> c, ok |-> ok]
      BY <1>2, <3>1, <3>2
    <3> QED BY <3>2, <3>3
  <2> QED BY <2>1, <2>2 DEF Has
<1>11. ASSUME NEW d \in Commands \ {c}, NEW b \in BOOLEAN
       PROVE  /\ Has(d, b)' => Has(d, b)
              /\ Has(d, b) => Has(d, b)' \/ d \in evicted'
  <2>1. ASSUME Has(d, b)'
        PROVE  Has(d, b)
    <3>1. PICK k \in DOMAIN receipts' : receipts'[k] = [cmd |-> d, ok |-> b]
      BY <2>1 DEF Has
    <3>2. over + k \in DOMAIN all /\ all[over + k] = [cmd |-> d, ok |-> b]
      BY <1>7, <3>1
    <3>3. all[over + k].cmd # c
      BY <3>2
    <3> QED BY <1>2, <3>2, <3>3 DEF Has
  <2>2. ASSUME Has(d, b)
        PROVE  Has(d, b)' \/ d \in evicted'
    <3>1. PICK k \in DOMAIN receipts : receipts[k] = [cmd |-> d, ok |-> b]
      BY <2>2 DEF Has
    <3>2. k \in DOMAIN all /\ all[k] = [cmd |-> d, ok |-> b]
      BY <1>2, <3>1
    <3>3. CASE k \in 1..over
      BY <1>1, <3>2, <3>3
    <3>4. CASE k - over \in DOMAIN receipts' /\ receipts'[k - over] = all[k]
      BY <3>2, <3>4 DEF Has
    <3> QED BY <1>8, <3>2, <3>3, <3>4
  <2> QED BY <2>1, <2>2
<1>12. Remembered(c)' /\ \A d \in Commands \ {c} : Remembered(d)' => Remembered(d)
  <2>1. Remembered(c)'
    BY <1>10 DEF Has, Remembered
  <2>2. ASSUME NEW d \in Commands \ {c}, NEW k \in DOMAIN receipts', receipts'[k].cmd = d
        PROVE  Remembered(d)
    <3>1. over + k \in DOMAIN all /\ all[over + k].cmd = d
      BY <1>7, <2>2
    <3>2. all[over + k] # [cmd |-> c, ok |-> ok]
      BY <3>1
    <3> QED BY <1>2, <3>1, <3>2 DEF Remembered
  <2> QED BY <2>1, <2>2 DEF Remembered
<1> QED BY <1>1, <1>9, <1>10, <1>11, <1>12

-----------------------------------------------------------------------------
(* What an outcome does to the history.                                    *)

Kept == BegunIsKept /\ AgainOnlyIfForgotten /\ PositiveMeansBegun

\* The interrupt's outcome: the agent was interrupted, whatever the receipt.
Interrupted(c) == Work(c) /\ Complete(c, ~ SendThrows) /\ Write(c, TRUE)

\* However a handler ends, the history stays in order.
LEMMA Settling ==
  ASSUME IInv, NEW c \in Commands,
         Refused(c) \/ (~ Remembered(c) /\ (Accepted(c) \/ Interrupted(c)))
  PROVE  /\ CacheOK' /\ Kept'
         /\ inFlight' = inFlight \ {c}
         /\ Remembered(c)' /\ \A d \in Commands \ {c} : Remembered(d)' => Remembered(d)
         /\ begun' \subseteq Commands /\ again' \subseteq Commands
         /\ acks' \subseteq Commands \X BOOLEAN
<1>1. CacheOK
  BY DEF IInv, TypeOK, CacheOK, Entry
<1>2. PICK ok \in BOOLEAN :
        /\ Complete(c, ok)
        /\ acks' \in {acks, acks \cup {<<c, ok>>}}
        /\ \/ UNCHANGED <<begun, again>> /\ ok = FALSE
           \/ ~ Remembered(c) /\ Work(c)
  <2>1. CASE Refused(c)
    BY <2>1 DEF Refused, Write
  <2>2. CASE ~ Remembered(c) /\ Accepted(c)
    BY <2>2 DEF Accepted, Write
  <2>3. CASE ~ Remembered(c) /\ Interrupted(c)
    <3>1. CASE SendThrows
      BY <2>3, <3>1 DEF Interrupted, Write, SendThrows
    <3>2. CASE ~ SendThrows
      BY <2>3, <3>2 DEF Interrupted, Write
    <3> QED BY <3>1, <3>2
  <2> QED BY <2>1, <2>2, <2>3
<1>3. /\ CacheOK'
      /\ Has(c, ok)' /\ \A b \in BOOLEAN : Has(c, b)' => b = ok
      /\ \A d \in Commands \ {c}, b \in BOOLEAN :
           /\ Has(d, b)' => Has(d, b)
           /\ Has(d, b) => Has(d, b)' \/ d \in evicted'
      /\ Remembered(c)' /\ \A d \in Commands \ {c} : Remembered(d)' => Remembered(d)
      /\ evicted \subseteq evicted'
      /\ inFlight' = inFlight \ {c}
  BY <1>1, <1>2, Completion
<1>4. /\ begun \subseteq begun' /\ begun' \subseteq begun \cup {c}
      /\ begun \subseteq Commands /\ again \subseteq Commands
      /\ again' \subseteq again \cup ({c} \cap begun)
      /\ ok => c \in begun'
  BY <1>2 DEF Work, IInv, TypeOK
<1>5. BegunIsKept'
  <2>1. ASSUME NEW d \in Commands \ {c}, Remembered(d)
        PROVE  Remembered(d)' \/ d \in evicted'
    <3>1. PICK b \in BOOLEAN : Has(d, b)
      BY <1>1, <2>1, RememberedHas
    <3>2. Has(d, b)' => Remembered(d)'
      BY DEF Has, Remembered
    <3> QED BY <1>3, <3>1, <3>2
  <2> QED BY <1>3, <1>4, <2>1 DEF IInv, BegunIsKept
<1>6. AgainOnlyIfForgotten'
  <2>1. CASE UNCHANGED again
    BY <1>3, <2>1 DEF IInv, AgainOnlyIfForgotten
  <2>2. CASE ~ Remembered(c)
    BY <1>3, <1>4, <2>2 DEF IInv, AgainOnlyIfForgotten, BegunIsKept
  <2> QED BY <1>2, <2>1, <2>2
<1>7. PositiveMeansBegun'
  <2>1. ASSUME NEW d \in Commands, <<d, TRUE>> \in acks'
        PROVE  d \in begun'
    <3>1. <<d, TRUE>> \in acks \/ <<d, TRUE>> = <<c, ok>>
      BY <1>2, <2>1
    <3>2. CASE <<d, TRUE>> \in acks
      BY <1>4, <3>2 DEF IInv, PositiveMeansBegun
    <3>3. CASE <<d, TRUE>> = <<c, ok>>
      BY <1>4, <3>3
    <3> QED BY <3>1, <3>2, <3>3
  <2>2. ASSUME NEW d \in Commands, Has(d, TRUE)'
        PROVE  d \in begun'
    <3>1. CASE d = c
      BY <1>3, <1>4, <2>2, <3>1
    <3>2. CASE d # c
      <4>1. Has(d, TRUE)
        BY <1>3, <2>2, <3>2
      <4> QED BY <1>4, <4>1 DEF IInv, PositiveMeansBegun
    <3> QED BY <3>1, <3>2
  <2> QED BY <2>1, <2>2 DEF PositiveMeansBegun
<1>8. acks' \subseteq Commands \X BOOLEAN
  BY <1>2 DEF IInv, TypeOK
<1> QED BY <1>3, <1>4, <1>5, <1>6, <1>7, <1>8 DEF Kept

-----------------------------------------------------------------------------
(* The inductive invariant.                                                *)

\* What a step must leave alone besides cache and history.
Chains == chain \in [Sockets -> Seq(Commands)]
Handlers == waiting \in [Sockets -> Commands \cup {None}]
RunsOK == /\ shippingRuns \subseteq Runs /\ working \subseteq Commands
          /\ RunsAreMarked /\ OneSupervisorPerRun
CacheKept == CacheOK /\ Kept /\ begun \subseteq Commands /\ again \subseteq Commands
             /\ acks \subseteq Commands \X BOOLEAN
ConnectionOK == /\ life \in {"up", "stopping", "down"}
                /\ ws \in {"connecting", "open", "closed"}
                /\ socket \in 0..MaxConnects

\* The parts of IInv, each read and written by different steps.
LEMMA Parts == IInv <=> /\ ConnectionOK /\ Chains /\ Handlers /\ CacheKept /\ RunsOK
                        /\ InFlightIsHeld
  BY DEF IInv, TypeOK, ConnectionOK, Chains, Handlers, CacheKept, CacheOK, Kept, RunsOK, Entry

\* The same of the next state.
LEMMA PartsNext ==
  ASSUME ConnectionOK', Chains', Handlers', CacheKept', RunsOK', InFlightIsHeld'
  PROVE  IInv'
  BY DEF IInv, TypeOK, ConnectionOK, Chains, Handlers, CacheKept, CacheOK, Kept, RunsOK, Entry

\* Taking a frame off a chain.
LEMMA Taking ==
  ASSUME IInv, NEW s \in Sockets, NEW c \in Commands, Take(s, c)
  PROVE  ConnectionOK' /\ Chains'
<1>1. chain[s] \in Seq(Commands) /\ chain[s] # <<>>
  BY DEF Take, IInv, TypeOK
<1>2. Tail(chain[s]) \in Seq(Commands)
  BY <1>1
<1> QED BY <1>2 DEF Take, IInv, TypeOK, ConnectionOK, Chains, connection

\* A command that is taken up and settled at once was in nobody's hands.
LEMMA SettledAtOnce ==
  ASSUME IInv, NEW c \in Commands, c \notin inFlight, UNCHANGED waiting,
         inFlight' = inFlight \ {c},
         \A d \in Commands \ {c} : Remembered(d)' => Remembered(d)
  PROVE  InFlightIsHeld' /\ Handlers'
<1>1. inFlight' = inFlight /\ inFlight \subseteq Commands
  BY DEF IInv, TypeOK
<1>2. \A d \in inFlight' : ~ Remembered(d)'
  BY <1>1 DEF IInv, InFlightIsHeld
<1> QED BY <1>1, <1>2 DEF IInv, TypeOK, InFlightIsHeld, Handlers

\* A handler resumes and ends.
LEMMA SettledLater ==
  ASSUME IInv, NEW s \in Sockets, NEW c \in Commands, waiting[s] = c,
         waiting' = [waiting EXCEPT ![s] = None],
         inFlight' = inFlight \ {c},
         \A d \in Commands \ {c} : Remembered(d)' => Remembered(d)
  PROVE  InFlightIsHeld' /\ Handlers' /\ ~ Remembered(c)
<1>1. c # None /\ c \in inFlight /\ ~ Remembered(c) /\ inFlight \subseteq Commands
  BY ActionAssumption DEF IInv, InFlightIsHeld, TypeOK
<1>2. \A t \in Sockets : waiting'[t] = IF t = s THEN None ELSE waiting[t]
  BY DEF IInv, TypeOK
<1>3. inFlight' = {waiting'[t] : t \in Sockets} \ {None}
  BY <1>1, <1>2 DEF IInv, InFlightIsHeld
<1>4. \A d \in inFlight' : ~ Remembered(d)'
  BY <1>1 DEF IInv, InFlightIsHeld
<1>5. \A t, u \in Sockets : waiting'[t] = waiting'[u] /\ waiting'[t] # None => t = u
  BY <1>2 DEF IInv, InFlightIsHeld
<1>6. Handlers'
  BY DEF IInv, TypeOK, Handlers
<1> QED BY <1>1, <1>3, <1>4, <1>5, <1>6 DEF InFlightIsHeld

\* An accepted or refused command keeps the rest in order.
LEMMA Outcome ==
  ASSUME IInv, NEW c \in Commands, NEW usable, ~ Remembered(c),
         AcceptedOrRefused(c, usable)
  PROVE  /\ CacheKept'
         /\ inFlight' = inFlight \ {c}
         /\ \A d \in Commands \ {c} : Remembered(d)' => Remembered(d)
         /\ working' \in {working, working \cup {c}}
  BY Settling DEF AcceptedOrRefused, CacheKept, Accepted, Refused

\* Work that is not shipping leaves the runs in order.
LEMMA OtherWork ==
  ASSUME IInv, NEW c \in Commands, Action[c] # "shipping.start",
         UNCHANGED shippingRuns, working' \in {working, working \cup {c}}
  PROVE  RunsOK'
  BY DEF IInv, TypeOK, RunsOK, RunsAreMarked, OneSupervisorPerRun

\* A chain that takes up a frame keeps the invariant.
LEMMA TakeUpKeeps ==
  ASSUME IInv, NEW s \in Sockets, TakeUp(s)
  PROVE  IInv'
<1> PICK c \in Commands :
       \/ IgnoreInFlight(s, c) \/ AnswerDuplicate(s, c)
       \/ StartShipping(s, c) \/ RefuseShipping(s, c)
       \/ StartSession(s, c) \/ FetchSession(s, c)
  BY DEF TakeUp
<1>0. ConnectionOK' /\ Chains'
  BY Taking DEF IgnoreInFlight, AnswerDuplicate, StartShipping, RefuseShipping, StartSession,
     FetchSession
<1>1. IsNew(c) => ~ Remembered(c) /\ c \notin inFlight
  BY DEF IsNew, IsDuplicate, IsInFlight
<1>2. RunsOK /\ CacheKept /\ Handlers /\ InFlightIsHeld
  BY Parts
<1>3. CASE IgnoreInFlight(s, c)
  <2>1. UNCHANGED <<waiting, receipts, inFlight, shippingRuns, working, begun, again, evicted, acks>>
    BY <1>3 DEF IgnoreInFlight, cache, history
  <2>2. CacheKept'
    BY <1>2, <2>1 DEF CacheKept, CacheOK, Kept, BegunIsKept, AgainOnlyIfForgotten,
       PositiveMeansBegun, Remembered, Has
  <2>3. RunsOK' /\ Handlers' /\ InFlightIsHeld'
    BY <1>2, <2>1 DEF RunsOK, RunsAreMarked, OneSupervisorPerRun, Handlers, InFlightIsHeld,
       Remembered
  <2> QED BY <1>0, <2>2, <2>3, PartsNext
<1>4. CASE AnswerDuplicate(s, c)
  <2>1. c \notin inFlight /\ Remembered(c)
    BY <1>4 DEF AnswerDuplicate, IsDuplicate, IInv, InFlightIsHeld
  <2>2. RunsOK'
    BY <1>2, <1>4 DEF AnswerDuplicate, Refused, RunsOK, RunsAreMarked, OneSupervisorPerRun
  <2>3. CASE Refused(c)
    <3>1. CacheKept' /\ InFlightIsHeld' /\ Handlers'
      BY <1>4, <2>1, <2>3, Settling, SettledAtOnce DEF AnswerDuplicate, CacheKept
    <3> QED BY <1>0, <2>2, <3>1, PartsNext
  <2>4. CASE Write(c, Receipt(c)) /\ UNCHANGED <<cache, working, begun, again, evicted>>
    <3>1. Receipt(c) \in BOOLEAN /\ Has(c, Receipt(c))
      <4>1. PICK b \in BOOLEAN : Has(c, b)
        BY <1>2, <2>1, RememberedHas DEF CacheKept
      <4> QED BY <1>2, <4>1, OneReceipt DEF CacheKept
    <3>2. acks' \in {acks, acks \cup {<<c, Receipt(c)>>}}
      BY <2>4 DEF Write
    <3>3. ASSUME NEW d \in Commands, <<d, TRUE>> \in acks'
          PROVE  d \in begun
      <4>1. <<d, TRUE>> \in acks \/ <<d, TRUE>> = <<c, Receipt(c)>>
        BY <3>2, <3>3
      <4>2. CASE <<d, TRUE>> \in acks
        BY <1>2, <4>2 DEF CacheKept, Kept, PositiveMeansBegun
      <4>3. CASE <<d, TRUE>> = <<c, Receipt(c)>>
        <5>1. d = c /\ Receipt(c) = TRUE
          BY <4>3
        <5> QED BY <1>2, <3>1, <5>1 DEF CacheKept, Kept, PositiveMeansBegun
      <4> QED BY <4>1, <4>2, <4>3
    <3>5. PositiveMeansBegun'
      BY <1>2, <2>4, <3>3 DEF CacheKept, Kept, PositiveMeansBegun, Has, cache
    <3>6. CacheKept'
      BY <1>2, <2>4, <3>1, <3>2, <3>5 DEF CacheKept, CacheOK, Kept, BegunIsKept,
         AgainOnlyIfForgotten, Remembered, cache
    <3>7. InFlightIsHeld' /\ Handlers'
      BY <1>2, <1>4, <2>4 DEF AnswerDuplicate, InFlightIsHeld, Handlers, Remembered, cache
    <3> QED BY <1>0, <2>2, <3>6, <3>7, PartsNext
  <2> QED BY <1>4, <2>3, <2>4 DEF AnswerDuplicate
<1>5. CASE StartShipping(s, c)
  <2>1. /\ AcceptedOrRefused(c, TRUE) /\ ~ Remembered(c) /\ c \notin inFlight
        /\ UNCHANGED waiting /\ Action[c] = "shipping.start"
        /\ RunOf[c] \notin shippingRuns /\ shippingRuns' = shippingRuns \cup {RunOf[c]}
    BY <1>1, <1>5 DEF StartShipping, RunIsActive
  <2>2. CacheKept' /\ InFlightIsHeld' /\ Handlers' /\ working' \in {working, working \cup {c}}
    BY <2>1, Outcome, SettledAtOnce
  <2>3. \A d \in working : Action[d] = "shipping.start" => RunOf[d] # RunOf[c]
    BY <1>2, <2>1 DEF RunsOK, RunsAreMarked
  <2>4. RunsOK'
    BY <1>2, <2>1, <2>2, <2>3, RunOfAssumption DEF RunsOK, RunsAreMarked, OneSupervisorPerRun
  <2> QED BY <1>0, <2>2, <2>4, PartsNext
<1>6. CASE RefuseShipping(s, c)
  <2>1. CacheKept' /\ InFlightIsHeld' /\ Handlers'
    BY <1>1, <1>6, Settling, SettledAtOnce DEF RefuseShipping, CacheKept
  <2>2. RunsOK'
    BY <1>2, <1>6 DEF RefuseShipping, Refused, RunsOK, RunsAreMarked, OneSupervisorPerRun
  <2> QED BY <1>0, <2>1, <2>2, PartsNext
<1>7. CASE StartSession(s, c)
  <2>1. /\ AcceptedOrRefused(c, c \notin Unusable) /\ ~ Remembered(c) /\ c \notin inFlight
        /\ UNCHANGED <<waiting, shippingRuns>> /\ Action[c] # "shipping.start"
    BY <1>1, <1>7 DEF StartSession
  <2>2. CacheKept' /\ InFlightIsHeld' /\ Handlers' /\ working' \in {working, working \cup {c}}
    BY <2>1, Outcome, SettledAtOnce
  <2> QED BY <1>0, <2>1, <2>2, OtherWork, PartsNext
<1>8. CASE FetchSession(s, c)
  <2>1. /\ ~ Remembered(c) /\ c \notin inFlight /\ inFlight' = inFlight \cup {c}
        /\ waiting' = [waiting EXCEPT ![s] = c] /\ waiting[s] = None
        /\ UNCHANGED <<receipts, shippingRuns, working, begun, again, evicted, acks>>
    BY <1>1, <1>8 DEF FetchSession, Take, history
  <2>2. \A t \in Sockets : waiting'[t] = IF t = s THEN c ELSE waiting[t]
    BY <1>2, <2>1 DEF Handlers
  <2>3. c # None /\ Handlers'
    BY <1>2, <2>1, ActionAssumption DEF Handlers
  <2>4. inFlight' = {waiting'[t] : t \in Sockets} \ {None}
    BY <1>2, <2>1, <2>2, <2>3 DEF InFlightIsHeld
  <2>5. \A t, u \in Sockets : waiting'[t] = waiting'[u] /\ waiting'[t] # None => t = u
    BY <1>2, <2>1, <2>2 DEF InFlightIsHeld
  <2>6. \A d \in inFlight' : ~ Remembered(d)'
    BY <1>2, <2>1 DEF InFlightIsHeld, Remembered
  <2>7. CacheKept' /\ RunsOK'
    BY <1>2, <2>1 DEF CacheKept, CacheOK, Kept, BegunIsKept, AgainOnlyIfForgotten,
       PositiveMeansBegun, Has, Remembered, RunsOK, RunsAreMarked, OneSupervisorPerRun
  <2> QED BY <1>0, <2>3, <2>4, <2>5, <2>6, <2>7, PartsNext DEF InFlightIsHeld
<1> QED BY <1>3, <1>4, <1>5, <1>6, <1>7, <1>8

\* A handler whose fetch settles keeps it.
LEMMA FetchSettlesKeeps ==
  ASSUME IInv, NEW s \in Sockets, FetchSettles(s)
  PROVE  IInv'
<1> PICK c \in Commands : \/ FetchFails(s, c) \/ Message(s, c)
                          \/ Interrupt(s, c) \/ InterruptUnavailable(s, c)
  BY DEF FetchSettles
<1>0. /\ waiting[s] = c /\ waiting' = [waiting EXCEPT ![s] = None]
      /\ UNCHANGED <<life, ws, socket, chain, shippingRuns>>
  BY DEF FetchFails, Message, Interrupt, InterruptUnavailable, Resume, connection
<1>1. ~ Remembered(c)
  BY <1>0, ActionAssumption DEF IInv, TypeOK, InFlightIsHeld
<1>2. RunsOK /\ ConnectionOK' /\ Chains'
  BY <1>0, Parts DEF ConnectionOK, Chains
<1>3. CASE Refused(c)
  <2>1. CacheKept' /\ InFlightIsHeld' /\ Handlers'
    BY <1>0, <1>3, Settling, SettledLater DEF CacheKept
  <2>2. RunsOK'
    BY <1>0, <1>2, <1>3 DEF Refused, RunsOK, RunsAreMarked, OneSupervisorPerRun
  <2> QED BY <1>2, <2>1, <2>2, PartsNext
<1>4. CASE Message(s, c)
  <2>1. AcceptedOrRefused(c, c \notin Unusable) /\ Action[c] # "shipping.start"
    BY <1>4 DEF Message
  <2>2. CacheKept' /\ InFlightIsHeld' /\ Handlers' /\ working' \in {working, working \cup {c}}
    BY <1>0, <1>1, <2>1, Outcome, SettledLater
  <2> QED BY <1>0, <1>2, <2>1, <2>2, OtherWork, PartsNext
<1>5. CASE Interrupt(s, c)
  <2>1. Interrupted(c) /\ UNCHANGED working
    BY <1>5 DEF Interrupt, Interrupted
  <2>2. CacheKept' /\ InFlightIsHeld' /\ Handlers'
    BY <1>0, <1>1, <2>1, Settling, SettledLater DEF CacheKept
  <2>3. RunsOK'
    BY <1>0, <1>2, <2>1 DEF RunsOK, RunsAreMarked, OneSupervisorPerRun
  <2> QED BY <1>2, <2>2, <2>3, PartsNext
<1> QED BY <1>3, <1>4, <1>5 DEF FetchFails, InterruptUnavailable

\* What happens to work, connections and the process keeps it.
LEMMA OutsideKeeps ==
  ASSUME IInv,
         \/ \E c \in Commands : WorkEnds(c) \/ EmitWhileConnecting(c) \/ Receive(c)
         \/ Connect \/ Opened \/ Closed \/ Shutdown \/ Exit \/ UNCHANGED vars
  PROVE  IInv'
<1>1. UNCHANGED <<waiting, receipts, inFlight, begun, again, evicted, acks>>
  BY DEF WorkEnds, EmitWhileConnecting, Receive, Connect, Opened, Closed, Shutdown, Exit, vars,
     cache, history
<1>2. ConnectionOK'
  BY BoundsAssumption DEF WorkEnds, EmitWhileConnecting, Receive, Connect, Opened, Closed, Shutdown,
     Exit, vars, connection, ConnectionOK, IInv, TypeOK
<1>3. Chains'
  <2>1. CASE UNCHANGED chain
    BY <2>1, Parts DEF Chains
  <2>2. ASSUME NEW c \in Commands, Receive(c)
        PROVE  Chains'
    <3>1. \A s \in Sockets : chain[s] \in Seq(Commands) /\ Append(chain[s], c) \in Seq(Commands)
      BY DEF IInv, TypeOK
    <3>2. chain' = [chain EXCEPT ![socket] = Append(@, c)]
      BY <2>2 DEF Receive
    <3> QED BY <3>1, <3>2 DEF Chains, IInv, TypeOK
  <2> QED BY <2>1, <2>2 DEF WorkEnds, EmitWhileConnecting, Connect, Opened, Closed, Shutdown, Exit,
          vars
<1>4. RunsOK'
  <2>1. CASE \E c \in Commands : WorkEnds(c)
    <3>1. PICK c \in Commands : WorkEnds(c)
      BY <2>1
    <3> QED BY <3>1 DEF WorkEnds, IInv, TypeOK, RunsOK, RunsAreMarked, OneSupervisorPerRun
  <2>2. CASE UNCHANGED <<shippingRuns, working>>
    BY <2>2, Parts DEF RunsOK, RunsAreMarked, OneSupervisorPerRun
  <2> QED BY <2>1, <2>2 DEF EmitWhileConnecting, Receive, Connect, Opened, Closed, Shutdown, Exit,
          vars
<1>5. CacheKept'
  BY <1>1, Parts DEF CacheKept, CacheOK, Kept, BegunIsKept, AgainOnlyIfForgotten,
     PositiveMeansBegun, Remembered, Has
<1>6. Handlers' /\ InFlightIsHeld'
  BY <1>1, Parts DEF Handlers, InFlightIsHeld, Remembered
<1> QED BY <1>2, <1>3, <1>4, <1>5, <1>6, PartsNext

\* The inductive invariant holds of every reachable state of the daemon.
THEOREM HandlerInvariance == Spec => []IInv
<1>1. Init => IInv
  BY BoundsAssumption, EmptySeq DEF Init, IInv, TypeOK, InFlightIsHeld, BegunIsKept,
     AgainOnlyIfForgotten, PositiveMeansBegun, RunsAreMarked, OneSupervisorPerRun, Has, Remembered,
     Sockets
<1>2. IInv /\ [Next]_vars => IInv'
  BY TakeUpKeeps, FetchSettlesKeeps, OutsideKeeps DEF Next
<1> QED BY <1>1, <1>2, PTL DEF Spec

\* A command is in flight exactly while one handler is at it.
THEOREM InFlightHeld == Spec => []InFlightIsHeld
<1>1. IInv => InFlightIsHeld
  BY DEF IInv
<1> QED BY <1>1, HandlerInvariance, PTL

\* Within one life of the daemon no command's work is begun twice while its
\* receipt is kept, for any size of the cache and any redelivery.
THEOREM AtMostOnceWhileKept == Spec => []AgainOnlyIfForgotten
<1>1. IInv => AgainOnlyIfForgotten
  BY DEF IInv
<1> QED BY <1>1, HandlerInvariance, PTL

\* A positive answer is never given for work that was not begun.
THEOREM PositiveAnswersSound == Spec => []PositiveMeansBegun
<1>1. IInv => PositiveMeansBegun
  BY DEF IInv
<1> QED BY <1>1, HandlerInvariance, PTL

\* A shipping run never has two supervisors at work in one daemon.
THEOREM SupervisorsExclusive == Spec => []OneSupervisorPerRun
<1>1. IInv => OneSupervisorPerRun
  BY DEF IInv
<1> QED BY <1>1, HandlerInvariance, PTL
=============================================================================
