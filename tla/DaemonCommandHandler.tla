----------------------- MODULE DaemonCommandHandler -----------------------
(***************************************************************************)
(* One life of the daemon, from start to exit: its connections to the      *)
(* control plane, the chain of command messages of each connection, and    *)
(* the receipt cache that recognises redelivered commands.                 *)
(*                                                                         *)
(* JavaScript runs a task to completion, so a handler is seen only where   *)
(* it waits, in fetchSession; the interrupt of an adapter settles before   *)
(* anything else can happen.  Everything that comes from outside happens   *)
(* when no chain can move (Quiet).                                         *)
(*                                                                         *)
(* `ws` is the connection made last, whichever connection a handler's      *)
(* command came from.  send() throws while it is CONNECTING and drops the  *)
(* frame without a word once it is CLOSING or CLOSED.                      *)
(***************************************************************************)
EXTENDS Integers, Sequences, SequencesExt

CONSTANTS
  Commands,     \* command ids
  Action,       \* what each command asks for
  Runs,         \* shipping run ids
  RunOf,        \* the run of each command (read for shipping.start only)
  Unusable,     \* commands for an agent this daemon lacks, or without payload
  MaxEntries,   \* size of the receipt cache (2000)
  MaxConnects,  \* bound: connections in one life
  MaxFrames,    \* bound: frames waiting on one connection
  None

Actions == {"shipping.start", "session.start", "session.message", "session.interrupt"}

ASSUME ActionAssumption == Action \in [Commands -> Actions] /\ None \notin Commands
ASSUME RunOfAssumption == RunOf \in [Commands -> Runs]
ASSUME UnusableAssumption == Unusable \subseteq Commands
ASSUME BoundsAssumption ==
  MaxEntries \in Nat \ {0} /\ MaxConnects \in Nat \ {0} /\ MaxFrames \in Nat \ {0}

VARIABLES
  life,         \* "up", "stopping" or "down"
  ws,           \* "connecting", "open" or "closed": the latest connection
  socket,       \* its number; 0 before the first
  chain,        \* frames each connection has received and not taken up
  waiting,      \* the command a connection's handler fetches a session for
  receipts,     \* the cache, oldest entry first
  inFlight,     \* commands begun and not completed
  shippingRuns, \* runs marked active
  working,      \* commands whose agent or run is at work
  begun,        \* history: commands whose work was begun
  again,        \* history: commands whose work was begun twice
  evicted,      \* history: commands whose receipt was dropped
  acks          \* history: acknowledgements written to an open connection

cache == <<receipts, inFlight>>
connection == <<life, ws, socket>>
history == <<begun, again, evicted, acks>>
vars == <<connection, chain, waiting, cache, shippingRuns, working, history>>

Sockets == 1..MaxConnects

Init ==
  /\ life = "up" /\ ws = "closed" /\ socket = 0
  /\ chain = [s \in Sockets |-> <<>>]
  /\ waiting = [s \in Sockets |-> None]
  /\ receipts = <<>> /\ inFlight = {}
  /\ shippingRuns = {} /\ working = {}
  /\ begun = {} /\ again = {} /\ evicted = {} /\ acks = {}

Alive == life # "down"
SendThrows == ws = "connecting"

Quiet == \A s \in Sockets : chain[s] = <<>> \/ waiting[s] # None

-----------------------------------------------------------------------------
(* createCommandReceiptCache.                                              *)

Remembered(c) == \E k \in DOMAIN receipts : receipts[k].cmd = c
Receipt(c) == receipts[CHOOSE k \in DOMAIN receipts : receipts[k].cmd = c].ok

\* The cache would answer ok to a duplicate of c.
Has(c, ok) == \E k \in DOMAIN receipts : receipts[k] = [cmd |-> c, ok |-> ok]

IsDuplicate(c) == Remembered(c)

IsInFlight(c) == ~ Remembered(c) /\ c \in inFlight

IsNew(c) == ~ IsDuplicate(c) /\ ~ IsInFlight(c)

\* Map.set keeps the place of a key it already has.
Stored(c, ok) ==
  IF Remembered(c)
  THEN [k \in DOMAIN receipts |-> IF receipts[k].cmd = c THEN [cmd |-> c, ok |-> ok]
                                                         ELSE receipts[k]]
  ELSE Append(receipts, [cmd |-> c, ok |-> ok])

\* complete(): store, then drop the oldest entries beyond the limit.
Complete(c, ok) ==
  LET all  == Stored(c, ok)
      over == IF Len(all) > MaxEntries THEN Len(all) - MaxEntries ELSE 0
  IN  /\ receipts' = SubSeq(all, over + 1, Len(all))
      /\ evicted' = evicted \cup {all[k].cmd : k \in 1..over}
      /\ inFlight' = inFlight \ {c}

-----------------------------------------------------------------------------
(* The ways a handler ends.                                                *)

Write(c, ok) == acks' = IF ws = "open" THEN acks \cup {<<c, ok>>} ELSE acks

\* The work of c begins, now.
Work(c) ==
  /\ begun' = begun \cup {c}
  /\ again' = again \cup ({c} \cap begun)

\* Variant: the catch block answers and does not complete.
RefusedUnrecorded(c) ==
  /\ Write(c, FALSE)
  /\ UNCHANGED <<cache, working, begun, again, evicted>>

\* The catch block: a negative receipt, sent if it can be.  An ack(true) that
\* threw has completed the command already; this replaces its receipt.
Refused(c) ==
  /\ Complete(c, FALSE)
  /\ Write(c, FALSE)
  /\ UNCHANGED <<working, begun, again>>

\* ack(true) and then the work, without a wait between them.
Accepted(c) ==
  /\ ~ SendThrows
  /\ Complete(c, TRUE)
  /\ Write(c, TRUE)
  /\ Work(c)
  /\ working' = working \cup {c}

AcceptedOrRefused(c, usable) ==
  \/ usable /\ Accepted(c)
  \/ (~ usable \/ SendThrows) /\ Refused(c)

-----------------------------------------------------------------------------
(* A chain takes up its next frame.                                        *)

Take(s, c) ==
  /\ Alive
  /\ waiting[s] = None
  /\ chain[s] # <<>> /\ c = Head(chain[s])
  /\ chain' = [chain EXCEPT ![s] = Tail(@)]
  /\ UNCHANGED connection

\* A duplicate in flight gets no answer of its own.
IgnoreInFlight(s, c) ==
  /\ Take(s, c)
  /\ IsInFlight(c)
  /\ UNCHANGED <<waiting, cache, shippingRuns, working, history>>

\* Variant: a completed duplicate is ignored too.
IgnoreDuplicate(s, c) ==
  /\ Take(s, c)
  /\ IsDuplicate(c)
  /\ UNCHANGED <<waiting, cache, shippingRuns, working, history>>

\* The cached receipt is sent again.  When send() throws, the catch block
\* completes the command a second time.
AnswerDuplicate(s, c) ==
  /\ Take(s, c)
  /\ IsDuplicate(c)
  /\ \/ /\ ~ SendThrows
        /\ Write(c, Receipt(c))
        /\ UNCHANGED <<cache, working, begun, again, evicted>>
     \/ SendThrows /\ Refused(c)
  /\ UNCHANGED <<waiting, shippingRuns>>

RunIsActive(c) == RunOf[c] \in shippingRuns

\* The run is marked before ack(true) is tried.
StartShipping(s, c) ==
  /\ Take(s, c)
  /\ IsNew(c)
  /\ Action[c] = "shipping.start"
  /\ c \notin Unusable /\ ~ RunIsActive(c)
  /\ shippingRuns' = shippingRuns \cup {RunOf[c]}
  /\ AcceptedOrRefused(c, TRUE)
  /\ UNCHANGED waiting

RefuseShipping(s, c) ==
  /\ Take(s, c)
  /\ IsNew(c)
  /\ Action[c] = "shipping.start"
  /\ c \in Unusable \/ RunIsActive(c)
  /\ Refused(c)
  /\ UNCHANGED <<waiting, shippingRuns>>

StartSession(s, c) ==
  /\ Take(s, c)
  /\ IsNew(c)
  /\ Action[c] = "session.start"
  /\ AcceptedOrRefused(c, c \notin Unusable)
  /\ UNCHANGED <<waiting, shippingRuns>>

\* A message or an interrupt needs the session first.
FetchSession(s, c) ==
  /\ Take(s, c)
  /\ IsNew(c)
  /\ Action[c] \in {"session.message", "session.interrupt"}
  /\ inFlight' = inFlight \cup {c}
  /\ waiting' = [waiting EXCEPT ![s] = c]
  /\ UNCHANGED <<receipts, shippingRuns, working, history>>

TakeUp(s) ==
  \E c \in Commands :
    \/ IgnoreInFlight(s, c) \/ AnswerDuplicate(s, c)
    \/ StartShipping(s, c) \/ RefuseShipping(s, c)
    \/ StartSession(s, c) \/ FetchSession(s, c)

-----------------------------------------------------------------------------
(* fetchSession settles.                                                   *)

Resume(s, c) ==
  /\ Alive /\ Quiet
  /\ waiting[s] = c
  /\ waiting' = [waiting EXCEPT ![s] = None]
  /\ UNCHANGED <<connection, chain, shippingRuns>>

FetchFails(s, c) ==
  /\ Resume(s, c)
  /\ Refused(c)

Message(s, c) ==
  /\ Action[c] = "session.message"
  /\ Resume(s, c)
  /\ AcceptedOrRefused(c, c \notin Unusable)

\* The agent is interrupted first; then emit() or ack(true) may throw.
Interrupt(s, c) ==
  /\ Action[c] = "session.interrupt"
  /\ c \notin Unusable
  /\ Resume(s, c)
  /\ Work(c)
  /\ Complete(c, ~ SendThrows)
  /\ Write(c, TRUE)
  /\ UNCHANGED working

InterruptUnavailable(s, c) ==
  /\ Action[c] = "session.interrupt"
  /\ c \in Unusable
  /\ Resume(s, c)
  /\ Refused(c)

FetchSettles(s) ==
  \E c \in Commands : \/ FetchFails(s, c) \/ Message(s, c)
                      \/ Interrupt(s, c) \/ InterruptUnavailable(s, c)

-----------------------------------------------------------------------------
(* Agents, runs, connections and the end.                                  *)

\* An agent's turn or a shipping run ends; only a run was marked.
WorkEnds(c) ==
  /\ Alive /\ Quiet
  /\ c \in working
  /\ working' = working \ {c}
  /\ shippingRuns' = IF Action[c] = "shipping.start" THEN shippingRuns \ {RunOf[c]}
                                                     ELSE shippingRuns
  /\ UNCHANGED <<connection, chain, waiting, cache, history>>

\* An agent emits an event: send() throws in a stream callback, or in the
\* rejection handler of run(), and nobody catches it.
EmitWhileConnecting(c) ==
  /\ Alive /\ Quiet
  /\ c \in working /\ Action[c] # "shipping.start"
  /\ SendThrows
  /\ life' = "down"
  /\ UNCHANGED <<ws, socket, chain, waiting, cache, shippingRuns, working, history>>

Connect ==
  /\ life = "up" /\ Quiet
  /\ ws = "closed" /\ socket < MaxConnects
  /\ ws' = "connecting" /\ socket' = socket + 1
  /\ UNCHANGED <<life, chain, waiting, cache, shippingRuns, working, history>>

Opened ==
  /\ life = "up" /\ Quiet
  /\ ws = "connecting"
  /\ ws' = "open"
  /\ UNCHANGED <<life, socket, chain, waiting, cache, shippingRuns, working, history>>

Closed ==
  /\ Alive /\ Quiet
  /\ ws # "closed"
  /\ ws' = "closed"
  /\ UNCHANGED <<life, socket, chain, waiting, cache, shippingRuns, working, history>>

\* The control plane delivers at least once, in any order.
Receive(c) ==
  /\ Alive /\ Quiet
  /\ ws = "open" /\ Len(chain[socket]) < MaxFrames
  /\ chain' = [chain EXCEPT ![socket] = Append(@, c)]
  /\ UNCHANGED <<connection, waiting, cache, shippingRuns, working, history>>

Shutdown ==
  /\ life = "up" /\ Quiet
  /\ life' = "stopping" /\ ws' = "closed"
  /\ UNCHANGED <<socket, chain, waiting, cache, shippingRuns, working, history>>

Exit ==
  /\ life = "stopping" /\ Quiet
  /\ life' = "down"
  /\ UNCHANGED <<ws, socket, chain, waiting, cache, shippingRuns, working, history>>

-----------------------------------------------------------------------------
Next ==
  \/ \E s \in Sockets : TakeUp(s) \/ FetchSettles(s)
  \/ \E c \in Commands : WorkEnds(c) \/ EmitWhileConnecting(c) \/ Receive(c)
  \/ Connect \/ Opened \/ Closed \/ Shutdown \/ Exit

Spec == Init /\ [][Next]_vars

\* The event loop runs what is ready; a fetch settles, and its continuation is
\* not held up for ever by the frames that keep arriving.
Fairness == \A s \in Sockets : WF_vars(TakeUp(s)) /\ SF_vars(FetchSettles(s))

FairSpec == Spec /\ Fairness

-----------------------------------------------------------------------------
(* Properties.                                                             *)

\* Every variable is well formed, and the cache is within its limit and
\* holds one entry for a command.
TypeOK ==
  /\ life \in {"up", "stopping", "down"}
  /\ ws \in {"connecting", "open", "closed"}
  /\ socket \in 0..MaxConnects
  /\ chain \in [Sockets -> Seq(Commands)]
  /\ waiting \in [Sockets -> Commands \cup {None}]
  /\ receipts \in Seq([cmd : Commands, ok : BOOLEAN])
  /\ Len(receipts) =< MaxEntries
  /\ \A j, k \in DOMAIN receipts : receipts[j].cmd = receipts[k].cmd => j = k
  /\ inFlight \subseteq Commands
  /\ shippingRuns \subseteq Runs
  /\ \A S \in {working, begun, again, evicted} : S \subseteq Commands
  /\ acks \subseteq Commands \X BOOLEAN

\* A command is in flight exactly while one handler is at it, whichever
\* connection it came from: it is neither handled twice at once nor marked in
\* flight for ever, which would make the daemon deaf to every redelivery.
InFlightIsHeld ==
  /\ inFlight = {waiting[s] : s \in Sockets} \ {None}
  /\ \A s, t \in Sockets : waiting[s] = waiting[t] /\ waiting[s] # None => s = t
  /\ \A c \in inFlight : ~ Remembered(c)

\* In one life of the daemon a command's work is begun a second time only if
\* its receipt has been dropped from the cache, whatever was redelivered on
\* whichever connection.
AgainOnlyIfForgotten == again \subseteq evicted

\* A positive answer, cached or sent, is never given for work that was not
\* begun.
PositiveMeansBegun ==
  \A c \in Commands :
    <<c, TRUE>> \in acks \/ Has(c, TRUE) => c \in begun

\* A shipping run never has two supervisors at work in one daemon.
OneSupervisorPerRun ==
  \A c, d \in working :
    /\ Action[c] = "shipping.start" /\ Action[d] = "shipping.start"
    /\ RunOf[c] = RunOf[d]
    => c = d

\* A command delivered on a connection is answered on it, or on a later one,
\* unless the latest connection closes or the daemon ends.
DeliveredIsAnswered ==
  \A c \in Commands :
    (ws = "open" /\ c \in ToSet(chain[socket]))
      ~> (c \in {a[1] : a \in acks} \/ ws # "open" \/ ~ Alive)

\* The inductive invariant behind these: what was begun is in the cache or has
\* been dropped from it, and a run at work is marked.
BegunIsKept == \A c \in begun : Remembered(c) \/ c \in evicted

RunsAreMarked ==
  \A c \in working : Action[c] = "shipping.start" => RunOf[c] \in shippingRuns

IInv == /\ TypeOK /\ InFlightIsHeld /\ BegunIsKept /\ AgainOnlyIfForgotten
        /\ PositiveMeansBegun /\ RunsAreMarked /\ OneSupervisorPerRun
=============================================================================
