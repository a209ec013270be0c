--------------------------- MODULE WorkItemsProofs ---------------------------
(***************************************************************************)
(* What TLAPS proves of the work items, for any items, commands, requests  *)
(* and faults.  Every action has one of four shapes: a new request, a slot *)
(* that goes on, a slot that ends without effect, and a commit.  Only a    *)
(* commit changes the rows and events, and it changes one item.            *)
(***************************************************************************)
EXTENDS WorkItems, TLAPS

USE AsksAssumption, NoneAssumption, FaultsAssumption

\* A slot may end like this: what it says of the item is so.
Truthful(s, to, kind, result) ==
  /\ to \in {"recheck", "done"}
  /\ to = "recheck" => kind \notin {"applied", "replayed"}
  /\ [kind |-> kind, result |-> result] \in Answer
  /\ kind = "exists" => Asked(s).op = "create" /\ row[Item(s)].version > 0
  /\ kind = "stale" => Asked(s).op = "transition" /\ row[Item(s)].version > Asked(s).expected
  /\ kind = "illegal" =>
       /\ Asked(s).op = "transition"
       /\ \/ row[Item(s)].version > Asked(s).expected
          \/ /\ row[Item(s)].version = Asked(s).expected
             /\ Asked(s).to \notin Transitions[row[Item(s)].status]
  /\ to = "done" /\ kind \in {"applied", "replayed"} =>
       \E e \in events : /\ e.command = Command(s) /\ e.ask = Asked(s)
                         /\ Result(e) = result
  /\ to = "done" /\ kind \in {"stale", "illegal", "exists"} =>
       \A e \in events : ~ (e.command = Command(s) /\ e.ask = Asked(s))

\* The ask of a request is well formed.
LEMMA AskTyped ==
  ASSUME TypeOK, RequestsAreThere, NEW s \in Slots, stage[s] # "idle"
  PROVE  /\ request[s] \in [command : Commands, ask : Asks]
         /\ Command(s) \in Commands
         /\ Asked(s) \in Asks /\ Asked(s) \in Ask
         /\ Item(s) \in Items
         /\ Asked(s).to \in Statuses /\ Asked(s).expected \in Nat
         /\ Asked(s).op \in {"create", "transition"}
         /\ Asked(s).op = "transition" => Asked(s).expected > 0
         /\ Asked(s).op = "create" => Asked(s).to = "backlog"
         /\ row[Item(s)] \in Row
<1>1. request[s] \in [command : Commands, ask : Asks]
  BY DEF TypeOK, RequestsAreThere
<1>2. Command(s) \in Commands /\ Asked(s) \in Asks /\ Asked(s) \in Ask
  BY <1>1 DEF Command, Asked
<1>3. "backlog" \in Statuses
  BY DEF Statuses, Transitions
<1>4. /\ Item(s) \in Items /\ Asked(s).to \in Statuses /\ Asked(s).expected \in Nat
      /\ Asked(s).op \in {"create", "transition"}
      /\ Asked(s).op = "transition" => Asked(s).expected > 0
      /\ Asked(s).op = "create" => Asked(s).to = "backlog"
  BY <1>2, <1>3 DEF Item, Ask
<1> QED BY <1>1, <1>2, <1>4 DEF TypeOK

\* The event a slot computes is well formed.
LEMMA EventTyped ==
  ASSUME TypeOK, RequestsAreThere, NEW s \in Slots, stage[s] # "idle"
  PROVE  /\ EventOf(s, row[Item(s)]) \in Event
         /\ EventOf(s, row[Item(s)]).command = Command(s)
         /\ EventOf(s, row[Item(s)]).ask = Asked(s)
         /\ EventOf(s, row[Item(s)]).item = Item(s)
         /\ EventOf(s, row[Item(s)]).version = row[Item(s)].version + 1
         /\ EventOf(s, row[Item(s)]).from = row[Item(s)].status
         /\ EventOf(s, row[Item(s)]).to = Asked(s).to
  BY AskTyped DEF EventOf, Event, Row

\* The other slots do not notice.
LEMMA OthersKeep ==
  ASSUME TypeOK, NEW s \in Slots,
         NEW to, NEW p, NEW kind, NEW result,
         GoOn(s, to, p) \/ EndIn(s, to, kind, result)
  PROVE  /\ request' = request
         /\ \A t \in Slots \ {s} : /\ stage'[t] = stage[t] /\ pending'[t] = pending[t]
                                   /\ answer'[t] = answer[t]
         /\ stage'[s] = to
         /\ \A t \in Slots : Command(t)' = Command(t) /\ Asked(t)' = Asked(t) /\ Item(t)' = Item(t)
  BY DEF TypeOK, GoOn, EndIn, Command, Asked, Item

-----------------------------------------------------------------------------
(* Shapes of steps.                                                        *)

\* A slot that goes on keeps the invariant, if what its transaction computed
\* follows from the row and clashes with nothing when it is ready to commit.
LEMMA GoingOn ==
  ASSUME IInv, NEW s \in Slots, NEW to \in {"row", "event", "commit"}, NEW p,
         stage[s] # "idle",
         GoOn(s, to, p), UNCHANGED <<row, events>>,
         faultsLeft' \in Nat \cup {Unlimited},
         p \in Event \cup {None},
         to # "row" => /\ p = EventOf(s, row[Item(s)])
                       /\ Follows(s, row[Item(s)])
                       /\ \A t \in Slots : InTransaction(t) /\ Item(t) = Item(s) => t = s,
         to = "commit" =>
           /\ \A e \in events : ~ Clash(p, e)
           /\ \A t \in Slots : stage[t] = "commit" /\ Command(s) = Command(t) => s = t
  PROVE  IInv'
<1>1. TypeOK /\ RequestsAreThere
  BY DEF IInv
<1>2. /\ request' = request
      /\ \A t \in Slots \ {s} : /\ stage'[t] = stage[t] /\ pending'[t] = pending[t]
                                /\ answer'[t] = answer[t]
      /\ stage'[s] = to
      /\ \A t \in Slots : Command(t)' = Command(t) /\ Asked(t)' = Asked(t) /\ Item(t)' = Item(t)
  BY <1>1, OthersKeep
<1>3. pending'[s] = p /\ answer' = answer
  BY <1>1 DEF GoOn, TypeOK
<1>4. TypeOK'
  BY <1>1 DEF GoOn, TypeOK, Stage
<1>5. HistoryIsAChain' /\ EventsAreUnique' /\ AbsentMeansNone'
  BY DEF IInv, HistoryIsAChain, EventsAreUnique, AbsentMeansNone
<1>6. RequestsAreThere'
  BY <1>1, <1>2 DEF RequestsAreThere
<1>7. \A t \in Slots : Follows(t, row[Item(t)])' <=> Follows(t, row[Item(t)])
  BY <1>2 DEF Follows
<1>8. \A t \in Slots : EventOf(t, row[Item(t)])' = EventOf(t, row[Item(t)])
  BY <1>2 DEF EventOf
<1>9. PendingFollows'
  BY <1>2, <1>3, <1>7, <1>8 DEF IInv, PendingFollows, InTransaction
<1>10. OneHolder'
  BY <1>2 DEF IInv, OneHolder, InTransaction
<1>11. CommitsAreFree'
  BY <1>2, <1>3 DEF IInv, CommitsAreFree
<1>12. ReasonLasts'
  BY <1>2, <1>3 DEF IInv, ReasonLasts
<1>13. PositiveMeansRecorded'
  BY <1>2, <1>3 DEF IInv, PositiveMeansRecorded
<1>14. RefusedMeansNoEffect'
  BY <1>2, <1>3 DEF IInv, RefusedMeansNoEffect
<1> QED BY <1>4, <1>5, <1>6, <1>9, <1>10, <1>11, <1>12, <1>13, <1>14 DEF IInv

\* A slot that ends truthfully without effect keeps the invariant.
LEMMA Ending ==
  ASSUME IInv, NEW s \in Slots, NEW to, NEW kind, NEW result,
         stage[s] # "idle",
         EndIn(s, to, kind, result), UNCHANGED <<row, events>>,
         faultsLeft' \in Nat \cup {Unlimited},
         Truthful(s, to, kind, result)
  PROVE  IInv'
<1>1. TypeOK /\ RequestsAreThere
  BY DEF IInv
<1>2. /\ request' = request
      /\ \A t \in Slots \ {s} : /\ stage'[t] = stage[t] /\ pending'[t] = pending[t]
                                /\ answer'[t] = answer[t]
      /\ stage'[s] = to
      /\ \A t \in Slots : Command(t)' = Command(t) /\ Asked(t)' = Asked(t) /\ Item(t)' = Item(t)
  BY <1>1, OthersKeep
<1>3. answer'[s].kind = kind /\ answer'[s].result = result
  BY <1>1 DEF EndIn, TypeOK
<1>4. TypeOK'
  BY <1>1 DEF EndIn, TypeOK, Stage, Truthful
<1>5. HistoryIsAChain' /\ EventsAreUnique' /\ AbsentMeansNone'
  BY DEF IInv, HistoryIsAChain, EventsAreUnique, AbsentMeansNone
<1>6. RequestsAreThere'
  BY <1>1, <1>2 DEF RequestsAreThere
<1>7. \A t \in Slots : Follows(t, row[Item(t)])' <=> Follows(t, row[Item(t)])
  BY <1>2 DEF Follows
<1>8. \A t \in Slots : EventOf(t, row[Item(t)])' = EventOf(t, row[Item(t)])
  BY <1>2 DEF EventOf
<1>9. to \notin {"event", "commit"}
  BY DEF Truthful
<1>10. PendingFollows' /\ OneHolder' /\ CommitsAreFree'
  BY <1>2, <1>7, <1>8, <1>9
     DEF IInv, PendingFollows, InTransaction, OneHolder, CommitsAreFree
<1>11. ReasonLasts'
  BY <1>2, <1>3 DEF IInv, ReasonLasts, Truthful
<1>12. PositiveMeansRecorded'
  BY <1>2, <1>3 DEF IInv, PositiveMeansRecorded, Truthful
<1>13. RefusedMeansNoEffect'
  BY <1>2, <1>3 DEF IInv, RefusedMeansNoEffect, Truthful
<1> QED BY <1>4, <1>5, <1>6, <1>10, <1>11, <1>12, <1>13 DEF IInv

\* A commit: one new event, which continues the chain of one item.
LEMMA NewEvent ==
  ASSUME IInv, NEW s \in Slots, stage[s] = "commit", Committed(s)
  PROVE  LET e == pending[s]
             i == Item(s)
         IN  /\ e = EventOf(s, row[i]) /\ e \in Event /\ i \in Items
             /\ e.command = Command(s) /\ e.ask = Asked(s) /\ e.item = i
             /\ e.version = row[i].version + 1
             /\ e.from = row[i].status /\ e.to = Asked(s).to
             /\ row' = [row EXCEPT ![i] = [status |-> e.to, version |-> e.version]]
             /\ events' = events \cup {e}
             /\ Follows(s, row[i])
             /\ \A d \in events : ~ Clash(e, d)
<1>1. TypeOK /\ RequestsAreThere /\ PendingFollows /\ CommitsAreFree
  BY DEF IInv
<1>2. pending[s] = EventOf(s, row[Item(s)]) /\ Follows(s, row[Item(s)])
  BY <1>1 DEF PendingFollows, InTransaction
<1>3. Item(s) \in Items
  BY <1>1, AskTyped
<1> QED BY <1>1, <1>2, <1>3, EventTyped DEF Committed, Result, CommitsAreFree

\* A legal transition leads to a status, never to none.
LEMMA LegalTargets ==
  ASSUME NEW f \in Statuses
  PROVE  Transitions[f] \subseteq Statuses /\ "none" \notin Statuses
  BY DEF Statuses, Transitions

\* The chains after a commit.
LEMMA ChainGrows ==
  ASSUME IInv, NEW s \in Slots, stage[s] = "commit", Committed(s)
  PROVE  HistoryIsAChain' /\ EventsAreUnique' /\ AbsentMeansNone'
<1> DEFINE e == pending[s]
           i == Item(s)
<1>1. TypeOK /\ RequestsAreThere /\ HistoryIsAChain /\ EventsAreUnique /\ AbsentMeansNone
  BY DEF IInv
<1>2. /\ e \in Event /\ i \in Items
      /\ e.item = i /\ e.version = row[i].version + 1
      /\ e.from = row[i].status /\ e.to = Asked(s).to
      /\ events' = events \cup {e}
      /\ Follows(s, row[i])
      /\ \A d \in events : ~ Clash(e, d)
  BY NewEvent
<1>3. row' = [row EXCEPT ![i] = [status |-> e.to, version |-> e.version]]
  BY NewEvent
<1>4. /\ row[i] \in Row /\ row[i].version \in Nat
      /\ e.version \in Nat /\ e.to \in Statuses
  BY <1>1, <1>2 DEF TypeOK, Row, Event
<1>5. /\ row'[i].status = e.to /\ row'[i].version = row[i].version + 1
      /\ \A j \in Items \ {i} : row'[j] = row[j]
  BY <1>1, <1>2, <1>3 DEF TypeOK
<1>6. AbsentMeansNone'
  <2>1. row'[i].version # 0 /\ row'[i].status # "none"
    BY <1>4, <1>5, LegalTargets
  <2> QED BY <1>1, <1>5, <2>1 DEF AbsentMeansNone
<1>7. EventsAreUnique'
  BY <1>1, <1>2 DEF EventsAreUnique, Clash
<1>8. ASSUME NEW j \in Items \ {i}
      PROVE  /\ \A v \in 1..row'[j].version :
                  \E d \in events' :
                    /\ d.item = j /\ d.version = v
                    /\ IF v = 1 THEN d.from = "none" /\ d.to = "backlog"
                       ELSE \E c \in events' : /\ c.item = j /\ c.version = v - 1
                                               /\ c.to = d.from /\ d.to \in Transitions[c.to]
                    /\ v = row'[j].version => d.to = row'[j].status
             /\ \A d \in events' : d.item = j => d.version \in 1..row'[j].version
  BY <1>1, <1>2, <1>5, <1>8 DEF HistoryIsAChain
<1>9. /\ \A v \in 1..row'[i].version :
           \E d \in events' :
             /\ d.item = i /\ d.version = v
             /\ IF v = 1 THEN d.from = "none" /\ d.to = "backlog"
                ELSE \E c \in events' : /\ c.item = i /\ c.version = v - 1
                                        /\ c.to = d.from /\ d.to \in Transitions[c.to]
             /\ v = row'[i].version => d.to = row'[i].status
      /\ \A d \in events' : d.item = i => d.version \in 1..row'[i].version
  <2>1. \A d \in events' : d.item = i => d.version \in 1..row'[i].version
    BY <1>1, <1>2, <1>4, <1>5 DEF HistoryIsAChain
  <2>2. ASSUME NEW v \in 1..row[i].version
        PROVE  \E d \in events' :
                 /\ d.item = i /\ d.version = v
                 /\ IF v = 1 THEN d.from = "none" /\ d.to = "backlog"
                    ELSE \E c \in events' : /\ c.item = i /\ c.version = v - 1
                                            /\ c.to = d.from /\ d.to \in Transitions[c.to]
                 /\ v = row'[i].version => d.to = row'[i].status
    BY <1>1, <1>2, <1>4, <1>5 DEF HistoryIsAChain
  <2>3. IF row[i].version + 1 = 1 THEN e.from = "none" /\ e.to = "backlog"
        ELSE \E c \in events' : /\ c.item = i /\ c.version = row[i].version
                                /\ c.to = e.from /\ e.to \in Transitions[c.to]
    <3>1. CASE Asked(s).op = "create"
      BY <1>1, <1>2, <3>1, AskTyped DEF Follows, AbsentRow
    <3>2. CASE Asked(s).op # "create"
      <4>1. row[i].version = Asked(s).expected /\ e.to \in Transitions[row[i].status]
        BY <1>2, <3>2 DEF Follows
      <4>2. row[i].version > 0
        BY <1>1, <4>1, <3>2, AskTyped
      <4>3. PICK c \in events : /\ c.item = i /\ c.version = row[i].version
                                /\ c.to = row[i].status
        BY <1>1, <1>2, <1>4, <4>2 DEF HistoryIsAChain
      <4> QED BY <1>2, <1>4, <4>1, <4>2, <4>3
    <3> QED BY <3>1, <3>2
  <2>4. \E d \in events' :
          /\ d.item = i /\ d.version = row[i].version + 1
          /\ IF row[i].version + 1 = 1 THEN d.from = "none" /\ d.to = "backlog"
             ELSE \E c \in events' : /\ c.item = i /\ c.version = (row[i].version + 1) - 1
                                     /\ c.to = d.from /\ d.to \in Transitions[c.to]
          /\ d.to = row'[i].status
    BY <1>2, <1>4, <1>5, <2>3
  <2> QED BY <1>4, <1>5, <2>1, <2>2, <2>4
<1>10. HistoryIsAChain'
  BY <1>8, <1>9 DEF HistoryIsAChain
<1> QED BY <1>6, <1>7, <1>10

\* A commit keeps the invariant, whether its answer arrives or not.
LEMMA Committing ==
  ASSUME IInv, NEW s \in Slots, NEW to, NEW kind, NEW result,
         stage[s] = "commit", Committed(s), EndIn(s, to, kind, result),
         faultsLeft' \in Nat \cup {Unlimited},
         \/ to = "done" /\ kind = "applied" /\ result = Result(pending[s])
         \/ to = "recheck" /\ kind = "error" /\ result = AbsentRow
  PROVE  IInv'
<1> DEFINE e == pending[s]
           i == Item(s)
<1>1. /\ TypeOK /\ RequestsAreThere /\ PendingFollows /\ OneHolder /\ CommitsAreFree
      /\ ReasonLasts /\ PositiveMeansRecorded /\ RefusedMeansNoEffect /\ AbsentMeansNone
  BY DEF IInv
<1>2. /\ request' = request
      /\ \A t \in Slots \ {s} : /\ stage'[t] = stage[t] /\ pending'[t] = pending[t]
                                /\ answer'[t] = answer[t]
      /\ stage'[s] = to
      /\ \A t \in Slots : Command(t)' = Command(t) /\ Asked(t)' = Asked(t) /\ Item(t)' = Item(t)
  BY <1>1, OthersKeep
<1>3. answer'[s].kind = kind /\ answer'[s].result = result
  BY <1>1 DEF EndIn, TypeOK
<1>4. /\ e \in Event /\ i \in Items
      /\ e.command = Command(s) /\ e.ask = Asked(s)
      /\ e.item = i /\ e.version = row[i].version + 1
      /\ e.to = Asked(s).to
      /\ events' = events \cup {e}
      /\ Follows(s, row[i])
      /\ \A d \in events : ~ Clash(e, d)
  BY NewEvent
<1>5. row' = [row EXCEPT ![i] = [status |-> e.to, version |-> e.version]]
  BY NewEvent
<1>6. /\ row[i].version \in Nat /\ e.version \in Nat /\ e.to \in Statuses
      /\ Result(e) \in Row
  BY <1>1, <1>4 DEF TypeOK, Row, Event, Result
<1>7. /\ row'[i].version = row[i].version + 1
      /\ \A j \in Items \ {i} : row'[j] = row[j]
  BY <1>1, <1>4, <1>5 DEF TypeOK
<1>8. TypeOK'
  <2>1. row' \in [Items -> Row] /\ events' \subseteq Event
    BY <1>1, <1>4, <1>5, <1>6 DEF TypeOK, Row
  <2>2. [kind |-> kind, result |-> result] \in Answer
    BY <1>6 DEF Answer, AbsentRow, Row
  <2> QED BY <1>1, <2>1, <2>2 DEF EndIn, TypeOK, Stage
<1>9. HistoryIsAChain' /\ EventsAreUnique' /\ AbsentMeansNone'
  BY ChainGrows
<1>10. RequestsAreThere'
  BY <1>1, <1>2 DEF RequestsAreThere
<1>11. \A t \in Slots \ {s} : InTransaction(t) => Item(t) # i
  BY <1>1 DEF OneHolder, InTransaction
<1>12. ASSUME NEW t \in Slots, InTransaction(t)'
       PROVE  Follows(t, row[Item(t)])' /\ (pending[t] = EventOf(t, row[Item(t)]))'
  <2>1. t # s /\ InTransaction(t)
    BY <1>2, <1>12 DEF InTransaction
  <2>2. Item(t) \in Items \ {i}
    BY <1>1, <1>11, <2>1, AskTyped DEF InTransaction
  <2>3. row'[Item(t)] = row[Item(t)]
    BY <1>7, <2>2
  <2>4. Follows(t, row[Item(t)]) /\ pending[t] = EventOf(t, row[Item(t)])
    BY <1>1, <2>1 DEF PendingFollows
  <2> QED BY <1>2, <2>1, <2>3, <2>4 DEF Follows, EventOf
<1>13. PendingFollows'
  BY <1>12 DEF PendingFollows
<1>14. OneHolder'
  BY <1>1, <1>2 DEF OneHolder, InTransaction
<1>15. CommitsAreFree'
  <2>1. ASSUME NEW t \in Slots, stage'[t] = "commit"
        PROVE  /\ t # s /\ stage[t] = "commit" /\ pending'[t] = pending[t]
               /\ pending[t].command = Command(t) /\ pending[t].item = Item(t)
               /\ Item(t) # i /\ Command(t) # Command(s)
    <3>1. t # s /\ stage[t] = "commit"
      BY <1>2, <2>1
    <3>2. pending[t] = EventOf(t, row[Item(t)])
      BY <1>1, <3>1 DEF PendingFollows, InTransaction
    <3> QED BY <1>1, <1>2, <1>11, <3>1, <3>2 DEF EventOf, InTransaction, CommitsAreFree
  <2>2. \A t \in Slots : stage'[t] = "commit" => \A d \in events' : ~ Clash(pending'[t], d)
    BY <1>1, <1>4, <2>1 DEF CommitsAreFree, Clash
  <2> QED BY <1>1, <1>2, <2>1, <2>2 DEF CommitsAreFree
<1>16. ReasonLasts'
  <2>1. ASSUME NEW t \in Slots, stage'[t] \in {"recheck", "done"}, t # s
        PROVE  /\ stage[t] \in {"recheck", "done"} /\ answer'[t] = answer[t]
               /\ Item(t) \in Items /\ row[Item(t)].version \in Nat
               /\ \/ row'[Item(t)] = row[Item(t)]
                  \/ row'[Item(t)].version = row[Item(t)].version + 1
               /\ Asked(t).expected \in Nat
    BY <1>1, <1>2, <1>6, <1>7, <2>1, AskTyped DEF Row
  <2> QED BY <1>1, <1>2, <1>3, <2>1 DEF ReasonLasts
<1>17. PositiveMeansRecorded'
  BY <1>1, <1>2, <1>3, <1>4 DEF PositiveMeansRecorded
<1>18. RefusedMeansNoEffect'
  <2>1. ASSUME NEW t \in Slots, stage[t] = "done", t # s,
               answer[t].kind \in {"stale", "illegal", "exists"}, e.ask = Asked(t)
        PROVE  FALSE
    <3>1. Asked(t) = Asked(s) /\ Item(t) = i
      BY <1>4, <2>1 DEF Item
    <3>2. row[i].version \in Nat /\ Asked(s).expected \in Nat
      BY <1>1, <1>6, AskTyped
    <3>3. /\ answer[t].kind = "exists" => Asked(s).op = "create" /\ row[i].version > 0
          /\ answer[t].kind = "stale" =>
               Asked(s).op = "transition" /\ row[i].version > Asked(s).expected
          /\ answer[t].kind = "illegal" =>
               /\ Asked(s).op = "transition"
               /\ \/ row[i].version > Asked(s).expected
                  \/ Asked(s).to \notin Transitions[row[i].status]
      BY <1>1, <2>1, <3>1 DEF ReasonLasts
    <3>4. CASE Asked(s).op = "create"
      BY <1>4, <2>1, <3>3, <3>4 DEF Follows, AbsentRow
    <3>5. CASE Asked(s).op # "create"
      BY <1>4, <2>1, <3>2, <3>3, <3>5 DEF Follows
    <3> QED BY <3>4, <3>5
  <2> QED BY <1>1, <1>2, <1>3, <1>4, <2>1 DEF RefusedMeansNoEffect
<1> QED BY <1>8, <1>9, <1>10, <1>13, <1>14, <1>15, <1>16, <1>17, <1>18 DEF IInv

-----------------------------------------------------------------------------
(* Actions.                                                                *)

\* A new request says nothing yet.
LEMMA Submitting ==
  ASSUME IInv, NEW s \in Slots, NEW c \in Commands, NEW a \in Asks, Submit(s, c, a)
  PROVE  IInv'
<1>1. TypeOK /\ RequestsAreThere
  BY DEF IInv
<1>2. \A t \in Slots \ {s} : /\ stage'[t] = stage[t] /\ request'[t] = request[t]
                             /\ answer'[t] = answer[t]
                             /\ Command(t)' = Command(t) /\ Asked(t)' = Asked(t)
                             /\ Item(t)' = Item(t)
  BY <1>1 DEF Submit, TypeOK, Command, Asked, Item
<1>3. stage'[s] = "find" /\ request'[s] # None /\ UNCHANGED <<row, events, pending>>
  BY <1>1 DEF Submit, TypeOK
<1>4. TypeOK'
  BY <1>1 DEF Submit, TypeOK, Stage, NoAnswer, Answer, AbsentRow, Row
<1>5. HistoryIsAChain' /\ EventsAreUnique' /\ AbsentMeansNone'
  BY <1>3 DEF IInv, HistoryIsAChain, EventsAreUnique, AbsentMeansNone
<1>6. RequestsAreThere'
  BY <1>1, <1>2, <1>3 DEF RequestsAreThere
<1>7. \A t \in Slots \ {s} : /\ Follows(t, row[Item(t)])' <=> Follows(t, row[Item(t)])
                             /\ EventOf(t, row[Item(t)])' = EventOf(t, row[Item(t)])
  BY <1>2, <1>3 DEF Follows, EventOf
<1>8. PendingFollows' /\ OneHolder' /\ CommitsAreFree'
  BY <1>2, <1>3, <1>7 DEF IInv, PendingFollows, InTransaction, OneHolder, CommitsAreFree
<1>9. ReasonLasts' /\ PositiveMeansRecorded' /\ RefusedMeansNoEffect'
  BY <1>2, <1>3 DEF IInv, ReasonLasts, PositiveMeansRecorded, RefusedMeansNoEffect
<1> QED BY <1>4, <1>5, <1>6, <1>8, <1>9 DEF IInv

\* Ends that claim nothing about the item are truthful.
LEMMA SayingLittle ==
  ASSUME TypeOK, NEW s \in Slots, NEW to \in {"recheck", "done"},
         NEW kind \in {"missing", "reused", "ahead", "error", "lost"}
  PROVE  Truthful(s, to, kind, AbsentRow)
  BY DEF Truthful, Answer, Refusals, AbsentRow, Row

\* A replay is truthful.
LEMMA Replaying ==
  ASSUME TypeOK, NEW s \in Slots, NEW e \in events,
         e.command = Command(s), e.ask = Asked(s)
  PROVE  Truthful(s, "done", "replayed", Result(e))
<1>1. Result(e) \in Row
  BY DEF TypeOK, Event, Result, Row
<1> QED BY <1>1 DEF Truthful, Answer

\* Looking for a replay changes nothing but the slot.
LEMMA FindKeeps ==
  ASSUME IInv, NEW s \in Slots, Find(s)
  PROVE  IInv'
<1>1. TypeOK /\ stage[s] # "idle" /\ faultsLeft' \in Nat \cup {Unlimited}
  BY DEF IInv, TypeOK, Find
<1>2. CASE GoOn(s, "row", None)
  BY <1>1, <1>2, GoingOn DEF Find
<1>3. CASE \E e \in events : e.command = Command(s) /\ e.ask = Asked(s)
                             /\ Answers(s, "replayed", Result(e))
  BY <1>1, <1>3, Ending, Replaying DEF Find, Answers
<1>4. CASE Fails(s, "reused")
  BY <1>1, <1>4, Ending, SayingLittle DEF Find, Fails
<1> QED BY <1>2, <1>3, <1>4 DEF Find

\* Nobody else has the row of a slot that found it free.
LEMMA NotBusy ==
  ASSUME IInv, NEW s \in Slots, stage[s] = "row", Follows(s, row[Item(s)]),
         ~ Busy(s, Asked(s).op)
  PROVE  \A t \in Slots : InTransaction(t) /\ Item(t) = Item(s) => t = s
<1> SUFFICES ASSUME NEW t \in Slots, InTransaction(t), Item(t) = Item(s), t # s
             PROVE  FALSE
  OBVIOUS
<1>1. TypeOK /\ RequestsAreThere /\ PendingFollows
  BY DEF IInv
<1>2. Follows(t, row[Item(s)])
  BY <1>1 DEF PendingFollows
<1>3. Asked(t).op # Asked(s).op
  BY DEF Busy, Open, InTransaction
<1>4. /\ Asked(s).op \in {"create", "transition"} /\ Asked(t).op \in {"create", "transition"}
      /\ Asked(s).op = "transition" => Asked(s).expected > 0
      /\ Asked(t).op = "transition" => Asked(t).expected > 0
      /\ Asked(s).expected \in Nat /\ Asked(t).expected \in Nat
  BY <1>1, AskTyped DEF InTransaction
<1>5. CASE Asked(s).op = "create"
  BY <1>2, <1>3, <1>4, <1>5 DEF Follows, AbsentRow
<1>6. CASE Asked(s).op = "transition"
  BY <1>2, <1>3, <1>4, <1>6 DEF Follows, AbsentRow
<1> QED BY <1>4, <1>5, <1>6

\* A created row is held, and its event follows from the absent row.
LEMMA InsertItemKeeps ==
  ASSUME IInv, NEW s \in Slots, InsertItem(s)
  PROVE  IInv'
<1>1. /\ TypeOK /\ RequestsAreThere /\ AbsentMeansNone
      /\ stage[s] = "row" /\ faultsLeft' \in Nat \cup {Unlimited}
  BY DEF IInv, TypeOK, InsertItem
<1>2. Item(s) \in Items /\ row[Item(s)] \in Row /\ Asked(s).op = "create"
  BY <1>1, AskTyped DEF InsertItem
<1>3. CASE row[Item(s)].version = 0
  <2>1. row[Item(s)] = AbsentRow
    BY <1>1, <1>2, <1>3 DEF AbsentMeansNone, Row, AbsentRow
  <2>2. Follows(s, row[Item(s)])
    BY <1>2, <2>1 DEF Follows
  <2>3. \A t \in Slots : InTransaction(t) /\ Item(t) = Item(s) => t = s
    BY <1>1, <1>2, <2>2, NotBusy DEF InsertItem
  <2>4. GoOn(s, "event", EventOf(s, row[Item(s)]))
    BY <1>3, <2>1 DEF InsertItem
  <2> QED BY <1>1, <2>2, <2>3, <2>4, EventTyped, GoingOn DEF InsertItem
<1>4. CASE row[Item(s)].version # 0
  <2>1. Truthful(s, "recheck", "exists", AbsentRow)
    BY <1>2, <1>4 DEF Truthful, Answer, Refusals, AbsentRow, Row
  <2>2. EndIn(s, "recheck", "exists", AbsentRow)
    BY <1>4 DEF InsertItem, Fails
  <2> QED BY <1>1, <2>1, <2>2, Ending DEF InsertItem
<1> QED BY <1>3, <1>4

\* A transition holds the row its event follows from, or is refused for a
\* reason that lasts.
LEMMA LockItemKeeps ==
  ASSUME IInv, NEW s \in Slots, LockItem(s)
  PROVE  IInv'
<1>1. /\ TypeOK /\ RequestsAreThere
      /\ stage[s] = "row" /\ faultsLeft' \in Nat \cup {Unlimited}
      /\ UNCHANGED <<row, events>>
  BY DEF IInv, TypeOK, LockItem
<1>2. Asked(s).op = "transition" /\ row[Item(s)] \in Row /\ Asked(s).expected \in Nat
  BY <1>1, AskTyped DEF LockItem
<1>3. CASE Answers(s, "missing", AbsentRow) \/ Fails(s, "ahead")
  BY <1>1, <1>3, Ending, SayingLittle DEF Answers, Fails
<1>4. CASE row[Item(s)].version > Asked(s).expected /\ Fails(s, "stale")
  <2>1. Truthful(s, "recheck", "stale", AbsentRow)
    BY <1>2, <1>4 DEF Truthful, Answer, Refusals, AbsentRow, Row
  <2> QED BY <1>1, <1>4, <2>1, Ending DEF Fails
<1>5. CASE /\ row[Item(s)].version = Asked(s).expected
           /\ Asked(s).to \in Transitions[row[Item(s)].status]
           /\ GoOn(s, "event", EventOf(s, row[Item(s)]))
  <2>1. Follows(s, row[Item(s)])
    BY <1>2, <1>5 DEF Follows
  <2>2. \A t \in Slots : InTransaction(t) /\ Item(t) = Item(s) => t = s
    BY <1>1, <1>2, <2>1, NotBusy DEF LockItem
  <2> QED BY <1>1, <1>5, <2>1, <2>2, EventTyped, GoingOn
<1>6. CASE /\ row[Item(s)].version = Asked(s).expected
           /\ Asked(s).to \notin Transitions[row[Item(s)].status]
           /\ Fails(s, "illegal")
  <2>1. Truthful(s, "recheck", "illegal", AbsentRow)
    BY <1>2, <1>6 DEF Truthful, Answer, Refusals, AbsentRow, Row
  <2> QED BY <1>1, <1>6, <2>1, Ending DEF Fails
<1> QED BY <1>3, <1>4, <1>5, <1>6 DEF LockItem

\* An event that went in clashes with no other that may still commit.
LEMMA InsertEventKeeps ==
  ASSUME IInv, NEW s \in Slots, InsertEvent(s)
  PROVE  IInv'
<1>1. /\ TypeOK /\ RequestsAreThere /\ PendingFollows /\ OneHolder
      /\ stage[s] = "event" /\ faultsLeft' \in Nat \cup {Unlimited}
      /\ UNCHANGED <<row, events>>
  BY DEF IInv, TypeOK, InsertEvent
<1>2. CASE Fails(s, "error")
  BY <1>1, <1>2, Ending, SayingLittle DEF Fails
<1>3. CASE /\ \A e \in events : ~ Clash(pending[s], e)
           /\ GoOn(s, "commit", pending[s])
  <2>1. pending[s] = EventOf(s, row[Item(s)]) /\ Follows(s, row[Item(s)])
    BY <1>1 DEF PendingFollows, InTransaction
  <2>2. \A t \in Slots : InTransaction(t) /\ Item(t) = Item(s) => t = s
    BY <1>1 DEF OneHolder, InTransaction
  <2>3. ASSUME NEW t \in Slots, stage[t] = "commit"
        PROVE  pending[t].command = Command(t)
    <3>1. pending[t] = EventOf(t, row[Item(t)])
      BY <1>1, <2>3 DEF PendingFollows, InTransaction
    <3> QED BY <3>1 DEF EventOf
  <2>4. pending[s].command = Command(s)
    BY <2>1 DEF EventOf
  <2>5. \A t \in Slots : stage[t] = "commit" /\ Command(s) = Command(t) => s = t
    BY <2>3, <2>4 DEF InsertEvent, Clash
  <2> QED BY <1>1, <1>3, <2>1, <2>2, <2>5, EventTyped, GoingOn
<1> QED BY <1>2, <1>3 DEF InsertEvent

\* The second look finds the command, or nothing happened.
LEMMA RecheckKeeps ==
  ASSUME IInv, NEW s \in Slots, Recheck(s)
  PROVE  IInv'
<1>1. /\ TypeOK /\ ReasonLasts
      /\ stage[s] = "recheck" /\ faultsLeft' \in Nat \cup {Unlimited}
      /\ UNCHANGED <<row, events>>
  BY DEF IInv, TypeOK, Recheck
<1>2. CASE \E e \in events : e.command = Command(s) /\ e.ask = Asked(s)
                             /\ Answers(s, "replayed", Result(e))
  BY <1>1, <1>2, Ending, Replaying DEF Answers
<1>3. CASE Answers(s, "reused", AbsentRow)
  BY <1>1, <1>3, Ending, SayingLittle DEF Answers
<1>4. CASE /\ \A e \in events : e.command # Command(s)
           /\ Answers(s, answer[s].kind, AbsentRow)
  <2>1. answer[s].kind \in Refusals \cup {"none", "error", "lost"}
    BY <1>1, <1>4 DEF TypeOK, Answer, ReasonLasts
  <2>2. Truthful(s, "done", answer[s].kind, AbsentRow)
    BY <1>1, <1>4, <2>1 DEF Truthful, ReasonLasts, Answer, AbsentRow, Row
  <2> QED BY <1>1, <1>4, <2>2, Ending DEF Answers
<1> QED BY <1>2, <1>3, <1>4 DEF Recheck

\* A commit, answered.
LEMMA CommitKeeps ==
  ASSUME IInv, NEW s \in Slots, Commit(s) \/ CommitUnanswered(s)
  PROVE  IInv'
<1>1. /\ stage[s] = "commit" /\ Committed(s) /\ faultsLeft' \in Nat \cup {Unlimited}
  BY DEF IInv, TypeOK, Commit, CommitUnanswered, Fault
<1>2. CASE Commit(s)
  BY <1>1, <1>2, Committing DEF Commit, Answers
<1>3. CASE CommitUnanswered(s)
  BY <1>1, <1>3, Committing DEF CommitUnanswered, Fails
<1> QED BY <1>2, <1>3

\* A fault rolls back, or loses only the answer.
LEMMA FaultKeeps ==
  ASSUME IInv, NEW s \in Slots, StatementFails(s) \/ RecheckFails(s) \/ Dies(s)
  PROVE  IInv'
<1>1. /\ TypeOK /\ stage[s] # "idle" /\ faultsLeft' \in Nat \cup {Unlimited}
      /\ UNCHANGED <<row, events>>
  BY DEF IInv, TypeOK, StatementFails, RecheckFails, Dies, Fault
<1>2. CASE StatementFails(s)
  BY <1>1, <1>2, Ending, SayingLittle DEF StatementFails, Fails
<1>3. CASE RecheckFails(s)
  BY <1>1, <1>3, Ending, SayingLittle DEF RecheckFails, Answers
<1>4. CASE Dies(s)
  BY <1>1, <1>4, Ending, SayingLittle DEF Dies, Answers
<1> QED BY <1>2, <1>3, <1>4

\* A step that changes nothing.
LEMMA Stuttering ==
  ASSUME IInv, UNCHANGED vars
  PROVE  IInv'
<1>1. \A s \in Slots : /\ Command(s)' = Command(s) /\ Asked(s)' = Asked(s)
                       /\ Item(s)' = Item(s)
  BY DEF vars, work, Command, Asked, Item
<1>2. \A s \in Slots : /\ Follows(s, row[Item(s)])' <=> Follows(s, row[Item(s)])
                       /\ EventOf(s, row[Item(s)])' = EventOf(s, row[Item(s)])
  BY <1>1 DEF vars, work, Follows, EventOf
<1>3. TypeOK' /\ HistoryIsAChain' /\ EventsAreUnique' /\ RequestsAreThere' /\ AbsentMeansNone'
  BY DEF IInv, vars, work, TypeOK, HistoryIsAChain, EventsAreUnique, RequestsAreThere,
         AbsentMeansNone
<1>4. PendingFollows' /\ OneHolder' /\ CommitsAreFree'
  BY <1>1, <1>2 DEF IInv, vars, work, PendingFollows, OneHolder, CommitsAreFree, InTransaction
<1>5. ReasonLasts' /\ PositiveMeansRecorded' /\ RefusedMeansNoEffect'
  BY <1>1 DEF IInv, vars, work, ReasonLasts, PositiveMeansRecorded, RefusedMeansNoEffect
<1> QED BY <1>3, <1>4, <1>5 DEF IInv

\* The strengthening is an invariant.
THEOREM WorkItemsInvariance == Spec => []IInv
<1>1. Init => IInv
  <2> SUFFICES ASSUME Init PROVE IInv
    OBVIOUS
  <2>1. TypeOK
    BY DEF Init, TypeOK, AbsentRow, Row, Stage, NoAnswer, Answer
  <2>2. \A i \in Items : row[i].version = 0 /\ row[i].status = "none"
    BY DEF Init, AbsentRow
  <2>3. \A s \in Slots : stage[s] = "idle"
    BY DEF Init
  <2>4. events = {}
    BY DEF Init
  <2>5. HistoryIsAChain /\ EventsAreUnique /\ AbsentMeansNone
    BY <2>2, <2>4 DEF HistoryIsAChain, EventsAreUnique, AbsentMeansNone
  <2>6. /\ RequestsAreThere /\ PendingFollows /\ OneHolder /\ CommitsAreFree
        /\ ReasonLasts /\ PositiveMeansRecorded /\ RefusedMeansNoEffect
    BY <2>3 DEF RequestsAreThere, PendingFollows, InTransaction, OneHolder, CommitsAreFree,
                ReasonLasts, PositiveMeansRecorded, RefusedMeansNoEffect
  <2> QED BY <2>1, <2>5, <2>6 DEF IInv
<1>2. IInv /\ [Next]_vars => IInv'
  <2> SUFFICES ASSUME IInv, [Next]_vars PROVE IInv'
    OBVIOUS
  <2>1. CASE UNCHANGED vars
    BY <2>1, Stuttering
  <2>2. ASSUME NEW s \in Slots, NEW c \in Commands, NEW a \in Asks, Submit(s, c, a)
        PROVE  IInv'
    BY <2>2, Submitting
  <2>3. ASSUME NEW s \in Slots, Step(s)
        PROVE  IInv'
    BY <2>3, FindKeeps, InsertItemKeeps, LockItemKeeps, InsertEventKeeps, RecheckKeeps,
       CommitKeeps DEF Step
  <2>4. ASSUME NEW s \in Slots, Disturb(s)
        PROVE  IInv'
    BY <2>4, CommitKeeps, FaultKeeps DEF Disturb
  <2> QED BY <2>1, <2>2, <2>3, <2>4 DEF Next
<1> QED BY <1>1, <1>2, PTL DEF Spec

\* The events of every item are a gapless chain of legal transitions that ends
\* in its row.
THEOREM ChainsHold == Spec => []HistoryIsAChain
<1>1. IInv => HistoryIsAChain
  BY DEF IInv
<1> QED BY <1>1, WorkItemsInvariance, PTL

\* A positive answer is the recorded effect of the request.
THEOREM PositiveAnswersRecorded == Spec => []PositiveMeansRecorded
<1>1. IInv => PositiveMeansRecorded
  BY DEF IInv
<1> QED BY <1>1, WorkItemsInvariance, PTL

\* A request refused for the state of its item has no effect, nor has a retry.
THEOREM RefusalsHaveNoEffect == Spec => []RefusedMeansNoEffect
<1>1. IInv => RefusedMeansNoEffect
  BY DEF IInv
<1> QED BY <1>1, WorkItemsInvariance, PTL

-----------------------------------------------------------------------------
(* Refinement.                                                             *)

Mapped == [i \in Items |-> [v \in 1..row[i].version |-> Entry(i, v)]]

\* An entry is the one event of its item and version.
LEMMA OneEntry ==
  ASSUME EventsAreUnique, NEW e \in events
  PROVE  Entry(e.item, e.version) = [command |-> e.command, to |-> e.to]
<1>1. \A x \in events : x.item = e.item /\ x.version = e.version => x = e
  BY DEF EventsAreUnique, Clash
<1> QED BY <1>1 DEF Entry

\* The journal of an item and its last entry, read off the rows.
LEMMA JournalShape ==
  ASSUME IInv, NEW i \in Items
  PROVE  /\ Mapped[i] \in Seq([command : Commands, to : Statuses])
         /\ Len(Mapped[i]) = row[i].version
         /\ \A k \in 1..row[i].version :
              \E e \in events : /\ e.item = i /\ e.version = k
                                /\ Mapped[i][k] = [command |-> e.command, to |-> e.to]
         /\ row[i].version > 0 => Mapped[i][row[i].version].to = row[i].status
<1>1. TypeOK /\ HistoryIsAChain /\ EventsAreUnique
  BY DEF IInv
<1>2. row[i].version \in Nat
  BY <1>1 DEF TypeOK, Row
<1>3. ASSUME NEW k \in 1..row[i].version
      PROVE  \E e \in events : /\ e.item = i /\ e.version = k
                               /\ Mapped[i][k] = [command |-> e.command, to |-> e.to]
                               /\ k = row[i].version => e.to = row[i].status
  <2>1. PICK e \in events : /\ e.item = i /\ e.version = k
                            /\ k = row[i].version => e.to = row[i].status
    BY <1>1 DEF HistoryIsAChain
  <2>2. Mapped[i][k] = Entry(i, k)
    BY DEF Mapped
  <2> QED BY <1>1, <2>1, <2>2, OneEntry
<1>4. ASSUME NEW k \in 1..row[i].version
      PROVE  Mapped[i][k] \in [command : Commands, to : Statuses]
  <2>1. PICK e \in events : Mapped[i][k] = [command |-> e.command, to |-> e.to]
    BY <1>3
  <2>2. e.command \in Commands /\ e.to \in Statuses
    BY <1>1 DEF TypeOK, Event
  <2> QED BY <2>1, <2>2
<1>5. Mapped[i] = [k \in 1..row[i].version |-> Entry(i, k)]
  BY DEF Mapped
<1>6. Mapped[i] \in Seq([command : Commands, to : Statuses]) /\ Len(Mapped[i]) = row[i].version
  <2> DEFINE n == row[i].version
             f == Mapped[i]
  <2>1. n \in Nat /\ f = [k \in 1..n |-> Entry(i, k)]
    BY <1>2, <1>5
  <2>2. DOMAIN f = 1..n /\ f \in [1..n -> [command : Commands, to : Statuses]]
    BY <1>4, <2>1
  <2> HIDE DEF n, f
  <2>3. f \in Seq([command : Commands, to : Statuses]) /\ Len(f) = n
    BY <2>1, <2>2
  <2> QED BY <2>3 DEF n, f
<1>7. \A k \in 1..row[i].version :
        \E e \in events : /\ e.item = i /\ e.version = k
                          /\ Mapped[i][k] = [command |-> e.command, to |-> e.to]
  BY <1>3
<1>8. ASSUME row[i].version > 0
      PROVE  Mapped[i][row[i].version].to = row[i].status
  <2>1. PICK k \in 1..row[i].version : k = row[i].version
    BY <1>2, <1>8
  <2>2. PICK e \in events : /\ Mapped[i][k] = [command |-> e.command, to |-> e.to]
                            /\ e.to = row[i].status
    BY <1>3, <2>1
  <2>3. Mapped[i][k].to = row[i].status
    BY <2>2
  <2> QED BY <2>1, <2>3
<1> QED BY <1>6, <1>7, <1>8

\* While rows and events stay, so does the journal.
LEMMA JournalStays ==
  ASSUME UNCHANGED <<row, events>>
  PROVE  UNCHANGED Mapped
  BY DEF Mapped, Entry

\* A commit enters its event.
LEMMA CommitEnters ==
  ASSUME IInv, IInv', NEW s \in Slots, stage[s] = "commit", Committed(s)
  PROVE  \E i \in Items, c \in Commands, to \in Statuses :
           /\ i = Item(s) /\ c = Command(s) /\ to = Asked(s).to
           /\ Journal!Enter(i, c, to)
<1>1. /\ TypeOK /\ RequestsAreThere /\ HistoryIsAChain /\ EventsAreUnique /\ AbsentMeansNone
      /\ EventsAreUnique'
  BY DEF IInv
<1>i. PICK i \in Items : i = Item(s)
  BY NewEvent
<1>n. PICK n \in Nat : n = row[i].version
  BY <1>1 DEF TypeOK, Row
<1>c. PICK c \in Commands, to \in Statuses : c = Command(s) /\ to = Asked(s).to
  BY <1>1, AskTyped
<1>e. PICK e \in Event : e = pending[s]
  BY NewEvent
<1>2. /\ e.command = c /\ e.item = i /\ e.version = n + 1 /\ e.to = to
      /\ events' = events \cup {e}
      /\ Follows(s, row[i])
      /\ \A d \in events : ~ Clash(e, d)
  BY <1>i, <1>n, <1>c, <1>e, NewEvent
<1>3. row' = [row EXCEPT ![i] = [status |-> to, version |-> n + 1]]
  BY <1>i, <1>n, <1>c, <1>e, <1>2, NewEvent
<1>5. ~ \E j \in Items : \E k \in DOMAIN Mapped[j] : Mapped[j][k].command = c
  <2> SUFFICES ASSUME NEW j \in Items, NEW k \in DOMAIN Mapped[j],
                      Mapped[j][k].command = c
               PROVE  FALSE
    OBVIOUS
  <2>1. k \in 1..row[j].version
    BY DEF Mapped
  <2>2. PICK d \in events : Mapped[j][k] = [command |-> d.command, to |-> d.to]
    BY <2>1, JournalShape
  <2> QED BY <1>2, <2>2 DEF Clash
<1>6. IF Mapped[i] = <<>> THEN to = "backlog"
      ELSE to \in Transitions[Mapped[i][Len(Mapped[i])].to]
  <2>1. Len(Mapped[i]) = n /\ (n > 0 => Mapped[i][n].to = row[i].status)
    BY <1>n, JournalShape
  <2>2. Asked(s).op = "transition" => Asked(s).expected > 0
    BY <1>1, AskTyped
  <2>3. CASE Asked(s).op = "create"
    <3>1. to = "backlog" /\ n = 0
      BY <1>1, <1>2, <1>n, <1>c, <2>3, AskTyped DEF Follows, AbsentRow
    <3>2. Mapped[i] = <<>>
      BY <2>1, <3>1, JournalShape
    <3> QED BY <3>1, <3>2
  <2>4. CASE Asked(s).op # "create"
    <3>1. Asked(s).op = "transition"
      BY <1>1, <2>4, AskTyped
    <3>2. n = Asked(s).expected /\ n > 0 /\ to \in Transitions[row[i].status]
      BY <1>2, <1>n, <1>c, <2>2, <2>4, <3>1 DEF Follows
    <3>3. Mapped[i] # <<>>
      BY <2>1, <3>2
    <3> QED BY <2>1, <3>2, <3>3
  <2> QED BY <2>3, <2>4
<1>7. Mapped' = [Mapped EXCEPT ![i] = Append(@, [command |-> c, to |-> to])]
  <2>1. row'[i].version = n + 1 /\ \A j \in Items \ {i} : row'[j] = row[j]
    BY <1>1, <1>3, <1>n DEF TypeOK
  <2>2. ASSUME NEW j \in Items, NEW k \in 1..row[j].version
        PROVE  Entry(j, k)' = Entry(j, k)
    <3>1. PICK d \in events : d.item = j /\ d.version = k
      BY <1>1 DEF HistoryIsAChain
    <3>2. Entry(j, k) = [command |-> d.command, to |-> d.to]
      BY <1>1, <3>1, OneEntry
    <3>3. \A x \in events' : x.item = j /\ x.version = k => x = d
      BY <1>1, <1>2, <3>1 DEF EventsAreUnique, Clash
    <3>4. Entry(j, k)' = [command |-> d.command, to |-> d.to]
      BY <1>2, <3>1, <3>3 DEF Entry
    <3> QED BY <3>2, <3>4
  <2>3. Entry(i, n + 1)' = [command |-> c, to |-> to]
    <3>1. \A x \in events' : x.item = i /\ x.version = n + 1 => x = e
      BY <1>1, <1>2 DEF EventsAreUnique, Clash
    <3> QED BY <1>2, <3>1 DEF Entry
  <2>4. \A j \in Items \ {i} : Mapped'[j] = Mapped[j]
    BY <2>1, <2>2 DEF Mapped
  <2>5. Mapped'[i] = Append(Mapped[i], [command |-> c, to |-> to])
    <3>1. Mapped[i] = [k \in 1..n |-> Entry(i, k)]
      BY <1>n DEF Mapped
    <3>2. Mapped'[i] = [k \in 1..(n + 1) |-> Entry(i, k)']
      BY <2>1 DEF Mapped
    <3>3. Len(Mapped[i]) = n /\ Mapped[i] \in Seq([command : Commands, to : Statuses])
      BY <1>n, JournalShape
    <3>4. \A k \in 1..n : Entry(i, k)' = Mapped[i][k]
      BY <1>n, <2>2, <3>1
    <3> QED BY <2>3, <3>2, <3>3, <3>4
  <2> QED BY <1>2, <2>4, <2>5 DEF Mapped
<1>8. Journal!Enter(i, c, to)
  BY <1>5, <1>6, <1>7 DEF Journal!Enter, Journal!Used, Mapped
<1> QED BY <1>i, <1>c, <1>8

\* The event table is a journal: every commit is one entry, and nothing else
\* changes it.
THEOREM WorkItemsImplementJournal == Spec => ImplementsJournal
<1>1. Init => Journal!Init
  <2> SUFFICES ASSUME Init PROVE Journal!Init
    OBVIOUS
  <2>1. \A i \in Items : [v \in 1..row[i].version |-> Entry(i, v)] = <<>>
    BY DEF Init, AbsentRow
  <2> QED BY <2>1 DEF Journal!Init
<1>2. IInv /\ IInv' /\ [Next]_vars => [Journal!Next]_Mapped
  <2> SUFFICES ASSUME IInv, IInv', [Next]_vars
               PROVE  Journal!Next \/ UNCHANGED Mapped
    OBVIOUS
  <2>1. CASE UNCHANGED <<row, events>>
    BY <2>1, JournalStays
  <2>2. ASSUME NEW s \in Slots, Commit(s) \/ CommitUnanswered(s)
        PROVE  Journal!Next
    <3>1. stage[s] = "commit" /\ Committed(s)
      BY <2>2 DEF Commit, CommitUnanswered
    <3>2. PICK i \in Items, c \in Commands, to \in Statuses : Journal!Enter(i, c, to)
      BY <3>1, CommitEnters
    <3> QED BY <3>2 DEF Journal!Next, Statuses
  <2>3. UNCHANGED <<row, events>> \/ \E s \in Slots : Commit(s) \/ CommitUnanswered(s)
    BY DEF vars, Next, Submit, Step, Disturb, Find, InsertItem, LockItem, InsertEvent,
           Recheck, StatementFails, RecheckFails, Dies
  <2> QED BY <2>1, <2>2, <2>3
<1> QED BY <1>1, <1>2, WorkItemsInvariance, PTL DEF Spec, ImplementsJournal, Journal!Spec, Mapped
=============================================================================
