------------------------- MODULE ShippingRunsProofs -------------------------
(***************************************************************************)
(* What TLAPS proves of the runs of the control plane, for any number of   *)
(* requests, shas and failures and any number of frames handled at once:   *)
(* a row shows SHIPPED only if it was shipped, what it shows at the end,   *)
(* and that a run is started once.                                         *)
(***************************************************************************)
EXTENDS ShippingRuns, TLAPS

USE ShasAssumption, WireAssumption

-----------------------------------------------------------------------------
(* Reports on their way, and rows.                                         *)

Reports == File \cup {Failure}

\* A sequence without its i-th element.
LEMMA Removed ==
  ASSUME NEW S, NEW w \in Seq(S), NEW i \in 1..Len(w)
  PROVE  /\ RemoveAt(w, i) \in Seq(S)
         /\ Len(RemoveAt(w, i)) = Len(w) - 1
         /\ \A j \in 1..(Len(w) - 1) : RemoveAt(w, i)[j] = IF j < i THEN w[j] ELSE w[j + 1]
<1> DEFINE front == SubSeq(w, 1, i - 1)
           rest  == SubSeq(w, i + 1, Len(w))
<1>1. front \in Seq(S) /\ Len(front) = i - 1 /\ \A j \in 1..(i - 1) : front[j] = w[j]
  OBVIOUS
<1>2. rest \in Seq(S) /\ Len(rest) = Len(w) - i /\ \A j \in 1..(Len(w) - i) : rest[j] = w[i + j]
  OBVIOUS
<1>3. RemoveAt(w, i) = front \o rest
  BY DEF RemoveAt
<1> HIDE DEF front, rest
<1>4. /\ front \o rest \in Seq(S) /\ Len(front \o rest) = Len(w) - 1
      /\ \A j \in 1..(Len(w) - 1) :
           (front \o rest)[j] = IF j <= Len(front) THEN front[j] ELSE rest[j - Len(front)]
  BY <1>1, <1>2
<1>5. ASSUME NEW j \in 1..(Len(w) - 1), j >= i
      PROVE  rest[j - (i - 1)] = w[j + 1]
  <2>1. j - (i - 1) \in 1..(Len(w) - i) /\ i + (j - (i - 1)) = j + 1
    BY <1>5
  <2> QED BY <2>1, <1>2
<1> QED BY <1>1, <1>3, <1>4, <1>5

\* What is left was there, and the newest report is the last to go.
LEMMA Taken ==
  ASSUME NEW S, NEW w \in Seq(S), NEW i \in 1..Len(w)
  PROVE  /\ \A j \in DOMAIN RemoveAt(w, i) : \E k \in DOMAIN w : RemoveAt(w, i)[j] = w[k]
         /\ i = 1 /\ RemoveAt(w, i) # <<>> => Last(RemoveAt(w, i)) = Last(w)
         /\ i = 1 /\ RemoveAt(w, i) = <<>> => Last(w) = w[i]
<1> DEFINE v == RemoveAt(w, i)
<1>1. /\ v \in Seq(S) /\ Len(v) = Len(w) - 1
      /\ \A j \in 1..(Len(w) - 1) : v[j] = IF j < i THEN w[j] ELSE w[j + 1]
  BY Removed
<1> HIDE DEF v
<1>2. DOMAIN v = 1..(Len(w) - 1) /\ DOMAIN w = 1..Len(w)
  BY <1>1
<1>3. \A j \in DOMAIN v : \E k \in DOMAIN w : v[j] = w[k]
  BY <1>1, <1>2
<1>4. ASSUME i = 1, v # <<>> PROVE Last(v) = Last(w)
  <2>1. Len(w) - 1 \in 1..(Len(w) - 1)
    BY <1>1, <1>4
  <2> QED BY <1>1, <1>4, <2>1 DEF Last
<1>5. ASSUME i = 1, v = <<>> PROVE Last(w) = w[i]
  <2>1. Len(v) = 0
    BY <1>5
  <2>2. Len(w) = i
    BY <1>1, <1>5, <2>1
  <2> QED BY <2>2 DEF Last
<1> QED BY <1>3, <1>4, <1>5 DEF v

\* A report more.
LEMMA Appended ==
  ASSUME NEW S, NEW w \in Seq(S), NEW r \in S
  PROVE  /\ w \o <<r>> \in Seq(S) /\ w \o <<r>> # <<>> /\ Last(w \o <<r>>) = r
         /\ \A j \in DOMAIN (w \o <<r>>) :
              (j \in DOMAIN w /\ (w \o <<r>>)[j] = w[j]) \/ (w \o <<r>>)[j] = r
         /\ w \o <<>> = w
<1>1. /\ w \o <<r>> \in Seq(S) /\ Len(w \o <<r>>) = Len(w) + 1
      /\ (w \o <<r>>)[Len(w) + 1] = r
      /\ \A j \in 1..Len(w) : (w \o <<r>>)[j] = w[j]
  OBVIOUS
<1>2. DOMAIN w = 1..Len(w) /\ DOMAIN (w \o <<r>>) = 1..(Len(w) + 1) /\ Len(w) \in Nat
  BY <1>1
<1> QED BY <1>1, <1>2 DEF Last

\* What a report does to a row.
LEMMA Merging ==
  ASSUME NEW row \in Row, NEW r \in Reports
  PROVE  /\ Merged(row, r) \in Row
         /\ Merged(row, r).state \in {"WORKING", "SHIPPED", "FAILED"}
         /\ Merged(row, r) # NoRow
         /\ r = Failure => /\ Merged(row, r).state = "FAILED" /\ Merged(row, r).fatal
                           /\ Merged(row, r).receipt = row.receipt
         /\ r # Failure => /\ r \in File /\ Merged(row, r).state = r.state
                           /\ Merged(row, r).tested = r.tested
                           /\ Merged(row, r).receipt = (row.receipt \/ r.receipt)
<1>1. CASE r = Failure
  <2>1. Merged(row, r) = [row EXCEPT !.state = "FAILED", !.fatal = TRUE]
    BY <1>1 DEF Merged
  <2>2. [row EXCEPT !.state = "FAILED"] \in Row
    BY DEF Row
  <2> DEFINE m == [row EXCEPT !.state = "FAILED", !.fatal = TRUE]
  <2>3. /\ m \in Row /\ m.state = "FAILED" /\ m.fatal = TRUE /\ m.receipt = row.receipt
    BY <2>2 DEF Row
  <2> HIDE DEF m
  <2>4. NoRow.state = "NONE" /\ Merged(row, r) = m
    BY <2>1 DEF NoRow, m
  <2> QED BY <1>1, <2>3, <2>4
<1>2. CASE r # Failure
  <2>1. r \in File /\ Merged(row, r) = [row EXCEPT !.state = r.state, !.tested = r.tested,
                                                  !.receipt = row.receipt \/ r.receipt]
    BY <1>2 DEF Merged, Reports, Row
  <2> DEFINE either == row.receipt \/ r.receipt
             m == [row EXCEPT !.state = r.state, !.tested = r.tested, !.receipt = either]
  <2>2. either \in BOOLEAN
    OBVIOUS
  <2>3. r.state \in {"WORKING", "SHIPPED", "FAILED"} /\ r.tested \in Shas \cup {0}
    BY <2>1 DEF File
  <2> HIDE DEF either
  <2>4. [row EXCEPT !.state = r.state, !.tested = r.tested] \in Row
    BY <2>3 DEF Row
  <2>5. /\ m \in Row /\ m.state = r.state /\ m.tested = r.tested /\ m.receipt = either
    BY <2>2, <2>3, <2>4 DEF Row
  <2> HIDE DEF m
  <2>6. NoRow.state = "NONE" /\ Merged(row, r) = m
    BY <2>1 DEF NoRow, m, either
  <2> QED BY <1>2, <2>1, <2>3, <2>5, <2>6 DEF either
<1> QED BY <1>1, <1>2

\* Sending a report or none.
LEMMA Sending ==
  ASSUME TypeOK, NEW r \in Reports, NEW reports \in {<<>>, <<r>>}, NEW more \in SUBSET Mishaps,
         Send(reports, more)
  PROVE  /\ wire' \in Seq(Reports) /\ mishaps \subseteq mishaps' /\ mishaps' \subseteq Mishaps
         /\ connected' = connected /\ failures' = failures
         /\ \A j \in DOMAIN wire' : (j \in DOMAIN wire /\ wire'[j] = wire[j]) \/ wire'[j] = r
         /\ reports = <<>> => wire' = wire
         /\ reports # <<>> /\ mishaps' \subseteq {"throw"} =>
              wire' # <<>> /\ Last(wire') = r /\ more \subseteq {"throw"}
<1>1. wire \in Seq(Reports) /\ mishaps \subseteq Mishaps
  BY DEF TypeOK, Reports
<1>2. /\ wire' = IF connected THEN wire \o reports ELSE wire
      /\ mishaps' = mishaps \cup (IF reports = <<>> THEN {} ELSE IF connected THEN more ELSE {"loss"})
      /\ connected' = connected /\ failures' = failures
  BY DEF Send
<1>3. mishaps \subseteq mishaps' /\ mishaps' \subseteq Mishaps
  BY <1>1, <1>2 DEF Mishaps
<1>4. CASE reports = <<>>
  BY <1>1, <1>2, <1>3, <1>4, Appended
<1>5. CASE reports = <<r>> /\ connected
  <2>1. wire' = wire \o <<r>> /\ reports # <<>>
    BY <1>2, <1>5
  <2> QED BY <1>1, <1>2, <1>3, <2>1, Appended
<1>6. CASE reports = <<r>> /\ ~connected
  <2>1. wire' = wire /\ reports # <<>>
    BY <1>2, <1>6
  <2>2. "loss" \in mishaps'
    BY <1>2, <1>6, <2>1
  <2> QED BY <1>1, <1>2, <1>3, <2>1, <2>2
<1> QED BY <1>4, <1>5, <1>6

\* A connection that breaks.
LEMMA Losing ==
  ASSUME TypeOK, NEW more \in SUBSET Mishaps, Loses(more)
  PROVE  /\ wire' \in Seq(Reports) /\ mishaps \cup more \subseteq mishaps' /\ mishaps' \subseteq Mishaps
         /\ \A j \in DOMAIN wire' : j \in DOMAIN wire /\ wire'[j] = wire[j]
         /\ mishaps' \subseteq {"throw"} => wire' = wire
<1>1. PICK n \in 0..Len(wire) :
        /\ wire' = SubSeq(wire, 1, n)
        /\ mishaps' = mishaps \cup more \cup (IF n < Len(wire) THEN {"loss"} ELSE {})
  BY DEF Loses
<1>2. wire \in Seq(Reports) /\ mishaps \subseteq Mishaps
  BY DEF TypeOK, Reports
<1>3. wire' \in Seq(Reports) /\ Len(wire') = n /\ \A j \in 1..n : wire'[j] = wire[j]
  BY <1>1, <1>2
<1>4. DOMAIN wire' = 1..n /\ DOMAIN wire = 1..Len(wire)
  BY <1>2, <1>3
<1>5. \A j \in DOMAIN wire' : j \in DOMAIN wire /\ wire'[j] = wire[j]
  BY <1>3, <1>4
<1>6. ASSUME mishaps' \subseteq {"throw"} PROVE wire' = wire
  <2>1. n = Len(wire)
    <3>1. "loss" \notin mishaps'
      BY <1>6
    <3>2. CASE n < Len(wire)
      BY <1>1, <3>1, <3>2
    <3>3. Len(wire) \in Nat
      BY <1>2
    <3> QED BY <3>2, <3>3
  <2> QED BY <1>1, <1>2, <2>1
<1> QED BY <1>1, <1>2, <1>3, <1>5, <1>6 DEF Mishaps

-----------------------------------------------------------------------------
(* Well-formedness, and the history.                                       *)

\* A run that works keeps its file well formed and its receipt.
LEMMA Working ==
  ASSUME TypeOK, FileFollowsPhase, Genuine(file), Works
  PROVE  /\ file' \in File
         /\ file'.state = "SHIPPED" => file'.tested \in shipped'
         /\ shipped \subseteq shipped' /\ shipped' \subseteq Shas
         /\ phase \in {"working", "shipped"} /\ phase' \in {"working", "shipped", "returned", "thrown"}
         /\ phase' = "working" => file'.state = "WORKING"
         /\ phase' = "shipped" => file'.state = "SHIPPED"
         /\ file.receipt => file'.receipt
<1>1. file \in File
  <2>1. phase # "idle"
    BY DEF Works, Work, Fail, Ship, WriteReceipt, Return, Throw
  <2> QED BY <2>1 DEF TypeOK, FileFollowsPhase
<1>2. CASE Work
  BY <1>1, <1>2 DEF Work, File, FileFollowsPhase, TypeOK
<1>3. CASE Fail
  BY <1>1, <1>3 DEF Fail, File, FileFollowsPhase, TypeOK
<1>4. CASE Ship
  <2>1. file.tested \in Shas
    BY <1>1, <1>4 DEF Ship, File
  <2> QED BY <1>1, <1>4, <2>1 DEF Ship, File, FileFollowsPhase, TypeOK
<1>5. CASE WriteReceipt
  BY <1>1, <1>5 DEF WriteReceipt, File, FileFollowsPhase, TypeOK, Genuine
<1>6. CASE Return \/ Throw
  BY <1>1, <1>6 DEF Return, Throw, FileFollowsPhase, TypeOK, Genuine
<1> QED BY <1>2, <1>3, <1>4, <1>5, <1>6 DEF Works

\* What News may send, and that a report to send is one of a run on disk.
LEMMA NewsIs ==
  ASSUME NEW r
  PROVE  /\ \A news \in News(r) : news \in {<<>>, <<r>>}
         /\ \A news \in News(r) : news = <<>> => r = last
BY DEF News

\* A first file.
LEMMA Beginning ==
  ASSUME Begin
  PROVE  /\ phase = "idle" /\ phase' = "working" /\ shipped' = shipped
         /\ file' \in File /\ file'.state = "WORKING" /\ ~file'.receipt
BY DEF Begin, File, Absent

\* The actions that are not the daemon's or the connection's.
Requests(c) == PostChecks(c) \/ PostQueues(c) \/ PostConflicts(c)
Answers(c) == Acknowledge(c) \/ ReconcileReads(c) \/ ReconcileWrites(c)

LEMMA RequestsFrame ==
  ASSUME NEW c, Requests(c) \/ Answers(c)
  PROVE  UNCHANGED <<phase, file, shipped, connected, wire, failures, answered, last, reading>>
BY DEF Requests, Answers, PostChecks, PostQueues, PostConflicts, Acknowledge, ReconcileReads,
       ReconcileWrites, release, link, daemon

LEMMA RequestsTyped ==
  ASSUME TypeOK, CommandsHaveRows, NEW c \in Commands, Requests(c) \/ Answers(c)
  PROVE  /\ record' \in Row /\ post' \in [Commands -> {"new", "checked", "done"}]
         /\ cmd' \in [Commands -> {"none", "pending", "acked", "failed"}]
         /\ found' \in [Commands -> Row] /\ mishaps \subseteq mishaps' /\ mishaps' \subseteq Mishaps
<1>1. NoRow \in Row /\ Unread \in Row /\ Closed \in Row
  BY DEF NoRow, Unread, Closed, Row
<1>2. CASE PostChecks(c) \/ PostConflicts(c)
  BY <1>2 DEF PostChecks, PostConflicts, TypeOK
<1>3. CASE PostQueues(c)
  BY <1>3 DEF PostQueues, TypeOK, Row, Mishaps
<1>4. CASE Acknowledge(c)
  BY <1>4 DEF Acknowledge, TypeOK
<1>5. CASE ReconcileReads(c)
  BY <1>1, <1>5 DEF ReconcileReads, TypeOK
<1>6. CASE ReconcileWrites(c)
  <2>1. found[c] \in Row /\ found' = [found EXCEPT ![c] = Closed]
    BY <1>6 DEF ReconcileWrites, TypeOK
  <2>2. record' \in Row
    <3> DEFINE either == found[c].receipt \/ record.receipt
               m == [found[c] EXCEPT !.state = "FAILED", !.fatal = TRUE]
    <3>1. either \in BOOLEAN /\ m \in Row
      BY <2>1 DEF Row
    <3>2. record' = [found[c] EXCEPT !.state = "FAILED", !.fatal = TRUE, !.receipt = either]
      BY <1>6 DEF ReconcileWrites
    <3> HIDE DEF either
    <3>3. record' = [m EXCEPT !.receipt = either]
      BY <2>1, <3>2 DEF Row
    <3> QED BY <3>1, <3>3 DEF Row
  <2> QED BY <1>1, <1>6, <2>1, <2>2 DEF ReconcileWrites, TypeOK, Mishaps
<1> QED BY <1>2, <1>3, <1>4, <1>5, <1>6 DEF Requests, Answers

\* The state keeps its shape.
LEMMA TypeStep ==
  ASSUME IInv, RunsNext
  PROVE  TypeOK' /\ mishaps \subseteq mishaps' /\ shipped \subseteq shipped'
<1> USE DEF Reports
<1>i. TypeOK /\ FileFollowsPhase /\ ReportsAreGenuine /\ CommandsHaveRows
  BY DEF IInv
<1>1. ASSUME NEW c \in Commands, Requests(c) \/ Answers(c)
      PROVE  TypeOK' /\ mishaps \subseteq mishaps' /\ shipped \subseteq shipped'
  BY <1>i, <1>1, RequestsFrame, RequestsTyped DEF TypeOK
<1>2. ASSUME NEW c \in Commands, Handle(c)
      PROVE  TypeOK' /\ mishaps \subseteq mishaps' /\ shipped \subseteq shipped'
  <2>1. answered' \subseteq Commands \X BOOLEAN
    <3> DEFINE ok == phase = "idle"
    <3>1. ok \in BOOLEAN /\ answered' = answered \cup {<<c, ok>>}
      BY <1>2 DEF Handle
    <3> HIDE DEF ok
    <3> QED BY <1>i, <3>1 DEF TypeOK
  <2>2. UNCHANGED <<record, post, cmd, found, connected, wire, failures, reading, mishaps>>
    BY <1>2 DEF Handle, control, link
  <2>3. CASE phase = "idle"
    BY <1>i, <1>2, <2>1, <2>2, <2>3, Beginning DEF Handle, TypeOK
  <2>4. CASE phase # "idle"
    BY <1>i, <1>2, <2>1, <2>2, <2>4 DEF Handle, TypeOK, release
  <2> QED BY <2>3, <2>4
<1>3. ASSUME Supervises
      PROVE  TypeOK' /\ mishaps \subseteq mishaps' /\ shipped \subseteq shipped'
  <2>1. Works /\ UNCHANGED <<record, post, cmd, found, connected, wire, failures, answered, last, reading>>
    BY <1>3 DEF Supervises, control, link, daemon
  <2>2. mishaps \subseteq mishaps' /\ mishaps' \subseteq Mishaps
    BY <1>i, <1>3 DEF Supervises, TypeOK, Mishaps
  <2>3. /\ file' \in File /\ shipped \subseteq shipped' /\ shipped' \subseteq Shas
        /\ phase' \in {"working", "shipped", "returned", "thrown"}
    BY <1>i, <2>1, Working DEF ReportsAreGenuine
  <2> QED BY <1>i, <2>1, <2>2, <2>3 DEF TypeOK
<1>4. ASSUME Load
      PROVE  TypeOK' /\ mishaps \subseteq mishaps' /\ shipped \subseteq shipped'
  BY <1>i, <1>4 DEF Load, TypeOK, release, control, link
<1>5. ASSUME Publish
      PROVE  TypeOK' /\ mishaps \subseteq mishaps' /\ shipped \subseteq shipped'
  <2>1. PICK news \in News(reading) : Send(news, IF phase = "idle" THEN {"order"} ELSE {})
    BY <1>5 DEF Publish
  <2>2. reading \in Reports /\ news \in {<<>>, <<reading>>}
    BY <1>i, <1>5, <2>1, NewsIs DEF Publish, TypeOK
  <2>3. (IF phase = "idle" THEN {"order"} ELSE {}) \in SUBSET Mishaps
    BY DEF Mishaps
  <2>4. /\ wire' \in Seq(Reports) /\ mishaps \subseteq mishaps' /\ mishaps' \subseteq Mishaps
        /\ connected' = connected /\ failures' = failures
    BY <1>i, <2>1, <2>2, <2>3, Sending
  <2>5. last' = reading /\ reading' = Absent
        /\ UNCHANGED <<phase, file, shipped, record, post, cmd, found, answered>>
    BY <1>5 DEF Publish, release, control
  <2> QED BY <1>i, <2>4, <2>5 DEF TypeOK
<1>6. ASSUME ReportOutcome
      PROVE  TypeOK' /\ mishaps \subseteq mishaps' /\ shipped \subseteq shipped'
  <2>1. /\ Settle /\ Send(Outcome, {})
        /\ UNCHANGED <<record, post, cmd, found, answered, last, reading>>
    BY <1>6 DEF ReportOutcome, control, daemon
  <2>2. file \in File /\ \E r \in Reports : Outcome = <<r>>
    <3>1. file \in File
      BY <1>i, <2>1 DEF Settle, Outcomes, FileFollowsPhase, TypeOK
    <3> QED BY <3>1 DEF Outcome
  <2>3. PICK r \in Reports : Outcome = <<r>>
    BY <2>2
  <2>4. /\ wire' \in Seq(Reports) /\ mishaps \subseteq mishaps' /\ mishaps' \subseteq Mishaps
        /\ connected' = connected /\ failures' = failures
    BY <1>i, <2>1, <2>3, Sending
  <2> QED BY <1>i, <2>1, <2>4 DEF TypeOK, Settle
<1>7. ASSUME LastPublish
      PROVE  TypeOK' /\ mishaps \subseteq mishaps' /\ shipped \subseteq shipped'
  <2>1. PICK news \in News(file) : Send(news, {})
    BY <1>7 DEF LastPublish, LastNews
  <2>2. End /\ last' = file /\ UNCHANGED <<record, post, cmd, found, answered, reading>>
    BY <1>7 DEF LastPublish, control
  <2>3. file \in Reports /\ news \in {<<>>, <<file>>}
    BY <1>i, <2>1, <2>2, NewsIs DEF End, TypeOK, FileFollowsPhase
  <2>4. /\ wire' \in Seq(Reports) /\ mishaps \subseteq mishaps' /\ mishaps' \subseteq Mishaps
        /\ connected' = connected /\ failures' = failures
    BY <1>i, <2>1, <2>3, Sending
  <2> QED BY <1>i, <2>2, <2>4 DEF TypeOK, End
<1>8. ASSUME NEW i \in 1..Window, Apply(i)
      PROVE  TypeOK' /\ mishaps \subseteq mishaps' /\ shipped \subseteq shipped'
  <2>1. wire \in Seq(Reports) /\ i \in 1..Len(wire) /\ wire' = RemoveAt(wire, i)
    BY <1>i, <1>8 DEF Apply, TypeOK
  <2>2. wire' \in Seq(Reports)
    BY <2>1, Removed
  <2>3. record' \in Row
    <3>1. wire[i] \in Reports /\ record \in Row /\ record' = Merged(record, wire[i])
      BY <1>i, <1>8, <2>1 DEF Apply, TypeOK
    <3> QED BY <3>1, Merging
  <2>4. mishaps \subseteq mishaps' /\ mishaps' \subseteq Mishaps
    BY <1>i, <1>8 DEF Apply, TypeOK, Mishaps
  <2>5. UNCHANGED <<phase, file, shipped, post, cmd, found, connected, failures, answered, last, reading>>
    BY <1>8 DEF Apply, release, daemon
  <2> QED BY <1>i, <2>2, <2>3, <2>4, <2>5 DEF TypeOK
<1>9. ASSUME Break
      PROVE  TypeOK' /\ mishaps \subseteq mishaps' /\ shipped \subseteq shipped'
  <2>1. wire' \in Seq(Reports) /\ mishaps \subseteq mishaps' /\ mishaps' \subseteq Mishaps
    <3>1. {} \in SUBSET Mishaps /\ Loses({})
      BY <1>9 DEF Break
    <3> QED BY <1>i, <3>1, Losing
  <2>2. failures' \in 0..Failures /\ connected' \in BOOLEAN
    <3>1. failures \in 0..Failures /\ Failures \in Nat
      BY <1>i, WireAssumption DEF TypeOK
    <3>2. failures < Failures /\ failures' = failures + 1
      BY <1>9 DEF Break
    <3>3. failures' \in 0..Failures
      BY <3>1, <3>2
    <3>4. connected' \in BOOLEAN
      BY <1>9 DEF Break
    <3> QED BY <3>3, <3>4
  <2>3. UNCHANGED <<phase, file, shipped, record, post, cmd, found, answered, last, reading>>
    BY <1>9 DEF Break, release, control, daemon
  <2> QED BY <1>i, <2>1, <2>2, <2>3 DEF TypeOK
<1>10. ASSUME Connect
       PROVE  TypeOK' /\ mishaps \subseteq mishaps' /\ shipped \subseteq shipped'
  BY <1>i, <1>10 DEF Connect, TypeOK, release, control, daemon
<1>11. ASSUME DaemonDies
       PROVE  TypeOK' /\ mishaps \subseteq mishaps' /\ shipped \subseteq shipped'
  <2>1. {"death"} \in SUBSET Mishaps
    BY DEF Mishaps
  <2>2. wire' \in Seq(Reports) /\ mishaps \subseteq mishaps' /\ mishaps' \subseteq Mishaps
    <3>1. Loses({"death"})
      BY <1>11 DEF DaemonDies
    <3>2. /\ wire' \in Seq(Reports) /\ mishaps \cup {"death"} \subseteq mishaps'
          /\ mishaps' \subseteq Mishaps
      BY <1>i, <2>1, <3>1, Losing
    <3> QED BY <3>2
  <2>3. failures' \in 0..Failures /\ connected' \in BOOLEAN
    <3>1. failures \in 0..Failures /\ Failures \in Nat
      BY <1>i, WireAssumption DEF TypeOK
    <3>2. failures < Failures /\ failures' = failures + 1
      BY <1>11 DEF DaemonDies
    <3>3. failures' \in 0..Failures
      BY <3>1, <3>2
    <3>4. connected' \in BOOLEAN
      BY <1>11 DEF DaemonDies
    <3> QED BY <3>3, <3>4
  <2>4. /\ phase' = "idle" /\ answered' = {} /\ last' = Absent /\ reading' = Absent
        /\ UNCHANGED <<file, shipped, record, post, cmd, found>>
    BY <1>11 DEF DaemonDies, Die, control
  <2> QED BY <1>i, <2>2, <2>3, <2>4 DEF TypeOK
<1> QED
  BY <1>1, <1>2, <1>3, <1>4, <1>5, <1>6, <1>7, <1>8, <1>9, <1>10, <1>11
  DEF RunsNext, Requests, Answers

\* The file follows the run.
LEMMA PhaseStep ==
  ASSUME IInv, RunsNext
  PROVE  FileFollowsPhase'
<1>i. TypeOK /\ FileFollowsPhase /\ ReportsAreGenuine /\ mishaps \subseteq mishaps'
  BY TypeStep DEF IInv
<1>a. Absent \notin File
  BY DEF Absent, File
<1>1. CASE \E c \in Commands : Requests(c) \/ Answers(c)
  <2>1. phase' = phase /\ file' = file
    BY <1>1, RequestsFrame
  <2> QED BY <1>i, <2>1 DEF FileFollowsPhase
<1>2. CASE \E c \in Commands : Handle(c)
  <2>1. Begin \/ UNCHANGED release
    BY <1>2 DEF Handle
  <2> QED BY <1>i, <1>a, <2>1, Beginning DEF FileFollowsPhase, release
<1>3. CASE Supervises
  <2>1. phase' = "thrown" => "throw" \in mishaps'
    BY <1>3 DEF Supervises
  <2>2. /\ file' \in File
        /\ phase' = "working" => file'.state = "WORKING"
        /\ phase' = "shipped" => file'.state = "SHIPPED"
    BY <1>i, <1>3, Working DEF Supervises, ReportsAreGenuine
  <2> QED BY <1>a, <2>1, <2>2 DEF FileFollowsPhase
<1>4. CASE Load \/ Publish \/ (\E i \in 1..Window : Apply(i)) \/ Break \/ Connect
  <2>1. UNCHANGED release
    BY <1>4 DEF Load, Publish, Apply, Break, Connect
  <2> QED BY <1>i, <2>1 DEF FileFollowsPhase, release
<1>5. CASE ReportOutcome \/ LastPublish \/ DaemonDies
  BY <1>i, <1>5 DEF ReportOutcome, LastPublish, DaemonDies, Settle, End, Die, FileFollowsPhase, Outcomes
<1> QED BY <1>1, <1>2, <1>3, <1>4, <1>5 DEF RunsNext, Requests, Answers

-----------------------------------------------------------------------------
(* SHIPPED is true on disk, on the way and in the row.                     *)

\* No report claims a tree that was not shipped.
LEMMA GenuineStep ==
  ASSUME IInv, RunsNext
  PROVE  ReportsAreGenuine'
<1> DEFINE Gen(r) == r.state = "SHIPPED" => r.tested \in shipped'
<1> SUFFICES Gen(file') /\ Gen(reading') /\ \A j \in DOMAIN wire' : Gen(wire'[j])
  BY DEF ReportsAreGenuine, Genuine
<1>i. TypeOK /\ FileFollowsPhase /\ Genuine(file)
  BY DEF IInv, ReportsAreGenuine
<1>s. shipped \subseteq shipped'
  BY TypeStep
<1>g. Gen(file) /\ Gen(reading) /\ \A j \in DOMAIN wire : Gen(wire[j])
  BY <1>s DEF IInv, ReportsAreGenuine, Genuine
<1>a. Gen(Absent) /\ Gen(Failure)
  BY DEF Absent, Failure
<1> HIDE DEF Gen
<1>1. CASE \E c \in Commands : Requests(c) \/ Answers(c)
  BY <1>1, <1>g, RequestsFrame
<1>2. CASE \E c \in Commands : Handle(c)
  <2>1. wire' = wire /\ reading' = reading
    BY <1>2 DEF Handle, link
  <2>2. file' = file \/ file'.state = "WORKING"
    BY <1>2, Beginning DEF Handle, release
  <2> QED BY <2>1, <2>2, <1>g DEF Gen
<1>3. CASE Supervises
  <2>1. Gen(file')
    <3>1. Works
      BY <1>3 DEF Supervises
    <3>2. file'.state = "SHIPPED" => file'.tested \in shipped'
      BY <1>i, <3>1, Working
    <3> QED BY <3>2 DEF Gen
  <2> QED BY <1>3, <2>1, <1>g DEF Supervises, link, daemon
<1>4. CASE Load
  BY <1>4, <1>g DEF Load, release, link
<1>5. CASE Publish
  <2>1. PICK news \in News(reading) : Send(news, IF phase = "idle" THEN {"order"} ELSE {})
    BY <1>5 DEF Publish
  <2>2. reading \in Reports /\ news \in {<<>>, <<reading>>}
    BY <1>i, <1>5, <2>1, NewsIs DEF Publish, TypeOK, Reports
  <2>3. (IF phase = "idle" THEN {"order"} ELSE {}) \in SUBSET Mishaps
    BY DEF Mishaps
  <2>4. \A j \in DOMAIN wire' : (j \in DOMAIN wire /\ wire'[j] = wire[j]) \/ wire'[j] = reading
    BY <1>i, <2>1, <2>2, <2>3, Sending
  <2> QED BY <1>5, <2>4, <1>g, <1>a DEF Publish, release
<1>6. CASE ReportOutcome
  <2>1. Settle /\ Send(Outcome, {}) /\ reading' = reading /\ file' = file
    BY <1>6 DEF ReportOutcome, daemon, Settle
  <2>2. \E r \in Reports : Gen(r) /\ Outcome = <<r>>
    <3>1. file \in Reports
      BY <1>i, <2>1 DEF Settle, Outcomes, FileFollowsPhase, TypeOK, Reports
    <3> QED BY <3>1, <1>g, <1>a DEF Outcome, Reports
  <2>3. PICK r \in Reports : Gen(r) /\ Outcome = <<r>>
    BY <2>2
  <2>4. \A j \in DOMAIN wire' : (j \in DOMAIN wire /\ wire'[j] = wire[j]) \/ wire'[j] = r
    BY <1>i, <2>1, <2>3, Sending
  <2> QED BY <2>1, <2>3, <2>4, <1>g
<1>7. CASE LastPublish
  <2>1. PICK news \in News(file) : Send(news, {})
    BY <1>7 DEF LastPublish, LastNews
  <2>2. End /\ file' = file /\ reading' = reading
    BY <1>7 DEF LastPublish, End
  <2>3. file \in Reports /\ news \in {<<>>, <<file>>}
    BY <1>i, <2>1, <2>2, NewsIs DEF End, TypeOK, FileFollowsPhase, Reports
  <2>4. \A j \in DOMAIN wire' : (j \in DOMAIN wire /\ wire'[j] = wire[j]) \/ wire'[j] = file
    BY <1>i, <2>1, <2>3, Sending
  <2> QED BY <2>2, <2>4, <1>g
<1>8. CASE \E i \in 1..Window : Apply(i)
  <2>1. PICK i \in 1..Window : Apply(i)
    BY <1>8
  <2>2. wire \in Seq(Reports) /\ i \in 1..Len(wire) /\ wire' = RemoveAt(wire, i)
    BY <1>i, <2>1 DEF Apply, TypeOK, Reports
  <2>3. \A j \in DOMAIN wire' : \E k \in DOMAIN wire : wire'[j] = wire[k]
    BY <2>2, Taken
  <2> QED BY <2>1, <2>3, <1>g DEF Apply, release, daemon
<1>9. CASE Break \/ DaemonDies
  <2>1. {} \in SUBSET Mishaps /\ {"death"} \in SUBSET Mishaps
    BY DEF Mishaps
  <2>2. \A j \in DOMAIN wire' : j \in DOMAIN wire /\ wire'[j] = wire[j]
    BY <1>i, <1>9, <2>1, Losing DEF Break, DaemonDies
  <2>3. file' = file /\ reading' \in {reading, Absent}
    BY <1>9 DEF Break, DaemonDies, Die, release, daemon
  <2> QED BY <2>2, <2>3, <1>g, <1>a
<1>10. CASE Connect
  BY <1>10, <1>g DEF Connect, release, daemon
<1> QED
  BY <1>1, <1>2, <1>3, <1>4, <1>5, <1>6, <1>7, <1>8, <1>9, <1>10 DEF RunsNext, Requests, Answers

\* The row shows SHIPPED only if it was.
LEMMA ShownStep ==
  ASSUME IInv, RunsNext
  PROVE  ShownShippedWasShipped'
<1>i. TypeOK /\ CommandsHaveRows /\ shipped \subseteq shipped'
      /\ (record.state = "SHIPPED" => record.tested \in shipped)
  BY TypeStep DEF IInv, ShownShippedWasShipped
<1> SUFFICES record' = record \/ (record'.state = "SHIPPED" => record'.tested \in shipped')
  BY <1>i DEF ShownShippedWasShipped
<1>1. CASE \E c \in Commands : PostQueues(c)
  BY <1>i, <1>1 DEF PostQueues, TypeOK, Row
<1>2. CASE \E c \in Commands : ReconcileWrites(c)
  <2>1. PICK c \in Commands : ReconcileWrites(c)
    BY <1>2
  <2>2. found[c] \in Row
    BY <1>i DEF TypeOK
  <2>3. record'.state = "FAILED"
    BY <2>1, <2>2 DEF ReconcileWrites, Row
  <2> QED BY <2>3
<1>3. CASE \E i \in 1..Window : Apply(i)
  <2>1. PICK i \in 1..Window : Apply(i)
    BY <1>3
  <2>2. i \in DOMAIN wire /\ wire[i] \in Reports /\ record' = Merged(record, wire[i])
    BY <1>i, <2>1 DEF Apply, TypeOK, Reports
  <2>3. wire[i].state = "SHIPPED" => wire[i].tested \in shipped
    BY <2>2 DEF IInv, ReportsAreGenuine, Genuine
  <2>4. record \in Row
    BY <1>i DEF TypeOK
  <2> QED BY <1>i, <2>2, <2>3, <2>4, Merging
<1>4. CASE \E c \in Commands : \/ PostChecks(c) \/ PostConflicts(c) \/ Handle(c)
                               \/ Acknowledge(c) \/ ReconcileReads(c)
  BY <1>4 DEF PostChecks, PostConflicts, Handle, Acknowledge, ReconcileReads, control
<1>5. CASE Supervises \/ Load \/ Publish \/ ReportOutcome \/ LastPublish \/ Break \/ Connect \/ DaemonDies
  BY <1>5 DEF Supervises, Load, Publish, ReportOutcome, LastPublish, Break, Connect, DaemonDies, control
<1> QED BY <1>1, <1>2, <1>3, <1>4, <1>5 DEF RunsNext

-----------------------------------------------------------------------------
(* Commands: one start.                                                    *)

\* Commands have rows, answers have commands.
LEMMA RowsStep ==
  ASSUME IInv, RunsNext
  PROVE  CommandsHaveRows'
<1>i. TypeOK /\ CommandsHaveRows
  BY DEF IInv
<1> DEFINE Kept(c) == /\ cmd'[c] # "none" => record' # NoRow
                      /\ Answered(c)' => cmd'[c] # "none"
                      /\ found'[c] \in {Unread, Closed} \/ found'[c].state = "QUEUED"
<1> SUFFICES ASSUME NEW d \in Commands PROVE Kept(d)
  BY DEF CommandsHaveRows
<1>d. /\ cmd[d] # "none" => record # NoRow
      /\ Answered(d) => cmd[d] # "none"
      /\ found[d] \in {Unread, Closed} \/ found[d].state = "QUEUED"
  BY <1>i DEF CommandsHaveRows
<1>1. CASE \E c \in Commands : PostChecks(c) \/ PostConflicts(c)
  BY <1>1, <1>d DEF PostChecks, PostConflicts, Answered, daemon
<1>2. CASE \E c \in Commands : PostQueues(c)
  <2>1. record'.state = "QUEUED"
    BY <1>i, <1>2 DEF PostQueues, TypeOK, Row
  <2>2. record' # NoRow
    BY <2>1 DEF NoRow
  <2> QED BY <1>i, <1>2, <1>d, <2>2 DEF PostQueues, Answered, daemon, TypeOK
<1>3. CASE \E c \in Commands : Handle(c)
  <2>1. PICK c \in Commands : Handle(c)
    BY <1>3
  <2>2. UNCHANGED <<record, cmd, found>> /\ cmd[c] = "pending"
    BY <2>1 DEF Handle, control
  <2>3. \A e \in Commands : Answered(e)' => Answered(e) \/ e = c
    BY <2>1 DEF Handle, Answered
  <2> QED BY <1>d, <2>2, <2>3
<1>4. CASE \E c \in Commands : Acknowledge(c)
  BY <1>i, <1>4, <1>d DEF Acknowledge, Answered, daemon, TypeOK
<1>5. CASE \E c \in Commands : ReconcileReads(c)
  BY <1>i, <1>5, <1>d DEF ReconcileReads, Reconcilable, Answered, daemon, TypeOK
<1>6. CASE \E c \in Commands : ReconcileWrites(c)
  <2>1. PICK c \in Commands : ReconcileWrites(c)
    BY <1>6
  <2>2. found[c] \in Row
    BY <1>i DEF TypeOK
  <2>3. record'.state = "FAILED"
    BY <2>1, <2>2 DEF ReconcileWrites, Row
  <2>4. record' # NoRow
    BY <2>3 DEF NoRow
  <2>5. found' = [found EXCEPT ![c] = Closed] /\ cmd' = cmd /\ answered' = answered
    BY <2>1 DEF ReconcileWrites, daemon
  <2>6. found'[d] \in {found[d], Closed}
    BY <1>i, <2>5 DEF TypeOK
  <2> QED BY <1>d, <2>4, <2>5, <2>6 DEF Answered
<1>7. CASE \E i \in 1..Window : Apply(i)
  <2>1. PICK i \in 1..Window : Apply(i)
    BY <1>7
  <2>2. wire[i] \in Reports /\ record \in Row /\ record' = Merged(record, wire[i])
    BY <1>i, <2>1 DEF Apply, TypeOK, Reports
  <2>3. record' # NoRow
    BY <2>2, Merging
  <2> QED BY <1>d, <2>1, <2>3 DEF Apply, daemon, Answered
<1>8. CASE Supervises \/ Load \/ Publish \/ ReportOutcome \/ LastPublish \/ Break \/ Connect \/ DaemonDies
  <2>1. UNCHANGED <<record, cmd, found>> /\ answered' \in {answered, {}}
    BY <1>8 DEF Supervises, Load, Publish, ReportOutcome, LastPublish, Break, Connect, DaemonDies,
               control, daemon
  <2> QED BY <1>d, <2>1 DEF Answered
<1> QED BY <1>1, <1>2, <1>3, <1>4, <1>5, <1>6, <1>7, <1>8 DEF RunsNext

\* Nobody starts a run over a file, unless it was queued twice or a daemon died.
LEMMA FirstStart ==
  ASSUME IInv, NEW c \in Commands, Handle(c), mishaps \cap {"again", "death"} = {}
  PROVE  file = Absent /\ phase = "idle"
<1>i. /\ \A d \in Commands : Answered(d) => cmd[d] # "none"
      /\ \A d, e \in Commands : cmd[d] # "none" /\ cmd[e] # "none" => d = e
      /\ file # Absent => \E d \in Commands : Answered(d)
      /\ phase # "idle" => file # Absent
  BY DEF IInv, CommandsHaveRows, OneStart, FileFollowsPhase
<1>1. cmd[c] = "pending" /\ ~Answered(c)
  BY DEF Handle
<1> QED BY <1>i, <1>1

\* If there is one start, it stays the only one.
LEMMA StartStep ==
  ASSUME IInv, RunsNext
  PROVE  OneStart'
<1>i. TypeOK /\ CommandsHaveRows /\ FileFollowsPhase /\ mishaps \subseteq mishaps'
  BY TypeStep DEF IInv
<1> SUFFICES ASSUME mishaps' \cap {"again", "death"} = {}
             PROVE  /\ \A c, d \in Commands : cmd'[c] # "none" /\ cmd'[d] # "none" => c = d
                    /\ file' # Absent => \E c \in Commands : Answered(c)'
                    /\ \A c \in Commands : /\ <<c, FALSE>> \notin answered' /\ cmd'[c] # "failed"
                                           /\ found'[c] = Unread
  BY DEF OneStart
<1>m. mishaps \cap {"again", "death"} = {}
  BY <1>i
<1>o. /\ \A c, d \in Commands : cmd[c] # "none" /\ cmd[d] # "none" => c = d
      /\ file # Absent => \E c \in Commands : Answered(c)
      /\ \A c \in Commands : <<c, FALSE>> \notin answered /\ cmd[c] # "failed" /\ found[c] = Unread
  BY <1>m DEF IInv, OneStart
<1>1. CASE \E c \in Commands : PostChecks(c) \/ PostConflicts(c)
  BY <1>1, <1>o DEF PostChecks, PostConflicts, Answered, daemon, release
<1>2. CASE \E c \in Commands : PostQueues(c)
  <2>1. PICK c \in Commands : PostQueues(c)
    BY <1>2
  <2>2. record = NoRow
    BY <2>1 DEF PostQueues
  <2>3. \A d \in Commands : cmd[d] = "none"
    BY <1>i, <2>2 DEF CommandsHaveRows
  <2>4. \A d \in Commands : cmd'[d] = IF d = c THEN "pending" ELSE "none"
    BY <1>i, <2>1, <2>3 DEF PostQueues, TypeOK
  <2>5. UNCHANGED <<answered, file, found>>
    BY <2>1 DEF PostQueues, daemon, release
  <2>6. \A d, e \in Commands : cmd'[d] # "none" /\ cmd'[e] # "none" => d = e
    BY <2>4
  <2>7. \A d \in Commands : <<d, FALSE>> \notin answered' /\ cmd'[d] # "failed" /\ found'[d] = Unread
    BY <1>o, <2>4, <2>5
  <2>8. file' # Absent => \E d \in Commands : Answered(d)'
    BY <1>o, <2>5 DEF Answered
  <2> QED BY <2>6, <2>7, <2>8
<1>3. CASE \E c \in Commands : Handle(c)
  <2>1. PICK c \in Commands : Handle(c)
    BY <1>3
  <2>2. phase = "idle"
    BY <1>m, <2>1, FirstStart
  <2>3. answered' = answered \cup {<<c, TRUE>>}
    BY <2>1, <2>2 DEF Handle
  <2>4. UNCHANGED <<cmd, found>>
    BY <2>1 DEF Handle, control
  <2>5. \A d \in Commands : <<d, FALSE>> \notin answered'
    BY <1>o, <2>3
  <2>6. Answered(c)'
    BY <2>3 DEF Answered
  <2>7. \E e \in Commands : Answered(e)'
    BY <2>6
  <2>8. \A d, e \in Commands : cmd'[d] # "none" /\ cmd'[e] # "none" => d = e
    BY <1>o, <2>4
  <2>9. \A d \in Commands : cmd'[d] # "failed" /\ found'[d] = Unread
    BY <1>o, <2>4
  <2> QED BY <2>5, <2>7, <2>8, <2>9
<1>4. CASE \E c \in Commands : Acknowledge(c)
  <2>1. PICK c \in Commands : Acknowledge(c)
    BY <1>4
  <2>2. PICK ok \in BOOLEAN : /\ <<c, ok>> \in answered
                              /\ cmd' = [cmd EXCEPT ![c] = IF ok THEN "acked" ELSE "failed"]
    BY <2>1 DEF Acknowledge
  <2>3. ok = TRUE
    BY <1>o, <2>2
  <2>4. cmd[c] = "pending" /\ cmd' = [cmd EXCEPT ![c] = "acked"]
    BY <2>1, <2>2, <2>3 DEF Acknowledge
  <2>5. \A d \in Commands : cmd'[d] = IF d = c THEN "acked" ELSE cmd[d]
    BY <1>i, <2>4 DEF TypeOK
  <2>6. UNCHANGED <<answered, file, found>>
    BY <2>1 DEF Acknowledge, daemon, release
  <2>7. \A d, e \in Commands : cmd'[d] # "none" /\ cmd'[e] # "none" => d = e
    BY <1>o, <2>4, <2>5
  <2>8. \A d \in Commands : <<d, FALSE>> \notin answered' /\ cmd'[d] # "failed" /\ found'[d] = Unread
    BY <1>o, <2>5, <2>6
  <2>9. file' # Absent => \E d \in Commands : Answered(d)'
    BY <1>o, <2>6 DEF Answered
  <2> QED BY <2>7, <2>8, <2>9
<1>5. CASE \E c \in Commands : ReconcileReads(c) \/ ReconcileWrites(c)
  BY <1>5, <1>o DEF ReconcileReads, ReconcileWrites
<1>6. CASE Supervises
  <2>1. phase # "idle" /\ UNCHANGED <<cmd, found, answered>>
    BY <1>6 DEF Supervises, Works, Work, Fail, Ship, WriteReceipt, Return, Throw, control, daemon
  <2>2. \E c \in Commands : Answered(c)
    BY <1>i, <1>o, <2>1 DEF FileFollowsPhase
  <2>3. \E c \in Commands : Answered(c)'
    BY <2>1, <2>2 DEF Answered
  <2> QED BY <1>o, <2>1, <2>3
<1>7. CASE \/ Load \/ Publish \/ ReportOutcome \/ LastPublish \/ Break \/ Connect
           \/ \E i \in 1..Window : Apply(i)
  <2>1. UNCHANGED <<file, cmd, found, answered>>
    BY <1>7 DEF Load, Publish, ReportOutcome, LastPublish, Break, Connect, Apply,
               control, daemon, release, Settle, End
  <2> QED BY <1>o, <2>1 DEF Answered
<1>8. CASE DaemonDies
  <2>1. "death" \in mishaps'
    BY <1>8 DEF DaemonDies, Loses
  <2> QED BY <2>1
<1> QED BY <1>1, <1>2, <1>3, <1>4, <1>5, <1>6, <1>7, <1>8 DEF RunsNext

-----------------------------------------------------------------------------
(* What is shown.                                                          *)

\* The same, of a state given by its parts.
ShownBy(r, w, row) ==
  IF w # <<>> THEN Last(w) = r
  ELSE row.state = r.state /\ row.tested = r.tested /\ (r.receipt => row.receipt)

FailureBy(w, row) ==
  IF w # <<>> THEN Last(w) = Failure ELSE row.state = "FAILED" /\ row.fatal

ReceiptsBacked(row, rd, w, f) ==
  row.receipt \/ rd.receipt \/ (\E i \in DOMAIN w : w[i].receipt) => f.receipt

NewestBy(ph, l, w, row) == ph \notin {"closing", "idle"} /\ l # Absent => ShownBy(l, w, row)

EndBy(ph, l, f, w, row, m) ==
  \/ ph = "closing" /\ l = f
  \/ ph = "idle" /\ f # Absent
  => ShownBy(f, w, row) \/ (FailureBy(w, row) /\ "throw" \in m)

\* Taking in the oldest report does not change what will be shown.
LEMMA ShownKept ==
  ASSUME NEW w \in Seq(Reports), 1 \in 1..Len(w), NEW row \in Row
  PROVE  /\ \A r \in File : ShownBy(r, w, row) => ShownBy(r, RemoveAt(w, 1), Merged(row, w[1]))
         /\ FailureBy(w, row) => FailureBy(RemoveAt(w, 1), Merged(row, w[1]))
         /\ \A rd, f : ReceiptsBacked(row, rd, w, f) =>
                         ReceiptsBacked(Merged(row, w[1]), rd, RemoveAt(w, 1), f)
<1> DEFINE v == RemoveAt(w, 1)
           m == Merged(row, w[1])
<1>1. /\ \A j \in DOMAIN v : \E k \in DOMAIN w : v[j] = w[k]
      /\ v # <<>> => Last(v) = Last(w)
      /\ v = <<>> => Last(w) = w[1]
  BY Taken
<1>2. w # <<>> /\ w[1] \in Reports /\ 1 \in DOMAIN w
  OBVIOUS
<1>3. /\ w[1] = Failure => m.state = "FAILED" /\ m.fatal /\ m.receipt = row.receipt
      /\ w[1] # Failure => /\ w[1] \in File /\ m.state = w[1].state /\ m.tested = w[1].tested
                           /\ m.receipt = (row.receipt \/ w[1].receipt)
  BY <1>2, Merging
<1>4. Failure \notin File
  BY DEF Failure, Absent, File
<1> HIDE DEF v, m
<1>5. ASSUME NEW r \in File, ShownBy(r, w, row) PROVE ShownBy(r, v, m)
  <2>1. Last(w) = r
    BY <1>2, <1>5 DEF ShownBy
  <2>2. CASE v # <<>>
    BY <1>1, <2>1, <2>2 DEF ShownBy
  <2>3. CASE v = <<>>
    <3>1. w[1] = r /\ r # Failure
      BY <1>1, <1>4, <2>1, <2>3
    <3>2. m.state = r.state /\ m.tested = r.tested /\ (r.receipt => m.receipt)
      BY <1>3, <3>1
    <3> QED BY <2>3, <3>2 DEF ShownBy
  <2> QED BY <2>2, <2>3
<1>6. ASSUME FailureBy(w, row) PROVE FailureBy(v, m)
  BY <1>1, <1>2, <1>3, <1>6 DEF FailureBy
<1>7. ASSUME NEW rd, NEW f, ReceiptsBacked(row, rd, w, f) PROVE ReceiptsBacked(m, rd, v, f)
  <2>1. (\E j \in DOMAIN v : v[j].receipt) => \E k \in DOMAIN w : w[k].receipt
    BY <1>1
  <2>2. m.receipt => row.receipt \/ w[1].receipt
    BY <1>3
  <2> QED BY <1>2, <1>7, <2>1, <2>2 DEF ReceiptsBacked
<1> QED BY <1>5, <1>6, <1>7 DEF v, m

\* The newest news stay shown.
LEMMA NewestStep ==
  ASSUME IInv, RunsNext
  PROVE  NewestIsShown'
<1>i. /\ TypeOK /\ CommandsHaveRows /\ FileFollowsPhase /\ mishaps \subseteq mishaps'
      /\ Genuine(file)
  BY TypeStep DEF IInv, ReportsAreGenuine
<1> SUFFICES ASSUME mishaps' \subseteq {"throw"}
             PROVE  /\ ReceiptsBacked(record', reading', wire', file')
                    /\ NewestBy(phase', last', wire', record')
                    /\ EndBy(phase', last', file', wire', record', mishaps')
  BY DEF NewestIsShown, ReceiptsBacked, NewestBy, EndBy, Shows, ShowsFailure, ShownBy, FailureBy
<1>m. mishaps \subseteq {"throw"} /\ mishaps \cap {"again", "death"} = {}
  BY <1>i
<1>n. /\ ReceiptsBacked(record, reading, wire, file)
      /\ NewestBy(phase, last, wire, record)
      /\ EndBy(phase, last, file, wire, record, mishaps)
  BY <1>m DEF IInv, NewestIsShown, ReceiptsBacked, NewestBy, EndBy, Shows, ShowsFailure, ShownBy, FailureBy
<1>e. EndBy(phase, last, file, wire, record, mishaps')
  BY <1>i, <1>n DEF EndBy
<1>o. /\ file # Absent => \E c \in Commands : Answered(c)
      /\ \A c \in Commands : cmd[c] # "failed" /\ found[c] = Unread
  BY <1>m DEF IInv, OneStart
<1>r. wire \in Seq(Reports) /\ record \in Row /\ {file, last, reading} \subseteq File \cup {Absent}
  BY <1>i DEF TypeOK, Reports
<1>1. CASE \E c \in Commands : \/ PostChecks(c) \/ PostConflicts(c) \/ Acknowledge(c)
                               \/ ReconcileReads(c) \/ ReconcileWrites(c)
  <2>1. PICK c \in Commands : \/ PostChecks(c) \/ PostConflicts(c) \/ Acknowledge(c)
                              \/ ReconcileReads(c) \/ ReconcileWrites(c)
    BY <1>1
  <2>2. UNCHANGED <<phase, file, last, reading, wire>>
    BY <2>1, RequestsFrame DEF Requests, Answers
  <2>3. ~ReconcileWrites(c)
    BY <1>o DEF ReconcileWrites
  <2>4. record' = record
    BY <2>1, <2>3 DEF PostChecks, PostConflicts, Acknowledge, ReconcileReads
  <2> QED BY <1>n, <1>e, <2>2, <2>4
<1>2. CASE \E c \in Commands : PostQueues(c)
  <2>1. PICK c \in Commands : PostQueues(c)
    BY <1>2
  <2>2. UNCHANGED <<phase, file, last, reading, wire>>
    BY <2>1, RequestsFrame DEF Requests
  <2>3. record = NoRow
    BY <2>1 DEF PostQueues
  <2>4. file = Absent /\ phase = "idle"
    BY <1>i, <1>o, <2>3 DEF CommandsHaveRows, FileFollowsPhase
  <2>5. ~record'.receipt
    BY <2>1, <2>3 DEF PostQueues, NoRow
  <2> QED BY <1>n, <2>2, <2>4, <2>5 DEF ReceiptsBacked, NewestBy, EndBy
<1>3. CASE \E c \in Commands : Handle(c)
  <2>1. PICK c \in Commands : Handle(c)
    BY <1>3
  <2>2. file = Absent /\ phase = "idle"
    BY <1>m, <2>1, FirstStart
  <2>3. Begin /\ last' = Absent /\ UNCHANGED <<record, wire, reading>>
    BY <2>1, <2>2 DEF Handle, control, link
  <2>4. ~file.receipt /\ phase' = "working"
    BY <2>2, <2>3, Beginning DEF Absent
  <2> QED BY <1>n, <2>3, <2>4 DEF ReceiptsBacked, NewestBy, EndBy
<1>4. CASE Supervises
  <2>1. Works /\ UNCHANGED <<record, wire, last, reading>>
    BY <1>4 DEF Supervises, control, link, daemon
  <2>2. /\ phase \in {"working", "shipped"} /\ phase' \in {"working", "shipped", "returned", "thrown"}
        /\ file.receipt => file'.receipt
    BY <1>i, <2>1, Working
  <2> QED BY <1>n, <2>1, <2>2 DEF ReceiptsBacked, NewestBy, EndBy
<1>5. CASE Load
  BY <1>5, <1>n, <1>e DEF Load, release, control, link, ReceiptsBacked
<1>6. CASE Publish
  <2> DEFINE more == IF phase = "idle" THEN {"order"} ELSE {}
  <2>1. PICK news \in News(reading) : Send(news, more)
    BY <1>6 DEF Publish
  <2>2. /\ reading # Absent /\ last' = reading /\ reading' = Absent
        /\ UNCHANGED <<phase, file, record>>
    BY <1>6 DEF Publish, release, control
  <2>3. reading \in Reports /\ news \in {<<>>, <<reading>>} /\ (news = <<>> => reading = last)
    BY <1>r, <2>1, <2>2, NewsIs DEF Reports
  <2>4. more \in SUBSET Mishaps /\ (more \subseteq {"throw"} => phase # "idle")
    BY DEF Mishaps
  <2> HIDE DEF more
  <2>5. /\ \A j \in DOMAIN wire' : (j \in DOMAIN wire /\ wire'[j] = wire[j]) \/ wire'[j] = reading
        /\ news = <<>> => wire' = wire
        /\ news # <<>> => wire' # <<>> /\ Last(wire') = reading /\ more \subseteq {"throw"}
    BY <1>i, <2>1, <2>3, <2>4, Sending
  <2>6. ReceiptsBacked(record', reading', wire', file')
    <3>1. ~Absent.receipt
      BY DEF Absent
    <3> QED BY <1>n, <2>2, <2>5, <3>1 DEF ReceiptsBacked
  <2>7. CASE news = <<>>
    BY <1>n, <1>e, <2>2, <2>3, <2>5, <2>6, <2>7
  <2>8. CASE news # <<>>
    <3>1. ShownBy(reading, wire', record') /\ phase # "idle"
      BY <2>4, <2>5, <2>8 DEF ShownBy
    <3> QED BY <2>2, <2>6, <3>1 DEF NewestBy, EndBy
  <2> QED BY <2>7, <2>8
<1>7. CASE ReportOutcome
  <2>1. /\ Settle /\ Send(Outcome, {})
        /\ UNCHANGED <<record, last, reading, file>> /\ phase \in {"returned", "thrown"} /\ phase' = "closing"
    BY <1>7 DEF ReportOutcome, control, daemon, Settle, Outcomes
  <2>2. file \in File
    BY <1>i, <1>r, <2>1 DEF FileFollowsPhase
  <2>3. ASSUME NEW r \in Reports, Outcome = <<r>>
        PROVE  /\ \A j \in DOMAIN wire' : (j \in DOMAIN wire /\ wire'[j] = wire[j]) \/ wire'[j] = r
               /\ wire' # <<>> /\ Last(wire') = r
    <3>1. Outcome \in {<<>>, <<r>>} /\ Outcome # <<>> /\ {} \in SUBSET Mishaps
      BY <2>3
    <3> QED BY <1>i, <2>1, <3>1, Sending
  <2>4. CASE phase = "thrown"
    <3>1. Outcome = <<Failure>> /\ Failure \in Reports /\ "throw" \in mishaps'
      BY <1>i, <2>4 DEF Outcome, Reports, FileFollowsPhase
    <3>2. ~Failure.receipt
      BY DEF Failure, Absent
    <3>3. FailureBy(wire', record')
      BY <2>3, <3>1 DEF FailureBy
    <3>4. ReceiptsBacked(record', reading', wire', file')
      BY <1>n, <2>1, <2>3, <3>1, <3>2 DEF ReceiptsBacked
    <3> QED BY <2>1, <3>1, <3>3, <3>4 DEF NewestBy, EndBy
  <2>5. CASE phase = "returned"
    <3>1. Outcome = <<file>> /\ file \in Reports
      BY <2>2, <2>5 DEF Outcome, Reports
    <3>2. ShownBy(file', wire', record')
      BY <2>1, <2>3, <3>1 DEF ShownBy
    <3>3. ReceiptsBacked(record', reading', wire', file')
      BY <1>n, <2>1, <2>3, <3>1 DEF ReceiptsBacked
    <3> QED BY <2>1, <3>2, <3>3 DEF NewestBy, EndBy
  <2> QED BY <2>1, <2>4, <2>5
<1>8. CASE LastPublish
  <2>1. PICK news \in News(file) : Send(news, {})
    BY <1>8 DEF LastPublish, LastNews
  <2>2. /\ phase = "closing" /\ phase' = "idle" /\ last' = file
        /\ UNCHANGED <<file, record, reading>>
    BY <1>8 DEF LastPublish, End, control
  <2>3. file \in Reports /\ news \in {<<>>, <<file>>} /\ (news = <<>> => file = last)
    BY <1>i, <1>r, <2>1, <2>2, NewsIs DEF FileFollowsPhase, Reports
  <2>4. {} \in SUBSET Mishaps
    OBVIOUS
  <2>5. /\ \A j \in DOMAIN wire' : (j \in DOMAIN wire /\ wire'[j] = wire[j]) \/ wire'[j] = file
        /\ news = <<>> => wire' = wire
        /\ news # <<>> => wire' # <<>> /\ Last(wire') = file
    BY <1>i, <2>1, <2>3, <2>4, Sending
  <2>6. ReceiptsBacked(record', reading', wire', file')
    BY <1>n, <2>2, <2>5 DEF ReceiptsBacked
  <2>7. CASE news = <<>>
    BY <1>e, <2>2, <2>3, <2>5, <2>6, <2>7 DEF NewestBy, EndBy
  <2>8. CASE news # <<>>
    <3>1. ShownBy(file, wire', record')
      BY <2>5, <2>8 DEF ShownBy
    <3> QED BY <2>2, <2>6, <3>1 DEF NewestBy, EndBy
  <2> QED BY <2>7, <2>8
<1>9. CASE \E i \in 1..Window : Apply(i)
  <2>1. PICK i \in 1..Window : Apply(i)
    BY <1>9
  <2>2. i = 1
    BY <2>1 DEF Apply
  <2>3. /\ 1 \in 1..Len(wire) /\ wire' = RemoveAt(wire, 1) /\ record' = Merged(record, wire[1])
        /\ UNCHANGED <<phase, file, last, reading>>
    BY <2>1, <2>2 DEF Apply, release, daemon
  <2>4. /\ \A r \in File : ShownBy(r, wire, record) => ShownBy(r, wire', record')
        /\ FailureBy(wire, record) => FailureBy(wire', record')
        /\ ReceiptsBacked(record, reading, wire, file) => ReceiptsBacked(record', reading, wire', file)
    BY <1>r, <2>3, ShownKept
  <2>5. NewestBy(phase', last', wire', record')
    BY <1>n, <1>r, <2>3, <2>4 DEF NewestBy
  <2>6. phase = "closing" => file # Absent
    BY <1>i DEF FileFollowsPhase
  <2>7. EndBy(phase', last', file', wire', record', mishaps')
    BY <1>e, <1>r, <2>3, <2>4, <2>6 DEF EndBy
  <2> QED BY <1>n, <2>3, <2>4, <2>5, <2>7
<1>10. CASE Break
  <2>1. Loses({}) /\ {} \in SUBSET Mishaps
    BY <1>10 DEF Break
  <2>2. wire' = wire
    BY <1>i, <2>1, Losing
  <2> QED BY <1>10, <1>n, <1>e, <2>2 DEF Break, release, control, daemon
<1>11. CASE Connect
  BY <1>11, <1>n, <1>e DEF Connect, release, control, daemon
<1>12. CASE DaemonDies
  <2>1. "death" \in mishaps'
    BY <1>12 DEF DaemonDies, Loses
  <2> QED BY <2>1
<1> QED BY <1>1, <1>2, <1>3, <1>4, <1>5, <1>6, <1>7, <1>8, <1>9, <1>10, <1>11, <1>12 DEF RunsNext

-----------------------------------------------------------------------------
(* The theorems.                                                           *)

\* The invariant ShippingRuns is built on: rows and reports are well formed,
\* say SHIPPED only of what was shipped, and show the newest news.
THEOREM RunsInvariance == RunsSpec => []IInv
<1>1. RunsInit => IInv
  <2> SUFFICES ASSUME RunsInit PROVE IInv
    OBVIOUS
  <2> USE DEF RunsInit, Init
  <2>1. TypeOK
    <3>1. NoRow \in Row /\ Unread \in Row
      BY DEF Row, NoRow, Unread
    <3>2. wire \in Seq(File \cup {Failure}) /\ failures \in 0..Failures
      BY WireAssumption
    <3>3. post \in [Commands -> {"new", "checked", "done"}]
          /\ cmd \in [Commands -> {"none", "pending", "acked", "failed"}]
          /\ found \in [Commands -> Row]
      BY <3>1
    <3> QED BY <3>1, <3>2, <3>3 DEF TypeOK
  <2>2. ShownShippedWasShipped /\ FileFollowsPhase
    BY DEF ShownShippedWasShipped, FileFollowsPhase, NoRow
  <2>3. ReportsAreGenuine
    BY DEF ReportsAreGenuine, Genuine, Absent
  <2>4. CommandsHaveRows /\ OneStart
    BY DEF CommandsHaveRows, OneStart, Answered
  <2>5. NewestIsShown
    BY DEF NewestIsShown, NoRow, Absent
  <2> QED BY <2>1, <2>2, <2>3, <2>4, <2>5 DEF IInv
<1>2. IInv /\ [RunsNext]_vars => IInv'
  <2> SUFFICES ASSUME IInv, [RunsNext]_vars PROVE IInv'
    OBVIOUS
  <2>1. CASE RunsNext
    BY <2>1, TypeStep, ShownStep, PhaseStep, GenuineStep, RowsStep, StartStep, NewestStep DEF IInv
  <2>2. CASE UNCHANGED vars
    <3>1. UNCHANGED <<phase, file, shipped, record, post, cmd, answered, found, connected, wire,
                      last, reading, failures, mishaps>>
      BY <2>2 DEF vars, release, control, link, daemon
    <3>2. TypeOK' /\ ShownShippedWasShipped' /\ FileFollowsPhase'
      BY <3>1 DEF IInv, TypeOK, ShownShippedWasShipped, FileFollowsPhase
    <3>3. ReportsAreGenuine'
      BY <3>1 DEF IInv, ReportsAreGenuine, Genuine
    <3>4. CommandsHaveRows' /\ OneStart'
      BY <3>1 DEF IInv, CommandsHaveRows, OneStart, Answered
    <3>5. NewestIsShown'
      BY <3>1 DEF IInv, NewestIsShown, Shows, ShowsFailure
    <3> QED BY <3>2, <3>3, <3>4, <3>5 DEF IInv
  <2> QED BY <2>1, <2>2
<1> QED BY <1>1, <1>2, PTL DEF RunsSpec

\* The console shows a run as SHIPPED only with a sha that was shipped,
\* however reports are reordered, lost, queued again or thrown.
THEOREM ShippedRowsAreTrue == RunsSpec => []ShownShippedWasShipped
<1>1. IInv => ShownShippedWasShipped
  BY DEF IInv
<1> QED BY <1>1, RunsInvariance, PTL

\* At rest the row shows the file, or the failure reported in its place, unless
\* a report was lost or overtaken, the daemon died or the run was queued again.
THEOREM EndsAreShown == RunsSpec => []EndIsShown
<1>1. IInv => EndIsShown
  <2> SUFFICES ASSUME IInv, Quiet, file # Absent, mishaps \cap (Mishaps \ {"throw"}) = {}
               PROVE  \/ record = [state |-> file.state, tested |-> file.tested,
                                   receipt |-> file.receipt, fatal |-> record.fatal]
                      \/ record.state = "FAILED" /\ record.fatal /\ "throw" \in mishaps
    BY DEF EndIsShown
  <2>1. TypeOK /\ phase = "idle" /\ wire = <<>>
    BY DEF IInv, Quiet
  <2>2. mishaps \subseteq {"throw"}
    BY <2>1 DEF TypeOK
  <2>3. /\ record.receipt => file.receipt
        /\ Shows(file) \/ (ShowsFailure /\ "throw" \in mishaps)
    BY <2>1, <2>2 DEF IInv, NewestIsShown
  <2>4. CASE Shows(file)
    <3>1. /\ record.state = file.state /\ record.tested = file.tested
          /\ file.receipt => record.receipt
      BY <2>1, <2>4 DEF Shows
    <3>2. record \in Row /\ file \in File
      BY <2>1 DEF TypeOK
    <3>3. record.receipt = file.receipt
      BY <2>3, <3>1, <3>2 DEF Row, File
    <3> QED BY <3>1, <3>2, <3>3 DEF Row
  <2>5. CASE ShowsFailure /\ "throw" \in mishaps
    BY <2>1, <2>5 DEF ShowsFailure
  <2> QED BY <2>3, <2>4, <2>5
<1> QED BY <1>1, RunsInvariance, PTL

\* A run is not started over the file of an earlier execution, unless it was
\* queued twice or the daemon died and forgot its answer.
THEOREM StartsOnce == RunsSpec => RunIsStartedOnce
<1>1. IInv /\ [RunsNext]_vars => [Begin /\ file # Absent => mishaps \cap {"again", "death"} # {}]_vars
  <2> SUFFICES ASSUME IInv, RunsNext, Begin, file # Absent
               PROVE  mishaps \cap {"again", "death"} # {}
    OBVIOUS
  <2>1. phase = "idle" /\ phase' = "working"
    BY Beginning
  <2>2. \E c \in Commands : Handle(c)
    <3>1. ~(\E c \in Commands : Requests(c) \/ Answers(c))
      BY <2>1, RequestsFrame
    <3>2. ~(Load \/ Publish \/ (\E i \in 1..Window : Apply(i)) \/ Break \/ Connect)
      BY <2>1 DEF Load, Publish, Apply, Break, Connect, release
    <3>3. ~(Supervises \/ ReportOutcome \/ LastPublish \/ DaemonDies)
      BY <2>1 DEF Supervises, Works, Work, Fail, Ship, WriteReceipt, Return, Throw,
         ReportOutcome, LastPublish, DaemonDies, Settle, End, Die
    <3> QED BY <3>1, <3>2, <3>3 DEF RunsNext, Requests, Answers
  <2> QED BY <2>2, FirstStart
<1> QED BY <1>1, RunsInvariance, PTL DEF RunsSpec, RunIsStartedOnce

=============================================================================
