------------------------- MODULE VerificationProofs -------------------------
(***************************************************************************)
(* Theorems about verifications of capabilities: the session one runs in   *)
(* and what its frames leave in the rows of the control API, the registry  *)
(* the capability comes from, and its installation in a workspace.         *)
(***************************************************************************)
EXTENDS AgentSessions, CapabilityRegistry, CapabilityInstall, FiniteSetTheorems, WellFoundedInduction, TLAPS

-----------------------------------------------------------------------------
(***************************************************************************)
(* The session and its verification row (module AgentSessions).            *)
(***************************************************************************)
(* Frames and what counts of them.                                         *)

FrameRows == [kind : FrameKinds, by : {"turn", "command"}, sent : BOOLEAN]

\* What has been emitted stays, and the new frames follow.
LEMMA EmitAdds ==
  ASSUME Shape, NEW kinds \in Seq(FrameKinds), NEW by \in {"turn", "command"}, Emit(kinds, by)
  PROVE  /\ emitted' \in Seq(FrameRows) /\ Len(emitted) \in Nat
         /\ Len(emitted') = Len(emitted) + Len(kinds)
         /\ DOMAIN emitted = 1..Len(emitted) /\ DOMAIN emitted' = 1..Len(emitted) + Len(kinds)
         /\ \A i \in DOMAIN emitted : emitted'[i] = emitted[i]
         /\ \A j \in DOMAIN kinds :
              /\ emitted'[Len(emitted) + j].kind = kinds[j] /\ emitted'[Len(emitted) + j].by = by
              /\ emitted'[Len(emitted) + j].sent
<1> DEFINE f == Frames(kinds, by)
<1>1. emitted \in Seq(FrameRows)
  BY DEF Shape, FrameRows
<1>2. f = [i \in 1..Len(kinds) |-> [kind |-> kinds[i], by |-> by, sent |-> TRUE]]
  BY DEF Frames
<1>3. \A i \in 1..Len(kinds) : [kind |-> kinds[i], by |-> by, sent |-> TRUE] \in FrameRows
  BY DEF FrameRows
<1>4. f \in Seq(FrameRows) /\ Len(f) = Len(kinds) /\ DOMAIN f = 1..Len(kinds)
  BY <1>2, <1>3
<1>5. emitted' = emitted \o f
  BY DEF Emit
<1>6. \A j \in DOMAIN kinds : f[j].kind = kinds[j] /\ f[j].by = by /\ f[j].sent
  BY <1>2
<1> HIDE DEF f
<1>7. \A j \in DOMAIN kinds : emitted'[Len(emitted) + j] = f[j]
  BY <1>1, <1>4, <1>5
<1>8. /\ emitted' \in Seq(FrameRows) /\ Len(emitted) \in Nat /\ Len(emitted') = Len(emitted) + Len(kinds)
      /\ DOMAIN emitted = 1..Len(emitted) /\ DOMAIN emitted' = 1..Len(emitted) + Len(kinds)
      /\ \A i \in DOMAIN emitted : emitted'[i] = emitted[i]
  <2>1. emitted \o f \in Seq(FrameRows) /\ Len(emitted \o f) = Len(emitted) + Len(f)
    BY <1>1, <1>4
  <2>2. DOMAIN emitted = 1..Len(emitted) /\ Len(emitted) \in Nat
    BY <1>1
  <2>3. DOMAIN (emitted \o f) = 1..Len(emitted) + Len(f)
    BY <1>1, <1>4
  <2>4. \A i \in 1..Len(emitted) : (emitted \o f)[i] = emitted[i]
    BY <1>1, <1>4
  <2> QED BY <1>4, <1>5, <2>1, <2>2, <2>3, <2>4
<1> QED BY <1>6, <1>7, <1>8

EndSet == {i \in DOMAIN emitted : emitted[i].by = "turn" /\ emitted[i].kind \in {"completed", "failed"}}
BeginSet == {i \in DOMAIN emitted : emitted[i].by = "turn" /\ emitted[i].kind = "running"}

LEMMA CountsAreSizes == Ends = Cardinality(EndSet) /\ Begins = Cardinality(BeginSet)
BY DEF Ends, Begins, Count, EndSet, BeginSet

LEMMA SetsAreFinite ==
  ASSUME Shape
  PROVE  /\ IsFiniteSet(EndSet) /\ IsFiniteSet(BeginSet)
         /\ Ends \in Nat /\ Begins \in Nat
<1>1. emitted \in Seq(FrameRows) /\ DOMAIN emitted = 1..Len(emitted) /\ Len(emitted) \in Nat
  BY DEF Shape, FrameRows
<1>2. IsFiniteSet(1..Len(emitted))
  BY <1>1, FS_Interval
<1>3. EndSet \subseteq 1..Len(emitted) /\ BeginSet \subseteq 1..Len(emitted)
  BY <1>1 DEF EndSet, BeginSet
<1>4. IsFiniteSet(EndSet) /\ IsFiniteSet(BeginSet)
  BY <1>2, <1>3, FS_Subset
<1> QED BY <1>4, FS_CardinalityType, CountsAreSizes

\* A set of natural numbers has a least element, one of indices a last one.
LEMMA LeastOf ==
  ASSUME NEW S \in SUBSET Nat, S # {}
  PROVE  \E x \in S : \A y \in S : x <= y
<1>1. PICK x \in S : \A y \in S : ~ (<<y, x>> \in OpToRel(<, Nat))
  BY NatLessThanWellFounded, WFMin
<1>2. ASSUME NEW y \in S, y < x PROVE FALSE
  <2>1. <<y, x>> \in Nat \X Nat /\ <<y, x>>[1] < <<y, x>>[2]
    BY <1>2
  <2>2. <<y, x>> \in OpToRel(<, Nat)
    BY <2>1, Zenon DEF OpToRel
  <2> QED BY <1>1, <2>2
<1> QED BY <1>2

LEMMA LastIndex ==
  ASSUME NEW n \in Nat, NEW I \in SUBSET (1..n), I # {}
  PROVE  \E m \in I : \A i \in I : i <= m
<1> DEFINE T == {n - i : i \in I}
<1>1. \A i \in I : n - i \in Nat /\ i \in Int
  OBVIOUS
<1>2. T \in SUBSET Nat /\ T # {}
  BY <1>1
<1>3. PICK x \in T : \A y \in T : x <= y
  BY <1>2, LeastOf
<1>4. PICK m \in I : x = n - m
  BY <1>3
<1>5. ASSUME NEW i \in I PROVE i <= m
  <2>1. n - m <= n - i
    BY <1>3, <1>4
  <2> QED BY <1>1, <2>1
<1> QED BY <1>5

\* LastStatus is the last frame with a status, or 0.
LEMMA LastStatusIs ==
  ASSUME Shape
  PROVE  /\ LastStatus > 0 => /\ LastStatus \in DOMAIN emitted /\ emitted[LastStatus].kind \in Statuses
                              /\ \A i \in DOMAIN emitted : emitted[i].kind \in Statuses => i <= LastStatus
<1>1. emitted \in Seq(FrameRows) /\ DOMAIN emitted = 1..Len(emitted) /\ Len(emitted) \in Nat
  BY DEF Shape, FrameRows
<1> DEFINE I == {i \in 1..Len(emitted) : emitted[i].kind \in Statuses}
<1>2. LastStatus = IF I # {} THEN Max(I) ELSE 0
  BY DEF LastStatus, SelectLastInSeq
<1>3. ASSUME I # {} PROVE Max(I) \in I /\ \A i \in I : i <= Max(I)
  <2>1. \E m \in I : \A i \in I : i <= m
    BY <1>1, <1>3, LastIndex
  <2>2. \E m \in I : \A i \in I : m >= i
    BY <1>1, <2>1
  <2>3. Max(I) \in I /\ \A i \in I : Max(I) >= i
    BY <2>2 DEF Max
  <2> QED BY <1>1, <2>3
<1> QED BY <1>1, <1>2, <1>3

-----------------------------------------------------------------------------
(* What a step does to the turn and to the frames.                         *)

FinalKinds == {<<"completed">>, <<"failed">>, <<"error", "failed">>}
VerdictKinds == {<<"passed", "completed">>, <<"not passed", "failed">>, <<"error", "failed">>}

SameRest == turn'.terminal = turn.terminal /\ turn'.left = turn.left /\ turn'.passed = turn.passed

\* A turn begins; a command is answered beside it; it prints an error; it
\* says its final status; it exits after that; a test case ends.
Taken == queue # <<>> /\ queue' = Tail(queue)
TurnBegins == Taken /\ turn = NoTurn /\ turn' = NewTurn /\ Emit(<<"running">>, "turn")
Aside ==
  /\ Taken
  /\ turn' = NoTurn <=> turn = NoTurn
  /\ turn # NoTurn => turn' \in Turns /\ SameRest
  /\ \E kinds \in {<<"error", "failed">>, <<"interrupted">>} :
       Emit(kinds, "command") /\ (Head(queue).action = "start" => kinds = Failure)
ErrorLine ==
  /\ queue' = queue /\ turn # NoTurn /\ ~turn.terminal /\ agent # "verify"
  /\ turn' \in Turns /\ SameRest /\ Emit(<<"error">>, "turn")
TurnEnds ==
  /\ queue' = queue /\ turn # NoTurn /\ ~turn.terminal
  /\ \/ turn' = NoTurn
     \/ agent # "verify" /\ turn' \in Turns /\ turn'.terminal /\ turn'.left = turn.left /\ turn'.passed = turn.passed
  /\ \E kinds \in FinalKinds \cup VerdictKinds :
       Emit(kinds, "turn") /\ (agent = "verify" => kinds \in VerdictKinds)
Leaves == queue' = queue /\ turn # NoTurn /\ turn.terminal /\ turn' = NoTurn /\ emitted' = emitted
CaseRuns ==
  /\ queue' = queue /\ turn # NoTurn /\ turn' \in Turns /\ turn'.terminal = turn.terminal
  /\ (turn.passed + turn.left <= Cases => turn'.passed + turn'.left <= Cases) /\ emitted' = emitted

TurnMoves == TurnBegins \/ Aside \/ ErrorLine \/ TurnEnds \/ Leaves \/ CaseRuns

\* A turn is a whole record, or there is none.
LEMMA TurnOrNone ==
  ASSUME Shape
  PROVE  turn # NoTurn <=> turn \in Turns
<1>1. NoTurn.phase = "none" /\ \A x \in Turns : x.phase = "live"
  BY DEF NoTurn, Turns
<1> QED BY <1>1 DEF Shape

LEMMA KindsAreFrames ==
  /\ \A kinds \in FinalKinds \cup VerdictKinds \cup {<<"running">>, <<"error">>, <<"interrupted">>} :
       kinds \in Seq(FrameKinds)
  /\ \A kinds \in FinalKinds \cup VerdictKinds :
       /\ Len(kinds) \in {1, 2} /\ kinds[Len(kinds)] \in {"completed", "failed"}
       /\ Len(kinds) = 2 => kinds[1] \in {"error", "passed", "not passed"}
BY DEF FinalKinds, VerdictKinds, FrameKinds, Statuses

\* The adapters' lines and exits.
LEMMA LinesAre ==
  ASSUME Shape, NEW kinds \in Lines
  PROVE  /\ agent # "verify" /\ kinds \in {<<"error">>, <<"completed">>, <<"error", "failed">>}
         /\ Last(kinds) # "error" => kinds \in FinalKinds
         /\ Last(kinds) = "error" => kinds = <<"error">>
<1>1. agent \in {"codex", "claude-code", "opencode", "cursor", "verify"}
  BY SessionsAssumption DEF Shape
<1>2. agent # "verify" /\ kinds \in {<<"error">>, <<"completed">>, <<"error", "failed">>}
  BY <1>1 DEF Lines, CodexLines, ClaudeLines, OpenCodeLines, CursorLines
<1>3. Last(<<"error">>) = "error" /\ Last(<<"completed">>) = "completed" /\ Last(<<"error", "failed">>) = "failed"
  BY DEF Last
<1> QED BY <1>2, <1>3 DEF FinalKinds

LEMMA ExitsAre ==
  ASSUME Shape, agent # "verify", turn # NoTurn, NEW ok \in BOOLEAN
  PROVE  /\ turn.terminal => End(ok) = <<>>
         /\ ~turn.terminal => End(ok) \in FinalKinds
<1>1. agent \in {"codex", "claude-code", "opencode", "cursor"}
  BY SessionsAssumption DEF Shape
<1> QED BY <1>1 DEF End, CodexEnd, ClaudeEnd, OpenCodeEnd, CursorEnd, FinalKinds

DaemonTurns ==
  \/ Start \/ Message \/ Interrupt \/ EndVerification \/ VerificationThrows
  \/ \E ok \in BOOLEAN : Exit(ok) \/ VerifyCase(ok)
  \/ \E kinds \in Lines : Line(kinds)

LEMMA DaemonTurnsMove ==
  ASSUME Shape, agent = "verify" /\ turn # NoTurn => ~turn.terminal, DaemonTurns
  PROVE  TurnMoves
<1>1. turn # NoTurn => turn \in Turns
  BY TurnOrNone
<1>n. \A x \in Turns : x # NoTurn
  BY DEF Turns, NoTurn
<1>2. ASSUME RunAdapter, Taken PROVE TurnMoves
  <2>1. CASE Throws
    BY <1>1, <1>2, <2>1 DEF Throws, Aside, Failure, TurnMoves, SameRest
  <2> QED BY <1>2, <2>1 DEF RunAdapter, Busy, TurnBegins, TurnMoves
<1>3. CASE Start
  BY <1>2, <1>3 DEF Start, Takes, Taken
<1>4. CASE Message
  <2>1. CASE agent = "verify"
    BY <1>1, <1>4, <2>1 DEF Message, Throws, Takes, Taken, Aside, Failure, TurnMoves, SameRest
  <2> QED BY <1>2, <1>4, <2>1 DEF Message, Takes, Taken
<1>5. CASE Interrupt
  BY <1>1, <1>5 DEF Interrupt, Takes, Taken, Aside, Failure, TurnMoves, SameRest
<1>6. CASE EndVerification
  <2>1. Verdict(turn.passed) \in VerdictKinds
    BY DEF Verdict, VerdictKinds
  <2> QED BY <1>6, <2>1 DEF EndVerification, TurnEnds, TurnMoves
<1>7. CASE VerificationThrows
  BY <1>7 DEF VerificationThrows, TurnEnds, TurnMoves, Failure, VerdictKinds
<1>8. ASSUME NEW ok \in BOOLEAN, Exit(ok) PROVE TurnMoves
  <2>1. CASE turn.terminal
    <3>1. Emit(<<>>, "turn") /\ turn' = NoTurn /\ turn # NoTurn /\ queue' = queue
      BY <1>8, <2>1, ExitsAre DEF Exit
    <3>2. emitted' = emitted
      <4>1. emitted \in Seq(FrameRows)
        BY DEF Shape, FrameRows
      <4>2. <<>> \in Seq(FrameKinds) /\ Len(<<>>) = 0
        OBVIOUS
      <4>3. /\ emitted' \in Seq(FrameRows) /\ Len(emitted') = Len(emitted) + Len(<<>>)
            /\ \A i \in DOMAIN emitted : emitted'[i] = emitted[i]
        BY <3>1, <4>2, EmitAdds
      <4> QED BY <4>1, <4>2, <4>3
    <3> QED BY <2>1, <3>1, <3>2 DEF Leaves, TurnMoves
  <2>2. CASE ~turn.terminal
    BY <1>8, <2>2, ExitsAre DEF Exit, TurnEnds, TurnMoves
  <2> QED BY <2>1, <2>2
<1>9. ASSUME NEW ok \in BOOLEAN, VerifyCase(ok) PROVE TurnMoves
  <2> DEFINE d == IF ok THEN 1 ELSE 0
             after == [turn EXCEPT !.left = @ - 1, !.passed = @ + d]
  <2>1. turn' = after /\ emitted' = emitted /\ turn # NoTurn /\ turn.left > 0 /\ turn \in Turns /\ queue' = queue
    BY <1>1, <1>9 DEF VerifyCase
  <2>3. turn.left \in Nat /\ turn.passed \in Nat
    BY <2>1 DEF Turns
  <2>5. d \in {0, 1}
    OBVIOUS
  <2> HIDE DEF d
  <2>6. turn.left - 1 \in Nat /\ turn.passed + d \in Nat
    BY <2>1, <2>3, <2>5
  <2>2. after \in Turns /\ after.terminal = turn.terminal
        /\ after.left = turn.left - 1 /\ after.passed = turn.passed + d
    BY <2>1, <2>6 DEF Turns
  <2> HIDE DEF after
  <2>4. turn.passed + turn.left <= Cases => turn'.passed + turn'.left <= Cases
    BY <2>1, <2>2, <2>3, <2>5, SessionsAssumption
  <2> QED BY <2>1, <2>2, <2>4 DEF CaseRuns, TurnMoves
<1>10. ASSUME NEW kinds \in Lines, Line(kinds) PROVE TurnMoves
  <2> DEFINE d == IF Head(kinds) = "error" THEN 1 ELSE 0
             last == Last(kinds) # "error"
             after == [turn EXCEPT !.errors = @ + d, !.terminal = last]
  <2>1. turn' = after /\ turn # NoTurn /\ ~turn.terminal /\ Emit(kinds, "turn") /\ turn \in Turns /\ queue' = queue
    BY <1>1, <1>10 DEF Line
  <2>5. d \in {0, 1} /\ last \in BOOLEAN /\ (last <=> Last(kinds) # "error")
    OBVIOUS
  <2> HIDE DEF d, last
  <2>6. turn.errors + d \in Nat
    BY <2>1, <2>5 DEF Turns
  <2>2. after \in Turns /\ after.terminal = last /\ after.left = turn.left /\ after.passed = turn.passed
    BY <2>1, <2>5, <2>6 DEF Turns
  <2> HIDE DEF after
  <2>3. CASE Last(kinds) = "error"
    <3>1. ~turn'.terminal /\ Emit(<<"error">>, "turn") /\ agent # "verify"
      BY <2>1, <2>2, <2>3, <2>5, LinesAre
    <3>2. turn.terminal \in BOOLEAN /\ turn'.terminal \in BOOLEAN
      BY <2>1, <2>2 DEF Turns
    <3> QED BY <2>1, <2>2, <3>1, <3>2 DEF ErrorLine, SameRest, TurnMoves
  <2>4. CASE Last(kinds) # "error"
    BY <2>1, <2>2, <2>4, <2>5, LinesAre DEF TurnEnds, TurnMoves
  <2> QED BY <2>3, <2>4
<1> QED BY <1>3, <1>4, <1>5, <1>6, <1>7, <1>8, <1>9, <1>10 DEF DaemonTurns

\* What every such step does to the frames and to the shape of the turn.
LEMMA MovesKeep ==
  ASSUME Shape, TurnMoves
  PROVE  /\ emitted' \in Seq(FrameRows) /\ Len(emitted) \in Nat /\ Len(emitted') \in Nat
         /\ Len(emitted) <= Len(emitted')
         /\ DOMAIN emitted = 1..Len(emitted) /\ DOMAIN emitted' = 1..Len(emitted')
         /\ \A i \in DOMAIN emitted : emitted'[i] = emitted[i]
         /\ \A i \in DOMAIN emitted' \ DOMAIN emitted : emitted'[i].sent
         /\ turn' \in Turns \cup {NoTurn}
<1>1. emitted \in Seq(FrameRows) /\ turn \in Turns \cup {NoTurn}
  BY DEF Shape, FrameRows
<1>2. NewTurn \in Turns
  BY SessionsAssumption DEF NewTurn, Turns
<1>3. turn' \in Turns \cup {NoTurn}
  BY <1>1, <1>2, TurnOrNone DEF TurnMoves, TurnBegins, Aside, ErrorLine, TurnEnds, Leaves, CaseRuns
<1>4. \/ emitted' = emitted
      \/ \E kinds \in FinalKinds \cup VerdictKinds \cup {<<"running">>, <<"error">>, <<"interrupted">>} :
           \E by \in {"turn", "command"} : Emit(kinds, by)
  BY DEF TurnMoves, TurnBegins, Aside, ErrorLine, TurnEnds, Leaves, CaseRuns, FinalKinds
<1>5. CASE emitted' = emitted
  BY <1>1, <1>3, <1>5
<1>6. ASSUME NEW kinds \in Seq(FrameKinds), NEW by \in {"turn", "command"}, Emit(kinds, by)
      PROVE  /\ emitted' \in Seq(FrameRows) /\ Len(emitted) \in Nat /\ Len(emitted') \in Nat
             /\ Len(emitted) <= Len(emitted')
             /\ DOMAIN emitted = 1..Len(emitted) /\ DOMAIN emitted' = 1..Len(emitted')
             /\ \A i \in DOMAIN emitted : emitted'[i] = emitted[i]
             /\ \A i \in DOMAIN emitted' \ DOMAIN emitted : emitted'[i].sent
  <2>1. Len(kinds) \in Nat /\ DOMAIN kinds = 1..Len(kinds)
    OBVIOUS
  <2>2. ASSUME NEW i \in DOMAIN emitted' \ DOMAIN emitted PROVE emitted'[i].sent
    <3>1. i - Len(emitted) \in DOMAIN kinds /\ Len(emitted) + (i - Len(emitted)) = i
      BY <1>6, <2>1, EmitAdds
    <3> QED BY <1>6, <3>1, EmitAdds
  <2> QED BY <1>6, <2>1, <2>2, EmitAdds
<1> QED BY <1>3, <1>4, <1>5, <1>6, KindsAreFrames

\* The frames with a number up to what was received keep their kind.
\* Every turn that said "running" says one final status.
LEMMA MovesCount ==
  ASSUME Shape, TurnsEndOnce, TurnMoves, faults' = faults
  PROVE  TurnsEndOnce'
<1> DEFINE n == Len(emitted)
           open == IF turn # NoTurn /\ ~turn.terminal THEN 1 ELSE 0
           open2 == IF turn' # NoTurn /\ ~turn'.terminal THEN 1 ELSE 0
<1>1. IsFiniteSet(EndSet) /\ IsFiniteSet(BeginSet) /\ Ends \in Nat /\ Begins \in Nat
  BY SetsAreFinite
<1>2. Ends' = Cardinality(EndSet') /\ Begins' = Cardinality(BeginSet')
  BY DEF Ends, Begins, Count, EndSet, BeginSet
<1>3. Ends = Cardinality(EndSet) /\ Begins = Cardinality(BeginSet)
  BY CountsAreSizes
<1>4. n \in Nat /\ DOMAIN emitted = 1..n /\ \A i \in DOMAIN emitted : emitted'[i] = emitted[i]
  BY MovesKeep
<1>5. \A x \in Turns : x # NoTurn
  BY DEF Turns, NoTurn
<1>6. TurnsEndOnce' <=> /\ Ends' + open2 <= Begins'
                        /\ faults' = 0 => Ends' + open2 = Begins'
  BY DEF TurnsEndOnce
<1>7. Ends + open <= Begins /\ (faults = 0 => Ends + open = Begins)
  BY DEF TurnsEndOnce
<1>8. SUFFICES \E a, b \in {0, 1} : Ends' = Ends + a /\ Begins' = Begins + b /\ a + open2 = b + open
  BY <1>1, <1>6, <1>7
<1>9. CASE TurnBegins
  <2>1. open = 0 /\ open2 = 1
    BY <1>9 DEF TurnBegins, NewTurn, NoTurn
  <2> DEFINE kinds == <<"running">>
  <2>a. Len(kinds) = 1 /\ 1 \in DOMAIN kinds /\ kinds[1] = "running"
    OBVIOUS
  <2>c. kinds \in Seq(FrameKinds)
    BY KindsAreFrames
  <2>b. Emit(kinds, "turn")
    BY <1>9 DEF TurnBegins
  <2>2. /\ DOMAIN emitted' = 1..n + 1 /\ emitted'[n + 1].kind = "running" /\ emitted'[n + 1].by = "turn"
    <3> HIDE DEF kinds
    <3> QED BY <2>a, <2>b, <2>c, EmitAdds
  <2>3. EndSet' = EndSet /\ BeginSet' = BeginSet \cup {n + 1} /\ n + 1 \notin BeginSet
    BY <1>4, <2>2 DEF EndSet, BeginSet
  <2>4. Ends' = Ends /\ Begins' = Begins + 1
    BY <1>1, <1>2, <1>3, <2>3, FS_AddElement
  <2> QED BY <1>1, <2>1, <2>4
<1>10. CASE Aside
  <2>1. open2 = open
    BY <1>10 DEF Aside, SameRest
  <2>2. PICK kinds \in {<<"error", "failed">>, <<"interrupted">>} : Emit(kinds, "command")
    BY <1>10 DEF Aside
  <2>a. kinds \in Seq(FrameKinds)
    <3>1. <<"error", "failed">> \in FinalKinds
      BY DEF FinalKinds
    <3> QED BY <3>1, KindsAreFrames
  <2>3. kinds \in Seq(FrameKinds) /\ Len(kinds) \in Nat /\ DOMAIN kinds = 1..Len(kinds)
    BY <2>a
  <2>4. /\ DOMAIN emitted' = 1..n + Len(kinds)
        /\ \A j \in DOMAIN kinds : emitted'[n + j].by = "command"
    BY <2>2, <2>3, EmitAdds
  <2>5. ASSUME NEW i \in DOMAIN emitted' \ DOMAIN emitted PROVE emitted'[i].by = "command"
    <3>1. i - n \in DOMAIN kinds /\ n + (i - n) = i
      BY <1>4, <2>3, <2>4
    <3> QED BY <2>4, <3>1
  <2>6. DOMAIN emitted \subseteq DOMAIN emitted'
    BY <1>4, <2>3, <2>4
  <2>7. EndSet' = EndSet /\ BeginSet' = BeginSet
    BY <1>4, <2>5, <2>6 DEF EndSet, BeginSet
  <2> QED BY <1>1, <1>2, <1>3, <2>1, <2>7
<1>11. CASE ErrorLine
  <2>1. open = 1 /\ open2 = 1
    BY <1>5, <1>11 DEF ErrorLine, SameRest
  <2> DEFINE kinds == <<"error">>
  <2>a. Len(kinds) = 1 /\ 1 \in DOMAIN kinds /\ kinds[1] = "error"
    OBVIOUS
  <2>c. kinds \in Seq(FrameKinds)
    BY KindsAreFrames
  <2>b. Emit(kinds, "turn")
    BY <1>11 DEF ErrorLine
  <2>2. DOMAIN emitted' = 1..n + 1 /\ emitted'[n + 1].kind = "error"
    <3> HIDE DEF kinds
    <3> QED BY <2>a, <2>b, <2>c, EmitAdds
  <2>3. EndSet' = EndSet /\ BeginSet' = BeginSet
    BY <1>4, <2>2 DEF EndSet, BeginSet
  <2> QED BY <1>1, <1>2, <1>3, <2>1, <2>3
<1>12. CASE TurnEnds
  <2>1. open = 1 /\ open2 = 0
    BY <1>5, <1>12 DEF TurnEnds
  <2>2. PICK kinds \in FinalKinds \cup VerdictKinds : Emit(kinds, "turn")
    BY <1>12 DEF TurnEnds
  <2> DEFINE m == Len(kinds)
  <2>3. /\ kinds \in Seq(FrameKinds) /\ m \in {1, 2} /\ DOMAIN kinds = 1..m
        /\ kinds[m] \in {"completed", "failed"}
        /\ m = 2 => kinds[1] \in {"error", "passed", "not passed"}
    <3>1. kinds \in Seq(FrameKinds)
      BY KindsAreFrames
    <3>2. DOMAIN kinds = 1..m
      BY <3>1
    <3> QED BY <3>1, <3>2, KindsAreFrames
  <2>4. /\ DOMAIN emitted' = 1..n + m
        /\ \A j \in 1..m : emitted'[n + j].kind = kinds[j] /\ emitted'[n + j].by = "turn"
    BY <2>2, <2>3, EmitAdds, ZenonT(30)
  <2>5. EndSet' = EndSet \cup {n + m} /\ BeginSet' = BeginSet /\ n + m \notin EndSet
    <3>1. CASE m = 1
      BY <1>4, <2>3, <2>4, <3>1 DEF EndSet, BeginSet
    <3>2. CASE m = 2
      <4>1. /\ DOMAIN emitted' = DOMAIN emitted \cup {n + 1, n + 2} /\ n + 2 \notin DOMAIN emitted
            /\ emitted'[n + 1].kind \in {"error", "passed", "not passed"}
            /\ emitted'[n + 2].kind \in {"completed", "failed"} /\ emitted'[n + 2].by = "turn"
        <5>1. 1 \in 1..m /\ 2 \in 1..m /\ m = 2
          BY <3>2
        <5>2. 1..n + m = 1..n \cup {n + 1, n + 2} /\ n + 2 \notin 1..n
          BY <1>4, <3>2
        <5> HIDE DEF m
        <5> QED BY <1>4, <2>3, <2>4, <5>1, <5>2
      <4> HIDE DEF m
      <4> QED BY <1>4, <3>2, <4>1 DEF EndSet, BeginSet
    <3> QED BY <2>3, <3>1, <3>2
  <2>6. Ends' = Ends + 1 /\ Begins' = Begins
    BY <1>1, <1>2, <1>3, <2>5, FS_AddElement
  <2> QED BY <1>1, <2>1, <2>6
<1>13. CASE Leaves
  <2>1. open = 0 /\ open2 = 0 /\ EndSet' = EndSet /\ BeginSet' = BeginSet
    BY <1>13 DEF Leaves, EndSet, BeginSet
  <2> QED BY <1>1, <1>2, <1>3, <2>1
<1>14. CASE CaseRuns
  <2>1. open = open2 /\ EndSet' = EndSet /\ BeginSet' = BeginSet
    BY <1>5, <1>14 DEF CaseRuns, EndSet, BeginSet
  <2> QED BY <1>1, <1>2, <1>3, <2>1
<1> QED BY <1>9, <1>10, <1>11, <1>12, <1>13, <1>14 DEF TurnMoves

-----------------------------------------------------------------------------
(* The invariant: the conjuncts of IInv that are inductive.  The other two *)
(* follow from them in every state.                                        *)

Core ==
  /\ TypeOK /\ TurnsEndOnce /\ EventsAreStoredOnce /\ CompleteMeansPassed
  /\ Shape /\ NothingBeforeTheSession /\ CommandsHaveOneId /\ HandlersHoldTheRow
  /\ FaultlessDelivery /\ ShowsLastStatus /\ FinalStatusFollows /\ OneVerdict /\ ReceiptsAreVerdicts

Commands == [action : {"start", "message", "interrupt"}, id : Int]

LEMMA TailIs ==
  ASSUME NEW S, NEW q \in Seq(S), q # <<>>
  PROVE  /\ Tail(q) \in Seq(S) /\ Len(q) \in Nat /\ Len(q) >= 1 /\ Len(Tail(q)) = Len(q) - 1
         /\ DOMAIN q = 1..Len(q) /\ DOMAIN Tail(q) = 1..Len(q) - 1
         /\ Head(q) = q[1] /\ 1 \in DOMAIN q
         /\ \A i \in DOMAIN Tail(q) : i + 1 \in DOMAIN q /\ Tail(q)[i] = q[i + 1] /\ i + 1 # 1
<1>1. Len(q) \in Nat /\ Len(q) >= 1 /\ DOMAIN q = 1..Len(q) /\ Head(q) = q[1]
  OBVIOUS
<1>2. Tail(q) \in Seq(S) /\ Len(Tail(q)) = Len(q) - 1 /\ DOMAIN Tail(q) = 1..Len(q) - 1
  OBVIOUS
<1>3. \A i \in 1..Len(q) - 1 : Tail(q)[i] = q[i + 1]
  OBVIOUS
<1> QED BY <1>1, <1>2, <1>3

\* The commands that are left when the daemon takes one.
LEMMA CommandTaken ==
  ASSUME Shape, CommandsHaveOneId, Taken, commands' = commands
  PROVE  /\ queue' \in Seq(Commands)
         /\ \A i \in DOMAIN queue' : queue'[i].id \in (-commands)..0 /\ queue'[i].id # Head(queue).id
         /\ \A i, k \in DOMAIN queue' : queue'[i].id = queue'[k].id => i = k
         /\ \A r \in refused : Head(queue).id # r.id /\ \A i \in DOMAIN queue' : queue'[i].id # r.id
         /\ Head(queue).id \in (-commands)..0
<1>1. queue \in Seq(Commands) /\ queue # <<>> /\ queue' = Tail(queue)
  BY DEF Shape, Commands, Taken
<1>2. /\ \A i \in DOMAIN queue : queue[i].id \in (-commands)..0
      /\ \A i, k \in DOMAIN queue : queue[i].id = queue[k].id => i = k
      /\ \A r \in refused, i \in DOMAIN queue : queue[i].id # r.id
  BY DEF CommandsHaveOneId
<1>3. /\ queue' \in Seq(Commands) /\ Head(queue) = queue[1] /\ 1 \in DOMAIN queue
      /\ DOMAIN queue' = 1..Len(queue) - 1 /\ Len(queue) \in Nat
      /\ \A i \in DOMAIN queue' : i + 1 \in DOMAIN queue /\ queue'[i] = queue[i + 1] /\ i + 1 # 1
  BY <1>1, TailIs
<1>4. \A i \in DOMAIN queue' : queue'[i].id \in (-commands)..0 /\ queue'[i].id # Head(queue).id
  BY <1>2, <1>3
<1>5. \A i, k \in DOMAIN queue' : queue'[i].id = queue'[k].id => i = k
  <2> TAKE i, k \in DOMAIN queue'
  <2>1. queue'[i].id = queue'[k].id => i + 1 = k + 1
    BY <1>2, <1>3
  <2> QED BY <1>3, <2>1
<1>6. \A r \in refused : Head(queue).id # r.id /\ \A i \in DOMAIN queue' : queue'[i].id # r.id
  BY <1>2, <1>3
<1> QED BY <1>2, <1>3, <1>4, <1>5, <1>6

\* The numbers.
LEMMA NumbersAre ==
  ASSUME TypeOK, Shape
  PROVE  /\ received \in 0..Len(emitted) /\ commands \in Nat /\ faults \in Nat
         /\ Len(emitted) \in Nat /\ DOMAIN emitted = 1..Len(emitted) /\ emitted \in Seq(FrameRows)
         /\ session.events \in Seq(Int) /\ DOMAIN session.events = 1..Len(session.events)
         /\ Len(session.events) \in Nat
<1>1. received \in 0..Len(emitted)
  BY DEF TypeOK
<1>2. commands \in 0..MaxCommands /\ faults \in 0..MaxFaults
  BY DEF TypeOK
<1>3. MaxCommands \in Nat /\ MaxFaults \in Nat
  BY SessionsAssumption
<1>4. emitted \in Seq(FrameRows)
  BY DEF Shape, FrameRows
<1>5. session.events \in Seq(Int)
  BY DEF Shape, SessionRows
<1> QED BY <1>1, <1>2, <1>3, <1>4, <1>5

\* The stored events keep their status while the frames keep their kind.
LEMMA StatusesStay ==
  ASSUME TypeOK, Shape, session' = session,
         \A i \in DOMAIN emitted : i \in DOMAIN emitted' /\ emitted'[i].kind = emitted[i].kind
  PROVE  \A i \in DOMAIN session.events : StatusOf(session.events[i])' = StatusOf(session.events[i])
<1>1. received \in 0..Len(emitted) /\ commands \in Nat /\ Len(emitted) \in Nat /\ DOMAIN emitted = 1..Len(emitted)
  BY NumbersAre
<1> TAKE i \in DOMAIN session.events
<1>2. session.events[i] \in (-commands)..received
  BY DEF TypeOK, ToSet
<1>3. session.events[i] > 0 => session.events[i] \in DOMAIN emitted
  BY <1>1, <1>2
<1> QED BY <1>2, <1>3 DEF StatusOf, Kind

LEMMA StatusShownStays ==
  ASSUME TypeOK, Shape, ShowsLastStatus, session' = session, faults' = faults,
         \A i \in DOMAIN emitted : i \in DOMAIN emitted' /\ emitted'[i].kind = emitted[i].kind
  PROVE  ShowsLastStatus'
BY StatusesStay DEF ShowsLastStatus

-----------------------------------------------------------------------------
(* The daemon's turn keeps the invariant.                                  *)

Beside == UNCHANGED <<agent, session, run, received, tasks, refused, commands, faults>>

LEMMA MovesFinal ==
  ASSUME Shape, FinalStatusFollows, TurnMoves, Beside
  PROVE  FinalStatusFollows'
<1> DEFINE n == Len(emitted)
<1>1. /\ n \in Nat /\ DOMAIN emitted = 1..n /\ Len(emitted') \in Nat /\ n <= Len(emitted') /\ DOMAIN emitted' = 1..Len(emitted')
      /\ \A i \in DOMAIN emitted : emitted'[i] = emitted[i]
  BY MovesKeep
<1>2. \A x \in Turns : x # NoTurn
  BY DEF Turns, NoTurn
<1>f. faults' = faults
  BY DEF Beside
<1> SUFFICES ASSUME faults = 0, turn' = NoTurn \/ turn'.terminal,
                    NEW i \in DOMAIN emitted', emitted'[i].kind = "running"
             PROVE  \E k \in DOMAIN emitted' : k > i /\ emitted'[k].kind \in Statuses \ {"running"}
  BY <1>f DEF FinalStatusFollows
<1>3. CASE TurnBegins
  BY <1>3 DEF TurnBegins, NewTurn, NoTurn
<1>4. ASSUME turn = NoTurn \/ turn.terminal, i \in DOMAIN emitted
      PROVE  \E k \in DOMAIN emitted' : k > i /\ emitted'[k].kind \in Statuses \ {"running"}
  BY <1>1, <1>4 DEF FinalStatusFollows
<1>5. CASE Aside
  <2>1. turn = NoTurn \/ turn.terminal
    BY <1>2, <1>5 DEF Aside, SameRest
  <2>2. PICK kinds \in {<<"error", "failed">>, <<"interrupted">>} : Emit(kinds, "command")
    BY <1>5 DEF Aside
  <2> DEFINE m == Len(kinds)
  <2>3. m \in {1, 2} /\ kinds[m] \in Statuses \ {"running"} /\ m \in DOMAIN kinds /\ \A j \in DOMAIN kinds : kinds[j] # "running"
    <3>1. CASE kinds = <<"error", "failed">>
      BY <3>1 DEF Statuses
    <3>2. CASE kinds = <<"interrupted">>
      BY <3>2 DEF Statuses
    <3> QED BY <2>2, <3>1, <3>2
  <2>4. kinds \in Seq(FrameKinds)
    <3>1. <<"error", "failed">> \in FinalKinds
      BY DEF FinalKinds
    <3> QED BY <3>1, KindsAreFrames
  <2>5. DOMAIN kinds = 1..m
    BY <2>4
  <2>6. /\ DOMAIN emitted' = 1..n + m /\ \A j \in DOMAIN kinds : emitted'[n + j].kind = kinds[j]
    BY <2>2, <2>4, EmitAdds
  <2> HIDE DEF m
  <2>7. i \in DOMAIN emitted
    <3>1. CASE i \notin DOMAIN emitted
      <4>1. i - n \in DOMAIN kinds /\ n + (i - n) = i
        BY <1>1, <2>3, <2>5, <2>6, <3>1
      <4> QED BY <2>3, <2>6, <4>1
    <3> QED BY <3>1
  <2> QED BY <1>4, <2>1, <2>7
<1>6. CASE ErrorLine
  BY <1>2, <1>6 DEF ErrorLine, SameRest
<1>7. CASE TurnEnds
  <2>2. PICK kinds \in FinalKinds \cup VerdictKinds : Emit(kinds, "turn")
    BY <1>7 DEF TurnEnds
  <2> DEFINE m == Len(kinds)
  <2>1. kinds \in Seq(FrameKinds)
    BY KindsAreFrames
  <2>7. DOMAIN kinds = 1..m
    BY <2>1
  <2>3. m \in {1, 2} /\ kinds[m] \in {"completed", "failed"}
    BY KindsAreFrames
  <2>8. m \in DOMAIN kinds /\ m \in Nat /\ m > 0
    BY <2>3, <2>7
  <2>4. /\ DOMAIN emitted' = 1..n + m
        /\ \A j \in DOMAIN kinds : emitted'[n + j].kind = kinds[j]
    BY <2>1, <2>2, EmitAdds
  <2> HIDE DEF m
  <2>5. n + m \in DOMAIN emitted' /\ emitted'[n + m].kind \in Statuses \ {"running"}
    <3>1. n + m \in 1..n + m
      BY <1>1, <2>8
    <3>2. emitted'[n + m].kind = kinds[m]
      BY <2>4, <2>8
    <3> QED BY <2>3, <2>4, <3>1, <3>2 DEF Statuses
  <2>6. n + m > i
    <3>1. i # n + m
      BY <2>5
    <3>2. i \in 1..n + m
      BY <2>4
    <3> QED BY <1>1, <2>8, <3>1, <3>2
  <2> QED BY <2>5, <2>6
<1>8. CASE Leaves
  BY <1>4, <1>8 DEF Leaves
<1>9. CASE CaseRuns
  BY <1>2, <1>4, <1>9 DEF CaseRuns
<1> QED BY <1>3, <1>5, <1>6, <1>7, <1>8, <1>9 DEF TurnMoves

LEMMA MovesVerdict ==
  ASSUME Shape, OneVerdict, TurnMoves, Beside
  PROVE  OneVerdict'
<1>1. \A x \in Turns : x # NoTurn
  BY DEF Turns, NoTurn
<1>2. queue \in Seq(Commands) /\ emitted \in Seq(FrameRows)
  BY DEF Shape, Commands, FrameRows
<1>3. agent' = agent /\ commands' = commands /\ refused' = refused
  BY DEF Beside
<1> SUFFICES ASSUME agent = "verify", commands = 0
             PROVE  /\ queue' # <<>> =>
                         /\ Len(queue') = 1 /\ queue'[1].action = "start"
                         /\ emitted' = <<>> /\ turn' = NoTurn /\ refused = {}
                    /\ turn' # NoTurn => refused = {} /\ \A i \in DOMAIN emitted' : emitted'[i].kind = "running"
                    /\ refused # {} => emitted' = <<>>
                    /\ \E kinds \in Verdicts : \A i \in DOMAIN emitted' : emitted'[i].kind \in kinds
  BY <1>3 DEF OneVerdict
<1>4. /\ queue # <<>> => /\ Len(queue) = 1 /\ queue[1].action = "start"
                         /\ emitted = <<>> /\ turn = NoTurn /\ refused = {}
      /\ turn # NoTurn => refused = {} /\ \A i \in DOMAIN emitted : emitted[i].kind = "running"
      /\ refused # {} => emitted = <<>>
      /\ \E kinds \in Verdicts : \A i \in DOMAIN emitted : emitted[i].kind \in kinds
  BY DEF OneVerdict
<1>5. CASE TurnBegins
  <2> DEFINE kinds == <<"running">>
  <2>1. queue' = <<>>
    <3>1. queue' = Tail(queue) /\ queue # <<>>
      BY <1>5 DEF TurnBegins, Taken
    <3>2. Tail(queue) \in Seq(Commands) /\ Len(Tail(queue)) = Len(queue) - 1
      BY <1>2, <3>1, TailIs
    <3> QED BY <1>4, <3>1, <3>2
  <2>2. emitted = <<>> /\ refused = {}
    BY <1>4, <1>5 DEF TurnBegins, Taken
  <2>a. Len(kinds) = 1 /\ 1 \in DOMAIN kinds /\ kinds[1] = "running"
    OBVIOUS
  <2>c. kinds \in Seq(FrameKinds)
    BY KindsAreFrames
  <2>b. Emit(kinds, "turn")
    BY <1>5 DEF TurnBegins
  <2>3. DOMAIN emitted' = 1..Len(emitted) + 1 /\ emitted'[Len(emitted) + 1].kind = "running"
    <3> HIDE DEF kinds
    <3> QED BY <2>a, <2>b, <2>c, EmitAdds
  <2>4. DOMAIN emitted' = {1} /\ emitted'[1].kind = "running"
    <3>1. Len(emitted) = 0
      BY <2>2
    <3> QED BY <2>3, <3>1
  <2>5. {"running", "passed", "completed"} \in Verdicts
    BY DEF Verdicts
  <2> QED BY <2>1, <2>2, <2>4, <2>5
<1>6. CASE Aside
  <2>1. queue # <<>> /\ Head(queue) = queue[1] /\ queue' = Tail(queue)
    BY <1>2, <1>6 DEF Aside, Taken
  <2>2. Tail(queue) \in Seq(Commands) /\ Len(Tail(queue)) = Len(queue) - 1
    BY <1>2, <2>1, TailIs
  <2>3. queue' = <<>> /\ turn' = NoTurn /\ refused = {} /\ emitted = <<>>
    BY <1>4, <1>6, <2>1, <2>2 DEF Aside
  <2>4. Emit(<<"error", "failed">>, "command")
    BY <1>4, <1>6, <2>1 DEF Aside, Failure
  <2>5. \A i \in DOMAIN emitted' : emitted'[i].kind \in {"running", "error", "failed"}
    <3>1. <<"error", "failed">> \in Seq(FrameKinds)
      BY KindsAreFrames DEF FinalKinds
    <3>2. emitted' = Frames(<<"error", "failed">>, "command")
      BY <2>3, <2>4 DEF Emit, Frames
    <3> QED BY <3>1, <3>2 DEF Frames
  <2>6. {"running", "error", "failed"} \in Verdicts
    BY DEF Verdicts
  <2> QED BY <2>3, <2>5, <2>6
<1>7. CASE ErrorLine
  BY <1>7 DEF ErrorLine
<1>8. CASE TurnEnds
  <2>1. /\ queue = <<>> /\ queue' = <<>> /\ refused = {} /\ turn' = NoTurn
        /\ \A i \in DOMAIN emitted : emitted[i].kind = "running"
    BY <1>4, <1>8 DEF TurnEnds
  <2>2. PICK kinds \in VerdictKinds : Emit(kinds, "turn")
    BY <1>8 DEF TurnEnds
  <2>3. kinds \in Seq(FrameKinds)
    BY KindsAreFrames
  <2>4. DOMAIN kinds = 1..Len(kinds)
    BY <2>3
  <2>5. /\ DOMAIN emitted' = 1..Len(emitted) + Len(kinds) /\ Len(emitted) \in Nat /\ DOMAIN emitted = 1..Len(emitted)
        /\ \A i \in DOMAIN emitted : emitted'[i] = emitted[i]
        /\ \A j \in DOMAIN kinds : emitted'[Len(emitted) + j].kind = kinds[j]
    BY <2>2, <2>3, EmitAdds
  <2>6. \E ks \in Verdicts : "running" \in ks /\ \A j \in DOMAIN kinds : kinds[j] \in ks
    <3>1. CASE kinds = <<"passed", "completed">>
      <4>1. \A j \in DOMAIN kinds : kinds[j] \in {"running", "passed", "completed"}
        BY <3>1
      <4> QED BY <4>1 DEF Verdicts
    <3>2. CASE kinds = <<"not passed", "failed">>
      <4>1. \A j \in DOMAIN kinds : kinds[j] \in {"running", "not passed", "failed"}
        <5>1. Len(kinds) = 2 /\ kinds[1] = "not passed" /\ kinds[2] = "failed"
          BY <3>2
        <5>2. DOMAIN kinds = 1..2
          BY <2>4, <5>1
        <5>3. 1..2 = {1, 2}
          OBVIOUS
        <5> QED BY <5>1, <5>2, <5>3
      <4> QED BY <4>1 DEF Verdicts
    <3>3. CASE kinds = <<"error", "failed">>
      <4>1. \A j \in DOMAIN kinds : kinds[j] \in {"running", "error", "failed"}
        BY <3>3
      <4> QED BY <4>1 DEF Verdicts
    <3> QED BY <2>2, <3>1, <3>2, <3>3 DEF VerdictKinds
  <2>7. PICK ks \in Verdicts : "running" \in ks /\ \A j \in DOMAIN kinds : kinds[j] \in ks
    BY <2>6
  <2>8. ASSUME NEW i \in DOMAIN emitted' PROVE emitted'[i].kind \in ks
    <3>1. CASE i \in DOMAIN emitted
      BY <2>1, <2>5, <2>7, <3>1
    <3>2. CASE i \notin DOMAIN emitted
      <4> DEFINE m == Len(kinds)
      <4>2. m \in Nat
        BY <2>3
      <4>3. i \in 1..Len(emitted) + m /\ i \notin 1..Len(emitted)
        BY <2>5, <3>2
      <4> HIDE DEF m
      <4>4. i - Len(emitted) \in 1..m /\ Len(emitted) + (i - Len(emitted)) = i
        BY <2>5, <4>2, <4>3
      <4>1. i - Len(emitted) \in DOMAIN kinds
        BY <2>4, <4>4 DEF m
      <4> QED BY <2>5, <2>7, <4>1, <4>4
    <3> QED BY <3>1, <3>2
  <2> QED BY <2>1, <2>8
<1>9. CASE Leaves
  BY <1>4, <1>9 DEF Leaves
<1>10. CASE CaseRuns
  BY <1>4, <1>10 DEF CaseRuns
<1> QED BY <1>5, <1>6, <1>7, <1>8, <1>9, <1>10 DEF TurnMoves

LEMMA MovesReceipt ==
  ASSUME Shape, ReceiptsAreVerdicts, TurnMoves, Beside
  PROVE  ReceiptsAreVerdicts'
<1>1. agent' = agent /\ commands' = commands /\ run' = run
  BY DEF Beside
<1>2. \A i \in DOMAIN emitted : i \in DOMAIN emitted' /\ emitted'[i] = emitted[i]
  BY MovesKeep
<1>3. ASSUME agent = "verify", turn' # NoTurn PROVE ~turn'.terminal
  <2>1. turn # NoTurn => ~turn.terminal
    BY <1>3 DEF ReceiptsAreVerdicts
  <2> QED BY <1>3, <2>1 DEF TurnMoves, TurnBegins, NewTurn, Aside, ErrorLine, TurnEnds, Leaves, CaseRuns, SameRest
<1> QED BY <1>1, <1>2, <1>3 DEF ReceiptsAreVerdicts

LEMMA MovesType ==
  ASSUME TypeOK, Shape, TurnMoves, Beside
  PROVE  TypeOK'
<1>1. received \in 0..Len(emitted')
  BY NumbersAre, MovesKeep
<1>2. turn # NoTurn => turn.passed + turn.left <= Cases
  BY DEF TypeOK
<1>3. NewTurn.passed + NewTurn.left <= Cases
  BY SessionsAssumption DEF NewTurn
<1>4. turn' # NoTurn => turn'.passed + turn'.left <= Cases
  BY <1>2, <1>3 DEF TurnMoves, TurnBegins, Aside, ErrorLine, TurnEnds, Leaves, CaseRuns, SameRest
<1> QED BY <1>1, <1>4 DEF TypeOK, Beside

\* CommandsHaveOneId in two parts.
QueuedAreOne ==
  /\ \A i \in DOMAIN queue : queue[i].id \in (-commands)..0
  /\ \A i, k \in DOMAIN queue : queue[i].id = queue[k].id => i = k
  /\ \A r \in refused, i \in DOMAIN queue : queue[i].id # r.id
StoredAreRefused ==
  /\ \A r, q \in refused : r.id = q.id => r = q
  /\ \A i \in DOMAIN session.events :
       session.events[i] <= 0 => \E r \in refused : r.id = session.events[i]

LEMMA CommandParts ==
  /\ CommandsHaveOneId <=> QueuedAreOne /\ StoredAreRefused
  /\ CommandsHaveOneId' <=> QueuedAreOne' /\ StoredAreRefused'
BY Zenon DEF CommandsHaveOneId, QueuedAreOne, StoredAreRefused

LEMMA MovesShape ==
  ASSUME Shape, CommandsHaveOneId, TurnMoves, Beside
  PROVE  Shape' /\ CommandsHaveOneId'
<1>1. queue \in Seq(Commands)
  BY DEF Shape, Commands
<1>2. queue' = queue \/ Taken
  BY DEF TurnMoves, TurnBegins, Aside, ErrorLine, TurnEnds, Leaves, CaseRuns
<1>3. queue' \in Seq(Commands)
  BY <1>1, <1>2, CommandTaken DEF Beside
<1>4. emitted' \in Seq(FrameRows) /\ turn' \in Turns \cup {NoTurn}
  BY MovesKeep
<1>5. Shape'
  BY <1>3, <1>4 DEF Shape, Beside, Commands, FrameRows
<1>8. session' = session /\ refused' = refused /\ commands' = commands
  BY DEF Beside
<1>9. StoredAreRefused /\ QueuedAreOne
  BY CommandParts
<1>10. StoredAreRefused'
  BY <1>8, <1>9 DEF StoredAreRefused
<1>6. ASSUME queue' = queue PROVE QueuedAreOne'
  BY <1>6, <1>8, <1>9 DEF QueuedAreOne
<1>7. ASSUME Taken PROVE QueuedAreOne'
  <2>1. /\ \A i \in DOMAIN queue' : queue'[i].id \in (-commands)..0
        /\ \A i, k \in DOMAIN queue' : queue'[i].id = queue'[k].id => i = k
        /\ \A r \in refused : \A i \in DOMAIN queue' : queue'[i].id # r.id
    BY <1>7, <1>8, CommandTaken
  <2> QED BY <1>8, <2>1 DEF QueuedAreOne
<1>11. QueuedAreOne'
  BY <1>2, <1>6, <1>7
<1> QED BY <1>5, <1>10, <1>11, CommandParts

LEMMA MovesInvariant ==
  ASSUME Core, DaemonTurns, Beside
  PROVE  Core'
<1>1. TurnMoves
  BY DaemonTurnsMove DEF Core, ReceiptsAreVerdicts
<1>2. TypeOK' /\ Shape' /\ CommandsHaveOneId'
  BY <1>1, MovesType, MovesShape DEF Core
<1>3. TurnsEndOnce'
  BY <1>1, MovesCount DEF Core, Beside
<1>4. EventsAreStoredOnce' /\ CompleteMeansPassed' /\ HandlersHoldTheRow'
  BY DEF Core, Beside, EventsAreStoredOnce, CompleteMeansPassed, HandlersHoldTheRow
<1>5. NothingBeforeTheSession'
  <2>1. session.status # "absent"
    BY <1>1 DEF Core, NothingBeforeTheSession, TurnMoves, TurnBegins, Aside, ErrorLine, TurnEnds, Leaves, CaseRuns, Taken
  <2> QED BY <2>1 DEF Core, Beside, NothingBeforeTheSession
<1>6. FaultlessDelivery'
  <2>1. /\ \A i \in DOMAIN emitted : emitted'[i] = emitted[i]
        /\ \A i \in DOMAIN emitted' \ DOMAIN emitted : emitted'[i].sent
    BY <1>1, MovesKeep DEF Core
  <2> QED BY <2>1 DEF Core, Beside, FaultlessDelivery, Stored
<1>7. ShowsLastStatus'
  <2>1. \A i \in DOMAIN emitted : i \in DOMAIN emitted' /\ emitted'[i].kind = emitted[i].kind
    BY <1>1, MovesKeep DEF Core
  <2> QED BY <2>1, StatusShownStays DEF Core, Beside
<1>8. FinalStatusFollows' /\ OneVerdict' /\ ReceiptsAreVerdicts'
  BY <1>1, MovesFinal, MovesVerdict, MovesReceipt DEF Core
<1> QED BY <1>2, <1>3, <1>4, <1>5, <1>6, <1>7, <1>8 DEF Core

-----------------------------------------------------------------------------
(* The requests, and faults outside the API.                               *)

LEMMA RefuseKeeps ==
  ASSUME Core, Refuse
  PROVE  Core'
<1> USE DEF Core
<1>1. Taken /\ UNCHANGED <<agent, session, run, turn, emitted, received, tasks, commands, faults>>
  BY DEF Refuse, Taken
<1> DEFINE new == [id |-> Head(queue).id, step |-> "event"]
<1>2. refused' = refused \cup {new}
  BY DEF Refuse
<1>3. /\ queue' \in Seq(Commands)
      /\ \A i \in DOMAIN queue' : queue'[i].id \in (-commands)..0 /\ queue'[i].id # Head(queue).id
      /\ \A i, k \in DOMAIN queue' : queue'[i].id = queue'[k].id => i = k
      /\ \A r \in refused : Head(queue).id # r.id /\ \A i \in DOMAIN queue' : queue'[i].id # r.id
      /\ Head(queue).id \in (-commands)..0
  BY <1>1, CommandTaken
<1>4. TypeOK' /\ TurnsEndOnce'
  BY <1>1 DEF TypeOK, TurnsEndOnce, Ends, Begins, Count
<1>5. EventsAreStoredOnce' /\ CompleteMeansPassed'
  BY <1>1 DEF EventsAreStoredOnce, CompleteMeansPassed
<1>6. Shape'
  <2>1. refused \subseteq [id : (-commands)..0, step : {"event", "verify", "done"}]
    BY DEF Shape
  <2>2. refused' \subseteq [id : (-commands')..0, step : {"event", "verify", "done"}]
    BY <1>1, <1>2, <1>3, <2>1
  <2> QED BY <1>1, <1>3, <2>2 DEF Shape, Commands
<1>7. NothingBeforeTheSession'
  BY <1>1 DEF NothingBeforeTheSession, Taken
<1>8. QueuedAreOne'
  <2>1. new.id = Head(queue).id
    OBVIOUS
  <2> HIDE DEF new
  <2> QED BY <1>1, <1>2, <1>3, <2>1 DEF QueuedAreOne
<1>9. StoredAreRefused'
  <2>1. new.id = Head(queue).id
    OBVIOUS
  <2>2. StoredAreRefused
    BY CommandParts
  <2> HIDE DEF new
  <2> QED BY <1>1, <1>2, <1>3, <2>1, <2>2 DEF StoredAreRefused
<1>10. HandlersHoldTheRow'
  BY <1>1 DEF HandlersHoldTheRow
<1>11. FaultlessDelivery'
  <2>1. ~Stored(new.id)
    <3>1. new.id <= 0
      <4>1. commands \in Nat
        BY NumbersAre
      <4> QED BY <1>3, <4>1
    <3>2. ASSUME Stored(new.id) PROVE \E r \in refused : r.id = new.id
      BY <3>1, <3>2 DEF Stored, ToSet, CommandsHaveOneId
    <3> QED BY <1>3, <3>2
  <2> HIDE DEF new
  <2> QED BY <1>1, <1>2, <2>1 DEF FaultlessDelivery, Stored
<1>12. ShowsLastStatus' /\ FinalStatusFollows'
  BY <1>1 DEF ShowsLastStatus, StatusOf, Kind, FinalStatusFollows
<1>13. OneVerdict'
  <2>1. ASSUME agent = "verify", commands = 0 PROVE queue' = <<>> /\ emitted = <<>> /\ turn = NoTurn
    <3>1. queue # <<>> /\ queue' = Tail(queue) /\ queue \in Seq(Commands)
      BY <1>1 DEF Taken, Shape, Commands
    <3>2. Len(queue) = 1 /\ emitted = <<>> /\ turn = NoTurn
      BY <2>1, <3>1 DEF OneVerdict
    <3>3. Tail(queue) \in Seq(Commands) /\ Len(Tail(queue)) = Len(queue) - 1
      BY <3>1, TailIs
    <3> QED BY <3>1, <3>2, <3>3
  <2> QED BY <1>1, <2>1 DEF OneVerdict
<1>14. ReceiptsAreVerdicts'
  BY <1>1 DEF ReceiptsAreVerdicts
<1> QED BY <1>4, <1>5, <1>6, <1>7, <1>8, <1>9, <1>10, <1>11, <1>12, <1>13, <1>14, CommandParts

LEMMA RequestKeeps ==
  ASSUME Core, NEW action \in {"message", "interrupt"}, Request(action)
  PROVE  Core'
<1> USE DEF Core
<1>1. UNCHANGED <<agent, session, run, turn, emitted, received, tasks, refused, faults>>
  BY DEF Request
<1> DEFINE new == [action |-> action, id |-> -(commands + 1)]
<1>2. commands' = commands + 1 /\ queue' = Append(queue, new) /\ commands' \in 0..MaxCommands /\ session # Absent
  <2>1. commands \in 0..MaxCommands /\ MaxCommands \in Nat
    BY SessionsAssumption DEF TypeOK
  <2> QED BY <2>1 DEF Request
<1>n. commands \in Nat /\ commands' # 0 /\ (-commands)..0 \subseteq (-commands')..0
  <2>1. commands \in Nat
    BY NumbersAre
  <2> QED BY <1>2, <2>1
<1>3. queue \in Seq(Commands) /\ new \in Commands /\ new.id = -(commands + 1)
  BY <1>n DEF Shape, Commands
<1> HIDE DEF new
<1>4. /\ queue' \in Seq(Commands) /\ Len(queue) \in Nat /\ DOMAIN queue = 1..Len(queue)
      /\ DOMAIN queue' = 1..Len(queue) + 1 /\ queue'[Len(queue) + 1] = new
      /\ \A i \in DOMAIN queue : queue'[i] = queue[i]
  BY <1>2, <1>3
<1>5. TypeOK'
  <2>1. ToSet(session.events) \subseteq (-commands')..received
    <3>1. ToSet(session.events) \subseteq (-commands)..received
      BY DEF TypeOK
    <3>2. received \in 0..Len(emitted)
      BY NumbersAre
    <3>3. (-commands)..received \subseteq (-commands')..received
      BY <1>2, <1>n, <3>2
    <3> QED BY <3>1, <3>3
  <2> QED BY <1>1, <1>2, <2>1 DEF TypeOK
<1>6. TurnsEndOnce' /\ EventsAreStoredOnce' /\ CompleteMeansPassed'
  BY <1>1 DEF TurnsEndOnce, Ends, Begins, Count, EventsAreStoredOnce, CompleteMeansPassed
<1>7. Shape'
  <2>1. refused' \subseteq [id : (-commands')..0, step : {"event", "verify", "done"}]
    BY <1>1, <1>n DEF Shape
  <2> QED BY <1>1, <1>4, <2>1 DEF Shape, Commands
<1>8. NothingBeforeTheSession'
  BY <1>1, <1>2 DEF NothingBeforeTheSession
<1>9. StoredAreRefused'
  BY <1>1, CommandParts DEF StoredAreRefused
<1>10. QueuedAreOne'
  <2>1. \A i \in DOMAIN queue : queue[i].id \in (-commands)..0 /\ queue[i].id # new.id
    BY <1>3, <1>n DEF CommandsHaveOneId
  <2>2. \A i \in DOMAIN queue' : i \in DOMAIN queue \/ i = Len(queue) + 1
    BY <1>4
  <2>3. \A i, k \in DOMAIN queue : queue[i].id = queue[k].id => i = k
    BY DEF CommandsHaveOneId
  <2>4. \A i, k \in DOMAIN queue' : queue'[i].id = queue'[k].id => i = k
    BY <1>4, <2>1, <2>2, <2>3
  <2>5. \A i \in DOMAIN queue' : queue'[i].id \in (-commands')..0
    BY <1>2, <1>3, <1>4, <1>n, <2>1, <2>2
  <2>6. \A r \in refused' : \A i \in DOMAIN queue' : queue'[i].id # r.id
    <3>1. \A r \in refused : r.id # new.id
      BY <1>3, <1>n DEF Shape
    <3>2. \A r \in refused, i \in DOMAIN queue : queue[i].id # r.id
      BY DEF CommandsHaveOneId
    <3> QED BY <1>1, <1>4, <2>2, <3>1, <3>2
  <2> QED BY <2>4, <2>5, <2>6 DEF QueuedAreOne
<1>11. HandlersHoldTheRow' /\ FaultlessDelivery'
  BY <1>1 DEF HandlersHoldTheRow, FaultlessDelivery, Stored
<1>12. ShowsLastStatus' /\ FinalStatusFollows'
  BY <1>1 DEF ShowsLastStatus, StatusOf, Kind, FinalStatusFollows
<1>13. OneVerdict' /\ ReceiptsAreVerdicts'
  BY <1>1, <1>n DEF OneVerdict, ReceiptsAreVerdicts
<1> QED BY <1>5, <1>6, <1>7, <1>8, <1>9, <1>10, <1>11, <1>12, <1>13, CommandParts

LEMMA CreateKeeps ==
  ASSUME Core, CreateSession \/ CreateVerification
  PROVE  Core'
<1> USE DEF Core
<1> DEFINE first == [action |-> "start", id |-> 0]
<1>1. /\ UNCHANGED <<agent, turn, emitted, received, tasks, refused, commands, faults>>
      /\ session = Absent /\ session' = [Absent EXCEPT !.status = "queued"] /\ queue' = <<first>>
      /\ run' = IF agent = "verify" THEN [Absent EXCEPT !.status = "queued"] ELSE run
  BY DEF CreateSession, CreateVerification
<1>2. turn = NoTurn /\ emitted = <<>> /\ refused = {} /\ commands = 0
  BY <1>1 DEF NothingBeforeTheSession, Absent
<1>3. received = 0 /\ tasks = {}
  <2>1. received = 0
    <3>1. Len(emitted) = 0
      BY <1>2
    <3> QED BY <3>1, NumbersAre
  <2> QED BY <2>1 DEF Shape
<1>4. session' = [status |-> "queued", events |-> <<>>, receipt |-> "none"]
  BY <1>1 DEF Absent
<1>5. run = Absent
  BY <1>1 DEF TypeOK
<1>6. /\ agent # "verify" => run' = Absent
      /\ agent = "verify" => run' = [status |-> "queued", events |-> <<>>, receipt |-> "none"]
  BY <1>1, <1>5 DEF Absent
<1>e. DOMAIN session'.events = {} /\ ToSet(session'.events) = {}
  BY <1>4 DEF ToSet
<1>7. TypeOK'
  <2>1. received' \in 0..Len(emitted') /\ commands' \in 0..MaxCommands /\ faults' \in 0..MaxFaults
    BY <1>1 DEF TypeOK
  <2>2. session' # Absent /\ (run' = Absent <=> agent # "verify")
    BY <1>4, <1>6 DEF Absent
  <2>3. session'.status = "queued" /\ run'.status \in {"absent", "queued"} /\ run'.receipt = "none"
    BY <1>4, <1>6 DEF Absent
  <2> QED BY <1>1, <1>2, <1>e, <2>1, <2>2, <2>3 DEF TypeOK
<1>8. TurnsEndOnce' /\ FinalStatusFollows'
  BY <1>1 DEF TurnsEndOnce, Ends, Begins, Count, FinalStatusFollows
<1>9. EventsAreStoredOnce'
  BY <1>1, <1>3, <1>e DEF EventsAreStoredOnce, IsInjective
<1>10. CompleteMeansPassed' /\ NothingBeforeTheSession' /\ ReceiptsAreVerdicts'
  BY <1>1, <1>2, <1>4, <1>6 DEF CompleteMeansPassed, NothingBeforeTheSession, ReceiptsAreVerdicts, Absent
<1>11. Shape'
  <2>1. queue' \in Seq(Commands)
    BY <1>1 DEF Commands
  <2>2. session' \in SessionRows
    BY <1>4 DEF SessionRows
  <2>3. run' \in RunRows
    <3>1. Absent \in RunRows
      BY DEF RunRows, Absent
    <3>2. [status |-> "queued", events |-> <<>>, receipt |-> "none"] \in RunRows
      BY DEF RunRows
    <3> QED BY <1>6, <3>1, <3>2
  <2> QED BY <1>1, <2>1, <2>2, <2>3 DEF Shape, Commands
<1>12. CommandsHaveOneId'
  <2>1. DOMAIN queue' = {1} /\ queue'[1].id = 0
    BY <1>1
  <2>2. QueuedAreOne'
    BY <1>1, <1>2, <2>1 DEF QueuedAreOne
  <2>3. StoredAreRefused'
    BY <1>1, <1>2, <1>e DEF StoredAreRefused
  <2> QED BY <2>2, <2>3, CommandParts
<1>13. HandlersHoldTheRow' /\ FaultlessDelivery'
  BY <1>1, <1>2, <1>3 DEF HandlersHoldTheRow, FaultlessDelivery
<1>14. ShowsLastStatus'
  BY <1>4, <1>e DEF ShowsLastStatus
<1>15. OneVerdict'
  <2>1. Len(queue') = 1 /\ queue'[1].action = "start"
    BY <1>1
  <2>2. Verdicts # {}
    BY DEF Verdicts
  <2> QED BY <1>1, <1>2, <2>1, <2>2 DEF OneVerdict
<1> QED BY <1>7, <1>8, <1>9, <1>10, <1>11, <1>12, <1>13, <1>14, <1>15

LEMMA LoseFrameKeeps ==
  ASSUME Core, LoseFrame
  PROVE  Core'
<1> USE DEF Core
<1> DEFINE n == Len(emitted)
<1>1. /\ UNCHANGED <<agent, session, run, queue, turn, received, tasks, refused, commands>>
      /\ n > 0 /\ emitted' = [emitted EXCEPT ![n].sent = FALSE] /\ faults' # 0 /\ faults' \in 0..MaxFaults
  <2>1. faults \in 0..MaxFaults /\ MaxFaults \in Nat
    BY SessionsAssumption DEF TypeOK
  <2>2. received \in 0..n /\ n \in Nat
    BY NumbersAre
  <2> QED BY <2>1, <2>2 DEF LoseFrame, Fault
<1>2. emitted \in Seq(FrameRows) /\ n \in Nat /\ DOMAIN emitted = 1..n
  BY NumbersAre
<1>3. /\ emitted' \in Seq(FrameRows) /\ Len(emitted') = n /\ DOMAIN emitted' = DOMAIN emitted
      /\ \A i \in DOMAIN emitted : emitted'[i].kind = emitted[i].kind /\ emitted'[i].by = emitted[i].by
  <2> DEFINE last == [emitted[n] EXCEPT !.sent = FALSE]
  <2>1. n \in DOMAIN emitted
    BY <1>1, <1>2
  <2>2. last \in FrameRows /\ last.kind = emitted[n].kind /\ last.by = emitted[n].by
    <3>1. emitted[n] \in FrameRows
      BY <1>2, <2>1
    <3> QED BY <3>1 DEF FrameRows
  <2>3. emitted' = [emitted EXCEPT ![n] = last]
    BY <1>1, <2>1
  <2> HIDE DEF last
  <2> QED BY <1>2, <2>1, <2>2, <2>3
<1>4. TypeOK'
  BY <1>1, <1>3 DEF TypeOK
<1>5. TurnsEndOnce'
  <2>1. EndSet' = EndSet /\ BeginSet' = BeginSet
    BY <1>3 DEF EndSet, BeginSet
  <2>2. Ends' = Cardinality(EndSet') /\ Begins' = Cardinality(BeginSet')
    BY DEF Ends, Begins, Count, EndSet, BeginSet
  <2>3. Ends' = Ends /\ Begins' = Begins
    BY <2>1, <2>2, CountsAreSizes
  <2> QED BY <1>1, <2>3 DEF TurnsEndOnce
<1>6. EventsAreStoredOnce' /\ CompleteMeansPassed'
  BY <1>1 DEF EventsAreStoredOnce, CompleteMeansPassed
<1>7. Shape'
  BY <1>1, <1>3 DEF Shape, FrameRows
<1>8. NothingBeforeTheSession'
  <2>1. session.status # "absent"
    <3>1. emitted # <<>>
      BY <1>1
    <3> QED BY <3>1 DEF NothingBeforeTheSession
  <2> QED BY <1>1, <2>1 DEF NothingBeforeTheSession
<1>9. CommandsHaveOneId' /\ HandlersHoldTheRow'
  BY <1>1 DEF CommandsHaveOneId, HandlersHoldTheRow
<1>10. FaultlessDelivery' /\ ShowsLastStatus' /\ FinalStatusFollows'
  BY <1>1 DEF FaultlessDelivery, ShowsLastStatus, FinalStatusFollows
<1>11. OneVerdict'
  <2>1. emitted # <<>>
    BY <1>1
  <2> HIDE DEF n
  <2> QED BY <1>1, <1>3, <2>1 DEF OneVerdict
<1>12. ReceiptsAreVerdicts'
  BY <1>1, <1>3 DEF ReceiptsAreVerdicts
<1> QED BY <1>4, <1>5, <1>6, <1>7, <1>8, <1>9, <1>10, <1>11, <1>12

LEMMA CrashKeeps ==
  ASSUME Core, Crash
  PROVE  Core'
<1> USE DEF Core
<1>1. /\ UNCHANGED <<agent, session, run, queue, emitted, received, tasks, refused, commands>>
      /\ turn # NoTurn /\ turn' = NoTurn /\ faults' # 0 /\ faults' \in 0..MaxFaults
  <2>1. faults \in 0..MaxFaults /\ MaxFaults \in Nat
    BY SessionsAssumption DEF TypeOK
  <2> QED BY <2>1 DEF Crash, Fault
<1>2. TypeOK'
  BY <1>1 DEF TypeOK
<1>3. TurnsEndOnce'
  <2>1. Ends' = Ends /\ Begins' = Begins
    BY <1>1 DEF Ends, Begins, Count
  <2>2. Ends \in Nat /\ Begins \in Nat
    BY SetsAreFinite
  <2>3. Ends <= Begins
    <3>1. Ends + (IF turn # NoTurn /\ ~turn.terminal THEN 1 ELSE 0) <= Begins
      BY DEF TurnsEndOnce
    <3> QED BY <2>2, <3>1
  <2> QED BY <1>1, <2>1, <2>2, <2>3 DEF TurnsEndOnce
<1>4. EventsAreStoredOnce' /\ CompleteMeansPassed'
  BY <1>1 DEF EventsAreStoredOnce, CompleteMeansPassed
<1>5. Shape' /\ NothingBeforeTheSession'
  BY <1>1 DEF Shape, NothingBeforeTheSession
<1>6. CommandsHaveOneId' /\ HandlersHoldTheRow'
  BY <1>1 DEF CommandsHaveOneId, HandlersHoldTheRow
<1>7. FaultlessDelivery' /\ ShowsLastStatus' /\ FinalStatusFollows'
  BY <1>1 DEF FaultlessDelivery, ShowsLastStatus, FinalStatusFollows
<1>8. OneVerdict' /\ ReceiptsAreVerdicts'
  BY <1>1 DEF OneVerdict, ReceiptsAreVerdicts
<1> QED BY <1>2, <1>3, <1>4, <1>5, <1>6, <1>7, <1>8

-----------------------------------------------------------------------------
(* The handlers of the API.                                                *)

Tasks == [id : 1..received, step : {"read", "write", "verify"}, seen : SessionRows]

\* What holds whatever a handler does: the frames and the turn are the same.
ApiStep ==
  /\ UNCHANGED <<agent, queue, turn, emitted, commands>>
  /\ faults' \in 0..MaxFaults /\ (faults' = 0 => faults = 0)

LEMMA FramesStay ==
  ASSUME Core, ApiStep
  PROVE  TurnsEndOnce' /\ FinalStatusFollows'
<1> USE DEF Core
<1>1. turn' = turn /\ emitted' = emitted /\ (faults' = 0 => faults = 0)
  BY DEF ApiStep
<1>2. FinalStatusFollows'
  BY <1>1 DEF FinalStatusFollows
<1>3. Ends' = Ends /\ Begins' = Begins
  BY <1>1 DEF Ends, Begins, Count
<1>4. TurnsEndOnce'
  BY <1>1, <1>3 DEF TurnsEndOnce
<1> QED BY <1>2, <1>4

\* A handler that runs has received a frame, so that there is a session.
LEMMA TaskHasSession ==
  ASSUME Core, NEW t \in tasks
  PROVE  /\ session.status # "absent" /\ t \in Tasks /\ t.id \in DOMAIN emitted /\ t.id \in 1..received
         /\ emitted # <<>> /\ emitted[t.id].kind \in FrameKinds /\ t.id \in Int /\ t.id > 0
<1> USE DEF Core
<1>1. tasks \subseteq Tasks
  BY DEF Shape, Tasks
<1>2. received \in 0..Len(emitted) /\ emitted \in Seq(FrameRows) /\ Len(emitted) \in Nat /\ DOMAIN emitted = 1..Len(emitted)
  BY NumbersAre
<1>3. t \in Tasks /\ t.id \in 1..received
  BY <1>1 DEF Tasks
<1>4. t.id \in DOMAIN emitted /\ emitted # <<>>
  BY <1>2, <1>3
<1>5. emitted[t.id] \in FrameRows
  BY <1>2, <1>4
<1>6. session.status # "absent"
  BY <1>4 DEF NothingBeforeTheSession
<1> QED BY <1>2, <1>3, <1>4, <1>5, <1>6 DEF FrameRows

LEMMA TaskMoves ==
  ASSUME NEW T, NEW n, T \subseteq [id : 1..n, step : {"read", "write", "verify"}, seen : SessionRows], NEW t \in T,
         NEW step \in {"write", "verify"}, NEW seen \in SessionRows
  PROVE  LET m == [t EXCEPT !.step = step, !.seen = seen]
         IN  m.id = t.id /\ m.step = step /\ m.seen = seen
             /\ m \in [id : 1..n, step : {"read", "write", "verify"}, seen : SessionRows]
<1>1. t \in [id : 1..n, step : {"read", "write", "verify"}, seen : SessionRows]
  OBVIOUS
<1> QED BY <1>1

LEMMA AbsentIsRow == Absent \in SessionRows /\ Absent.status = "absent"
BY DEF Absent, SessionRows

LEMMA ReceiveKeeps ==
  ASSUME Core, Receive
  PROVE  Core'
<1> USE DEF Core
<1>1. UNCHANGED <<agent, session, run, queue, turn, emitted, refused, commands, faults>> /\ received < Len(emitted)
      /\ received' = received + 1
  BY DEF Receive
<1> DEFINE new == [id |-> received + 1, step |-> "read", seen |-> Absent]
<1>2. tasks' = IF emitted[received'].sent THEN tasks \cup {new} ELSE tasks
  BY <1>1 DEF Receive
<1>3. new.id = received + 1 /\ new.step = "read" /\ new.seen = Absent
  OBVIOUS
<1>4. received \in Nat /\ Len(emitted) \in Nat /\ received \in 0..Len(emitted) /\ DOMAIN emitted = 1..Len(emitted)
  BY NumbersAre
<1>5. tasks \subseteq Tasks /\ \A t \in tasks : t.id \in 1..received
  BY DEF Shape, Tasks
<1>6. ToSet(session.events) \subseteq (-commands)..received
  BY DEF TypeOK
<1>7. new \in [id : 1..received', step : {"read", "write", "verify"}, seen : SessionRows]
  BY <1>1, <1>4, AbsentIsRow
<1>8. tasks' \subseteq [id : 1..received', step : {"read", "write", "verify"}, seen : SessionRows]
  <2>1. 1..received \subseteq 1..received'
    BY <1>1, <1>4
  <2> HIDE DEF new
  <2>2. tasks \subseteq [id : 1..received', step : {"read", "write", "verify"}, seen : SessionRows]
    BY <1>5, <2>1 DEF Tasks
  <2> QED BY <1>2, <1>7, <2>2
<1> HIDE DEF new
<1>9. TypeOK'
  <2>1. ToSet(session.events) \subseteq (-commands)..received'
    BY <1>1, <1>4, <1>6
  <2>2. received' \in 0..Len(emitted)
    BY <1>1, <1>4
  <2> QED BY <1>1, <2>1, <2>2 DEF TypeOK
<1>10. TurnsEndOnce' /\ FinalStatusFollows'
  <2>1. faults \in 0..MaxFaults
    BY DEF TypeOK
  <2> QED BY <1>1, <2>1, FramesStay DEF ApiStep
<1>11. EventsAreStoredOnce'
  <2>1. IsInjective(session.events)
    BY DEF EventsAreStoredOnce
  <2>2. \A t \in tasks' : t.step = "verify" => t.id \in ToSet(session.events)
    BY <1>2, <1>3 DEF EventsAreStoredOnce
  <2>3. ASSUME faults = 0, NEW i \in 1..received' PROVE i \in ToSet(session.events) \/ \E t \in tasks' : t.id = i
    <3>1. CASE i = received'
      <4>1. emitted[received'].sent
        BY <1>1, <1>4, <2>3 DEF FaultlessDelivery
      <4> QED BY <1>1, <1>2, <1>3, <3>1, <4>1
    <3>2. CASE i # received'
      <4>1. i \in 1..received
        BY <1>1, <1>4, <3>2
      <4>2. i \in ToSet(session.events) \/ \E t \in tasks : t.id = i
        BY <2>3, <4>1 DEF EventsAreStoredOnce
      <4> QED BY <1>2, <4>2
    <3> QED BY <3>1, <3>2
  <2> QED BY <1>1, <2>1, <2>2, <2>3 DEF EventsAreStoredOnce
<1>12. CompleteMeansPassed' /\ NothingBeforeTheSession' /\ CommandsHaveOneId' /\ FaultlessDelivery'
  BY <1>1 DEF CompleteMeansPassed, NothingBeforeTheSession, CommandsHaveOneId, FaultlessDelivery, Stored
<1>13. Shape'
  BY <1>1, <1>8 DEF Shape
<1>14. HandlersHoldTheRow'
  <2>1. \A t \in tasks : t.id # new.id
    BY <1>3, <1>4, <1>5
  <2>2. new.id \notin ToSet(session.events)
    <3>1. new.id \notin (-commands)..received
      BY <1>3, <1>4
    <3> QED BY <1>6, <3>1
  <2>3. \A t, u \in tasks' : t.id = u.id \/ (t.step = "write" /\ u.step = "write") => t = u
    BY <1>2, <1>3, <2>1 DEF HandlersHoldTheRow
  <2>4. \A t \in tasks' : t.step = "write" => t.seen = session
    BY <1>2, <1>3 DEF HandlersHoldTheRow
  <2>5. \A t \in tasks' : t.step # "verify" => t.id \notin ToSet(session.events)
    BY <1>2, <2>2 DEF HandlersHoldTheRow
  <2> QED BY <1>1, <2>3, <2>4, <2>5 DEF HandlersHoldTheRow
<1>15. ShowsLastStatus'
  BY <1>1 DEF ShowsLastStatus, StatusOf, Kind
<1>16. OneVerdict' /\ ReceiptsAreVerdicts'
  BY <1>1 DEF OneVerdict, ReceiptsAreVerdicts
<1> QED BY <1>9, <1>10, <1>11, <1>12, <1>13, <1>14, <1>15, <1>16

LEMMA ReadKeeps ==
  ASSUME Core, NEW t \in tasks, ReadSession(t)
  PROVE  Core'
<1> USE DEF Core
<1>1. UNCHANGED <<agent, session, run, queue, turn, emitted, received, refused, commands, faults>>
  BY DEF ReadSession
<1> DEFINE m == [t EXCEPT !.step = "write", !.seen = session]
<1>2. tasks' = (tasks \ {t}) \cup {m} /\ t.step = "read" /\ \A u \in tasks : u.step # "write"
  BY DEF ReadSession, Move, RowLocked
<1>3. tasks \subseteq Tasks /\ session \in SessionRows
  BY DEF Shape, Tasks
<1>4. m.id = t.id /\ m.step = "write" /\ m.seen = session /\ m \in Tasks
  BY <1>3, TaskMoves DEF Tasks
<1> HIDE DEF m
<1>5. TypeOK'
  BY <1>1 DEF TypeOK
<1>6. TurnsEndOnce' /\ FinalStatusFollows'
  <2>1. faults \in 0..MaxFaults
    BY DEF TypeOK
  <2> QED BY <1>1, <2>1, FramesStay DEF ApiStep
<1>7. EventsAreStoredOnce'
  <2>1. \A u \in tasks' : u.step = "verify" => u.id \in ToSet(session.events)
    BY <1>2, <1>4 DEF EventsAreStoredOnce
  <2>2. \A i : (\E u \in tasks : u.id = i) => \E u \in tasks' : u.id = i
    BY <1>2, <1>4
  <2> QED BY <1>1, <2>1, <2>2 DEF EventsAreStoredOnce
<1>8. CompleteMeansPassed' /\ NothingBeforeTheSession' /\ CommandsHaveOneId' /\ FaultlessDelivery'
  BY <1>1 DEF CompleteMeansPassed, NothingBeforeTheSession, CommandsHaveOneId, FaultlessDelivery, Stored
<1>9. Shape'
  <2>1. tasks' \subseteq [id : 1..received', step : {"read", "write", "verify"}, seen : SessionRows]
    BY <1>1, <1>2, <1>3, <1>4 DEF Tasks
  <2> QED BY <1>1, <2>1 DEF Shape
<1>10. HandlersHoldTheRow'
  <2>1. \A u, v \in tasks' : u.id = v.id \/ (u.step = "write" /\ v.step = "write") => u = v
    BY <1>2, <1>4 DEF HandlersHoldTheRow
  <2>2. \A u \in tasks' : u.step = "write" => u.seen = session
    BY <1>2, <1>4
  <2>3. \A u \in tasks' : u.step # "verify" => u.id \notin ToSet(session.events)
    BY <1>2, <1>4 DEF HandlersHoldTheRow
  <2> QED BY <1>1, <2>1, <2>2, <2>3 DEF HandlersHoldTheRow
<1>11. ShowsLastStatus' /\ OneVerdict' /\ ReceiptsAreVerdicts'
  BY <1>1 DEF ShowsLastStatus, StatusOf, Kind, OneVerdict, ReceiptsAreVerdicts
<1> QED BY <1>5, <1>6, <1>7, <1>8, <1>9, <1>10, <1>11

LEMMA HandlerFailsKeeps ==
  ASSUME Core, NEW t \in tasks, HandlerFails(t)
  PROVE  Core'
<1> USE DEF Core
<1>1. /\ UNCHANGED <<agent, session, run, queue, turn, emitted, received, refused, commands>>
      /\ tasks' = tasks \ {t} /\ faults' # 0 /\ faults' \in 0..MaxFaults
  <2>1. faults \in 0..MaxFaults /\ MaxFaults \in Nat
    BY SessionsAssumption DEF TypeOK
  <2> QED BY <2>1 DEF HandlerFails, Fault
<1>2. TypeOK'
  BY <1>1 DEF TypeOK
<1>3. TurnsEndOnce' /\ FinalStatusFollows'
  BY <1>1, FramesStay DEF ApiStep
<1>4. EventsAreStoredOnce' /\ CompleteMeansPassed'
  BY <1>1 DEF EventsAreStoredOnce, CompleteMeansPassed
<1>5. Shape' /\ NothingBeforeTheSession'
  BY <1>1 DEF Shape, NothingBeforeTheSession
<1>6. CommandsHaveOneId' /\ FaultlessDelivery' /\ ShowsLastStatus'
  BY <1>1 DEF CommandsHaveOneId, FaultlessDelivery, ShowsLastStatus
<1>7. HandlersHoldTheRow'
  BY <1>1 DEF HandlersHoldTheRow
<1>8. OneVerdict' /\ ReceiptsAreVerdicts'
  BY <1>1 DEF OneVerdict, ReceiptsAreVerdicts
<1> QED BY <1>2, <1>3, <1>4, <1>5, <1>6, <1>7, <1>8

\* An event is appended, and a status it has is shown.
LEMMA StoredMore ==
  ASSUME NEW s \in SessionRows, NEW id \in Int, NEW kind \in FrameKinds
  PROVE  /\ WithEvent(s, id, kind) \in SessionRows
         /\ WithEvent(s, id, kind).events = Append(s.events, id)
         /\ WithEvent(s, id, kind).status = (IF kind \in Statuses THEN kind ELSE s.status)
         /\ Len(s.events) \in Nat /\ DOMAIN s.events = 1..Len(s.events)
         /\ DOMAIN WithEvent(s, id, kind).events = 1..Len(s.events) + 1
         /\ \A i \in DOMAIN s.events : WithEvent(s, id, kind).events[i] = s.events[i]
         /\ WithEvent(s, id, kind).events[Len(s.events) + 1] = id
         /\ ToSet(WithEvent(s, id, kind).events) = ToSet(s.events) \cup {id}
         /\ IsInjective(s.events) /\ id \notin ToSet(s.events) => IsInjective(WithEvent(s, id, kind).events)
<1> DEFINE w == WithEvent(s, id, kind)
           e == Append(s.events, id)
           st == IF kind \in Statuses THEN kind ELSE s.status
           n == Len(s.events)
<1>1. s.events \in Seq(Int) /\ s.status \in Statuses \cup {"absent", "queued"} /\ s.receipt = "none"
  BY DEF SessionRows
<1>2. /\ e \in Seq(Int) /\ n \in Nat /\ DOMAIN s.events = 1..n /\ DOMAIN e = 1..n + 1
      /\ \A i \in DOMAIN s.events : e[i] = s.events[i]
      /\ e[n + 1] = id
  BY <1>1
<1>3. st \in Statuses \cup {"absent", "queued"}
  BY <1>1
<1>4. w = [s EXCEPT !.events = e, !.status = st]
  BY DEF WithEvent
<1> HIDE DEF e, st
<1>5. w \in SessionRows /\ w.events = e /\ w.status = st
  BY <1>1, <1>2, <1>3, <1>4 DEF SessionRows
<1> HIDE DEF w
<1>6. ToSet(e) = ToSet(s.events) \cup {id}
  <2>1. DOMAIN e = DOMAIN s.events \cup {n + 1}
    BY <1>2
  <2> HIDE DEF n
  <2> QED BY <1>2, <2>1 DEF ToSet
<1>7. ASSUME IsInjective(s.events), id \notin ToSet(s.events) PROVE IsInjective(e)
  <2>1. DOMAIN e = DOMAIN s.events \cup {n + 1} /\ n + 1 \notin DOMAIN s.events
    BY <1>2
  <2> HIDE DEF n
  <2>2. \A i \in DOMAIN s.events : s.events[i] # id
    BY <1>7 DEF ToSet
  <2>3. ASSUME NEW i \in DOMAIN e, NEW k \in DOMAIN e, e[i] = e[k] PROVE i = k
    <3>1. \A x, y \in DOMAIN s.events : s.events[x] = s.events[y] => x = y
      BY <1>7 DEF IsInjective
    <3> QED BY <1>2, <2>1, <2>2, <2>3, <3>1
  <2> QED BY <2>3 DEF IsInjective
<1> QED BY <1>2, <1>5, <1>6, <1>7 DEF w, e, st

\* The session shows the event it stored last, when that has a status.
LEMMA StatusShownFollows ==
  ASSUME Core, NEW id \in Int, id > 0 => id \in DOMAIN emitted, session' = WithEvent(session, id, StatusOf(id)),
         emitted' = emitted, faults' = 0 => faults = 0, session.status # "absent"
  PROVE  ShowsLastStatus'
<1> USE DEF Core
<1> DEFINE e == session.events
           n == Len(session.events)
<1>1. session \in SessionRows /\ emitted \in Seq(FrameRows)
  BY NumbersAre DEF Shape
<1>2. StatusOf(id) \in FrameKinds
  <2>1. id > 0 => emitted[id] \in FrameRows
    BY <1>1
  <2> QED BY <2>1 DEF StatusOf, Kind, FrameRows, FrameKinds, Statuses
<1>3. /\ session'.status = (IF StatusOf(id) \in Statuses THEN StatusOf(id) ELSE session.status)
      /\ n \in Nat /\ DOMAIN e = 1..n /\ DOMAIN session'.events = 1..n + 1
      /\ \A i \in DOMAIN e : session'.events[i] = e[i]
      /\ session'.events[n + 1] = id
  BY <1>1, <1>2, StoredMore
<1>4. DOMAIN session'.events = DOMAIN e \cup {n + 1} /\ \A i \in DOMAIN e : n + 1 > i /\ ~ i > n + 1
  BY <1>3
<1>5. \A x : StatusOf(x)' = StatusOf(x)
  BY DEF StatusOf, Kind
<1>6. SUFFICES ASSUME faults = 0
               PROVE  \/ /\ session'.status = "queued"
                         /\ \A i \in DOMAIN session'.events : StatusOf(session'.events[i]) \notin Statuses
                      \/ \E i \in DOMAIN session'.events :
                           /\ session'.status = StatusOf(session'.events[i])
                           /\ \A k \in DOMAIN session'.events :
                                k > i => StatusOf(session'.events[k]) \notin Statuses
  BY <1>5, ZenonT(30) DEF ShowsLastStatus, StatusOf, Kind
<1> HIDE DEF n
<1>7. CASE StatusOf(id) \in Statuses
  <2>1. \A k \in DOMAIN session'.events : ~ k > n + 1
    BY <1>3, <1>4
  <2> QED BY <1>3, <1>4, <1>7, <2>1
<1>8. CASE StatusOf(id) \notin Statuses
  <2>1. session'.status = session.status
    BY <1>3, <1>8
  <2>2. CASE /\ session.status = "queued"
             /\ \A i \in DOMAIN e : StatusOf(e[i]) \notin Statuses
    BY <1>3, <1>4, <1>8, <2>1, <2>2
  <2>3. ASSUME NEW i \in DOMAIN e, session.status = StatusOf(e[i]),
               \A k \in DOMAIN e : k > i => StatusOf(e[k]) \notin Statuses
        PROVE  \E j \in DOMAIN session'.events :
                 /\ session'.status = StatusOf(session'.events[j])
                 /\ \A k \in DOMAIN session'.events :
                      k > j => StatusOf(session'.events[k]) \notin Statuses
    <3>1. i \in DOMAIN session'.events /\ session'.status = StatusOf(session'.events[i])
      BY <1>3, <1>4, <2>1, <2>3
    <3>2. \A k \in DOMAIN session'.events : k > i => StatusOf(session'.events[k]) \notin Statuses
      BY <1>3, <1>4, <1>8, <2>3
    <3> QED BY <3>1, <3>2
  <2> QED BY <1>6, <2>2, <2>3 DEF ShowsLastStatus
<1> QED BY <1>7, <1>8

LEMMA WriteKeeps ==
  ASSUME Core, NEW t \in tasks, WriteSession(t)
  PROVE  Core'
<1> USE DEF Core
<1>1. UNCHANGED <<agent, run, queue, turn, emitted, received, refused, commands, faults>> /\ t.step = "write"
  BY DEF WriteSession
<1> DEFINE m == [t EXCEPT !.step = "verify", !.seen = Absent]
           id == t.id
           kind == Kind(t.id)
<1>2. tasks' = (tasks \ {t}) \cup {m}
  BY DEF WriteSession, Move
<1>3. tasks \subseteq Tasks /\ session \in SessionRows
  BY DEF Shape, Tasks
<1>4. m.id = t.id /\ m.step = "verify" /\ m.seen = Absent /\ m \in Tasks
  BY <1>3, TaskMoves, AbsentIsRow DEF Tasks
<1> HIDE DEF m
<1>5. /\ session.status # "absent" /\ id \in DOMAIN emitted /\ id \in 1..received
      /\ emitted # <<>> /\ kind \in FrameKinds /\ id \in Int /\ id > 0
  BY TaskHasSession DEF Kind
<1>6. t.seen = session /\ id \notin ToSet(session.events)
  BY <1>1 DEF HandlersHoldTheRow
<1>7. session' = WithEvent(session, id, kind)
  BY <1>6 DEF WriteSession
<1>8. /\ session' \in SessionRows
      /\ session'.status = (IF kind \in Statuses THEN kind ELSE session.status)
      /\ ToSet(session'.events) = ToSet(session.events) \cup {id}
      /\ IsInjective(session.events) => IsInjective(session'.events)
      /\ Len(session.events) \in Nat /\ DOMAIN session.events = 1..Len(session.events)
      /\ DOMAIN session'.events = 1..Len(session.events) + 1
      /\ \A i \in DOMAIN session.events : session'.events[i] = session.events[i]
      /\ session'.events[Len(session.events) + 1] = id
  <2> HIDE DEF id, kind
  <2> DEFINE w == WithEvent(session, id, kind)
  <2>1. /\ w \in SessionRows /\ w.status = (IF kind \in Statuses THEN kind ELSE session.status)
    BY <1>3, <1>5, StoredMore
  <2>4. ToSet(w.events) = ToSet(session.events) \cup {id}
    BY <1>3, <1>5, StoredMore
  <2>5. IsInjective(session.events) => IsInjective(w.events)
    BY <1>3, <1>5, <1>6, StoredMore, Zenon
  <2>2. /\ Len(session.events) \in Nat /\ DOMAIN session.events = 1..Len(session.events)
        /\ DOMAIN w.events = 1..Len(session.events) + 1
        /\ \A i \in DOMAIN session.events : w.events[i] = session.events[i]
        /\ w.events[Len(session.events) + 1] = id
    BY <1>3, <1>5, StoredMore
  <2>3. session' = w
    BY <1>7
  <2> HIDE DEF w
  <2> QED BY <2>1, <2>2, <2>3, <2>4, <2>5
<1>9. session'.status # "absent" /\ session' # Absent /\ session # Absent
  BY <1>5, <1>8, AbsentIsRow DEF Statuses
<1> HIDE DEF id, kind
<1>10. TypeOK'
  <2>1. ToSet(session'.events) \subseteq (-commands)..received
    <3>1. ToSet(session.events) \subseteq (-commands)..received
      BY DEF TypeOK
    <3>2. id \in (-commands)..received
      BY <1>5, NumbersAre
    <3> QED BY <1>8, <3>1, <3>2
  <2>2. session'.status \in Statuses \cup {"absent", "queued"}
    BY <1>8 DEF SessionRows
  <2> QED BY <1>1, <1>9, <2>1, <2>2 DEF TypeOK
<1>11. TurnsEndOnce' /\ FinalStatusFollows'
  <2>1. faults \in 0..MaxFaults
    BY DEF TypeOK
  <2> QED BY <1>1, <2>1, FramesStay DEF ApiStep
<1>12. EventsAreStoredOnce'
  <2>1. \A u \in tasks' : u.step = "verify" => u.id \in ToSet(session'.events)
    BY <1>2, <1>4, <1>8 DEF EventsAreStoredOnce, id
  <2>2. \A i : (\E u \in tasks : u.id = i) => \E u \in tasks' : u.id = i
    BY <1>2, <1>4
  <2> QED BY <1>1, <1>8, <2>1, <2>2 DEF EventsAreStoredOnce
<1>13. CompleteMeansPassed' /\ NothingBeforeTheSession'
  BY <1>1, <1>9 DEF CompleteMeansPassed, NothingBeforeTheSession
<1>14. CommandsHaveOneId'
  <2>1. QueuedAreOne /\ StoredAreRefused
    BY CommandParts
  <2>2. QueuedAreOne'
    BY <1>1, <2>1 DEF QueuedAreOne
  <2>3. ASSUME NEW i \in DOMAIN session'.events, session'.events[i] <= 0
        PROVE  \E r \in refused : r.id = session'.events[i]
    <3>1. i \in DOMAIN session.events
      BY <1>5, <1>8, <2>3
    <3> QED BY <1>8, <2>1, <2>3, <3>1 DEF StoredAreRefused
  <2>4. StoredAreRefused'
    BY <1>1, <2>1, <2>3 DEF StoredAreRefused
  <2> QED BY <2>2, <2>4, CommandParts
<1>15. Shape'
  <2>1. tasks' \subseteq [id : 1..received', step : {"read", "write", "verify"}, seen : SessionRows]
    BY <1>1, <1>2, <1>3, <1>4 DEF Tasks
  <2> QED BY <1>1, <1>8, <2>1 DEF Shape
<1>16. HandlersHoldTheRow'
  <2>1. \A u, v \in tasks' : u.id = v.id \/ (u.step = "write" /\ v.step = "write") => u = v
    BY <1>2, <1>4 DEF HandlersHoldTheRow
  <2>2. \A u \in tasks' : u.step # "write"
    BY <1>1, <1>2, <1>4 DEF HandlersHoldTheRow
  <2>3. \A u \in tasks' : u.step # "verify" => u.id \notin ToSet(session'.events)
    <3>1. \A u \in tasks \ {t} : u.id # id
      BY DEF HandlersHoldTheRow, id
    <3> QED BY <1>2, <1>4, <1>8, <3>1 DEF HandlersHoldTheRow
  <2> QED BY <2>1, <2>2, <2>3 DEF HandlersHoldTheRow
<1>17. FaultlessDelivery'
  <2>1. ASSUME NEW r \in refused, r.id \in ToSet(session'.events) PROVE r.id \in ToSet(session.events)
    <3>1. r.id \in (-commands)..0 /\ commands \in Nat
      BY NumbersAre DEF Shape
    <3> QED BY <1>5, <1>8, <2>1, <3>1
  <2> QED BY <1>1, <2>1 DEF FaultlessDelivery, Stored
<1>18. ShowsLastStatus'
  <2>1. kind = StatusOf(id)
    BY <1>5 DEF StatusOf, kind, id
  <2> QED BY <1>1, <1>5, <1>7, <2>1, StatusShownFollows
<1>19. OneVerdict' /\ ReceiptsAreVerdicts'
  BY <1>1 DEF OneVerdict, ReceiptsAreVerdicts
<1> QED BY <1>10, <1>11, <1>12, <1>13, <1>14, <1>15, <1>16, <1>17, <1>18, <1>19

\* The row of a verification after a frame.
LEMMA AppliedIs ==
  ASSUME NEW r \in RunRows, NEW kind \in FrameKinds
  PROVE  /\ Applied(r, kind) \in RunRows
         /\ kind = "passed" => Applied(r, kind).status = "complete" /\ Applied(r, kind).receipt = "passed"
         /\ kind = "not passed" => Applied(r, kind).status = "failed" /\ Applied(r, kind).receipt = "not passed"
         /\ kind \notin {"passed", "not passed"} => Applied(r, kind).receipt = r.receipt
         /\ kind \in {"failed", "interrupted"} => Applied(r, kind).status = kind
         /\ kind = "running" => Applied(r, kind).status = (IF r.status = "queued" THEN "running" ELSE r.status)
         /\ kind = "completed" => Applied(r, kind).status = (IF r.receipt = "none" THEN "verifying" ELSE r.status)
         /\ kind = "error" => Applied(r, kind).status = "failed"
<1>1. kind \in {"running", "completed", "failed", "interrupted", "error", "passed", "not passed"}
  BY DEF FrameKinds, Statuses
<1>2. CASE kind = "passed"
  <2>1. Applied(r, kind) = [r EXCEPT !.receipt = "passed", !.status = "complete"]
    BY <1>2 DEF Applied
  <2> QED BY <1>2, <2>1 DEF RunRows
<1>3. CASE kind = "not passed"
  <2>1. Applied(r, kind) = [r EXCEPT !.receipt = "not passed", !.status = "failed"]
    BY <1>3 DEF Applied
  <2> QED BY <1>3, <2>1 DEF RunRows
<1>4. CASE kind \in {"failed", "interrupted"}
  <2>1. Applied(r, kind) = [r EXCEPT !.status = kind]
    BY <1>4 DEF Applied
  <2> QED BY <1>4, <2>1 DEF RunRows
<1>5. CASE kind = "running"
  <2>1. Applied(r, kind) = IF r.status = "queued" THEN [r EXCEPT !.status = "running"] ELSE r
    BY <1>5 DEF Applied
  <2>2. CASE r.status = "queued"
    BY <1>5, <2>1, <2>2 DEF RunRows
  <2> QED BY <1>5, <2>1, <2>2
<1>6. CASE kind = "completed"
  <2>1. Applied(r, kind) = IF r.receipt = "none" THEN [r EXCEPT !.status = "verifying"] ELSE r
    BY <1>6 DEF Applied
  <2>2. CASE r.receipt = "none"
    BY <1>6, <2>1, <2>2 DEF RunRows
  <2> QED BY <1>6, <2>1, <2>2
<1>7. CASE kind = "error"
  <2>1. Applied(r, kind) = [r EXCEPT !.status = "failed"]
    BY <1>7 DEF Applied
  <2> QED BY <1>7, <2>1 DEF RunRows
<1> QED BY <1>1, <1>2, <1>3, <1>4, <1>5, <1>6, <1>7

\* A frame keeps a verification's verdict with its receipt, and so does a
\* refused start, for then there is no receipt.
LEMMA RunChanges ==
  ASSUME Core, NEW kind \in FrameKinds, run # Absent, run' = Applied(run, kind),
         \/ \E i \in DOMAIN emitted : emitted[i].kind = kind
         \/ kind = "failed" /\ (commands = 0 => run.receipt = "none"),
         UNCHANGED <<agent, turn, emitted, commands>>
  PROVE  run' \in RunRows /\ run'.status # "absent" /\ run' # Absent /\ CompleteMeansPassed' /\ ReceiptsAreVerdicts'
<1> USE DEF Core
<1>1. run \in RunRows
  BY DEF Shape
<1>2. /\ run' \in RunRows
      /\ kind = "passed" => run'.status = "complete" /\ run'.receipt = "passed"
      /\ kind = "not passed" => run'.status = "failed" /\ run'.receipt = "not passed"
      /\ kind \notin {"passed", "not passed"} => run'.receipt = run.receipt
  <2>1. run' \in RunRows
    BY <1>1, AppliedIs
  <2>2. kind = "passed" => run'.status = "complete" /\ run'.receipt = "passed"
    <3>1. kind = "passed" => run' = [run EXCEPT !.receipt = "passed", !.status = "complete"]
      BY DEF Applied
    <3> QED BY <1>1, <3>1 DEF RunRows
  <2>3. kind = "not passed" => run'.status = "failed" /\ run'.receipt = "not passed"
    BY <1>1, AppliedIs
  <2>4. kind \notin {"passed", "not passed"} => run'.receipt = run.receipt
    BY <1>1, AppliedIs
  <2> QED BY <2>1, <2>2, <2>3, <2>4
<1>3. /\ kind \in {"failed", "interrupted"} => run'.status = kind
      /\ kind = "running" => run'.status = (IF run.status = "queued" THEN "running" ELSE run.status)
      /\ kind = "completed" => run'.status = (IF run.receipt = "none" THEN "verifying" ELSE run.status)
      /\ kind = "error" => run'.status = "failed"
  <2>1. kind \in {"failed", "interrupted"} => run'.status = kind
    BY <1>1, AppliedIs, Zenon
  <2>2. kind = "running" => run'.status = (IF run.status = "queued" THEN "running" ELSE run.status)
    BY <1>1, AppliedIs
  <2>3. kind = "completed" => run'.status = (IF run.receipt = "none" THEN "verifying" ELSE run.status)
    BY <1>1, AppliedIs
  <2>4. kind = "error" => run'.status = "failed"
    BY <1>1, AppliedIs
  <2> QED BY <2>1, <2>2, <2>3, <2>4
<1>4. kind \in {"running", "completed", "failed", "interrupted", "error", "passed", "not passed"}
  BY DEF FrameKinds, Statuses
<1>5. run.status # "absent"
  BY DEF NothingBeforeTheSession
<1>6. run'.status # "absent" /\ run' # Absent
  <2>1. run'.status # "absent"
    BY <1>2, <1>3, <1>4, <1>5
  <2> QED BY <2>1, AbsentIsRow
<1>7. run'.status = "complete" => run'.receipt = "passed"
  BY <1>2, <1>3, <1>4 DEF CompleteMeansPassed
<1>8. run'.receipt # "none" => \E i \in DOMAIN emitted : emitted[i].kind = run'.receipt
  BY <1>2, <1>3, <1>4 DEF ReceiptsAreVerdicts
<1>9. ASSUME run'.receipt # "none", commands = 0
      PROVE  run'.status = (IF run'.receipt = "passed" THEN "complete" ELSE "failed")
  <2>1. agent = "verify"
    BY DEF TypeOK
  <2>2. PICK kinds \in Verdicts : \A i \in DOMAIN emitted : emitted[i].kind \in kinds
    BY <1>9, <2>1 DEF OneVerdict
  <2>3. CASE kind = "failed" /\ run.receipt = "none"
    BY <1>2, <1>9, <2>3
  <2>4. CASE \E i \in DOMAIN emitted : emitted[i].kind = kind
    <3>1. kind \in kinds
      BY <2>2, <2>4
    <3>2. run.receipt # "none" => run.receipt \in kinds /\ run.status = (IF run.receipt = "passed" THEN "complete" ELSE "failed")
      BY <1>9, <2>2 DEF ReceiptsAreVerdicts
    <3>3. run.receipt \in {"none", "passed", "not passed"}
      BY <1>1 DEF RunRows
    <3>4. CASE kinds = {"running", "passed", "completed"}
      BY <1>2, <1>3, <1>9, <3>1, <3>2, <3>3, <3>4
    <3>5. CASE kinds = {"running", "not passed", "failed"}
      BY <1>2, <1>3, <1>9, <3>1, <3>2, <3>3, <3>5
    <3>6. CASE kinds = {"running", "error", "failed"}
      BY <1>2, <1>3, <1>9, <3>1, <3>2, <3>3, <3>6
    <3> QED BY <2>2, <3>4, <3>5, <3>6 DEF Verdicts
  <2> QED BY <1>9, <2>3, <2>4
<1> QED BY <1>2, <1>6, <1>7, <1>8, <1>9 DEF CompleteMeansPassed, ReceiptsAreVerdicts

LEMMA UpdateKeeps ==
  ASSUME Core, NEW t \in tasks, UpdateVerification(t)
  PROVE  Core'
<1> USE DEF Core
<1>1. /\ UNCHANGED <<agent, session, queue, turn, emitted, received, refused, commands, faults>>
      /\ t.step = "verify" /\ tasks' = tasks \ {t}
  BY DEF UpdateVerification
<1>2. t.id \in ToSet(session.events)
  BY <1>1 DEF EventsAreStoredOnce
<1>3. run' \in RunRows /\ (run' = Absent <=> run = Absent) /\ (run'.status = "absent" => run' = Absent)
      /\ CompleteMeansPassed' /\ ReceiptsAreVerdicts'
  <2>1. CASE run = Absent
    <3>1. run' = run
      BY <2>1 DEF UpdateVerification
    <3> QED BY <1>1, <3>1 DEF Shape, NothingBeforeTheSession, CompleteMeansPassed, ReceiptsAreVerdicts
  <2>2. CASE run # Absent
    <3>1. Kind(t.id) \in FrameKinds /\ t.id \in DOMAIN emitted
      BY TaskHasSession DEF Kind
    <3>2. \E i \in DOMAIN emitted : emitted[i].kind = Kind(t.id)
      BY <3>1 DEF Kind
    <3>3. run' = Applied(run, Kind(t.id))
      BY <2>2 DEF UpdateVerification
    <3> QED BY <1>1, <2>2, <3>1, <3>2, <3>3, RunChanges
  <2> QED BY <2>1, <2>2
<1>4. TypeOK'
  <2>1. /\ run'.status \in {"absent", "queued", "running", "verifying", "complete", "failed", "interrupted"}
        /\ run'.receipt \in {"none", "passed", "not passed"}
    BY <1>3 DEF RunRows
  <2> QED BY <1>1, <1>3, <2>1 DEF TypeOK
<1>5. TurnsEndOnce' /\ FinalStatusFollows'
  <2>1. faults \in 0..MaxFaults
    BY DEF TypeOK
  <2> QED BY <1>1, <2>1, FramesStay DEF ApiStep
<1>6. EventsAreStoredOnce'
  <2>1. \A i : (\E u \in tasks : u.id = i) => i \in ToSet(session.events) \/ \E u \in tasks' : u.id = i
    BY <1>1, <1>2
  <2>2. \A u \in tasks' : u.step = "verify" => u.id \in ToSet(session.events)
    BY <1>1 DEF EventsAreStoredOnce
  <2> QED BY <1>1, <2>1, <2>2 DEF EventsAreStoredOnce
<1>7. Shape' /\ NothingBeforeTheSession'
  BY <1>1, <1>3 DEF Shape, NothingBeforeTheSession
<1>8. CommandsHaveOneId' /\ FaultlessDelivery'
  BY <1>1 DEF CommandsHaveOneId, FaultlessDelivery, Stored
<1>9. HandlersHoldTheRow'
  BY <1>1 DEF HandlersHoldTheRow
<1>10. ShowsLastStatus' /\ OneVerdict'
  BY <1>1 DEF ShowsLastStatus, StatusOf, Kind, OneVerdict
<1> QED BY <1>3, <1>4, <1>5, <1>6, <1>7, <1>8, <1>9, <1>10

-----------------------------------------------------------------------------
(* The reconciliation of refused commands.                                 *)

LEMMA RefusalMoves ==
  ASSUME Core, NEW r \in refused, NEW step \in {"event", "verify", "done"}, Advance(r, step),
         commands' = commands, queue' = queue
  PROVE  /\ refused' \subseteq [id : (-commands)..0, step : {"event", "verify", "done"}]
         /\ refused' # {} /\ refused # {} /\ r.id \in (-commands)..0 /\ r.id \in Int /\ ~ r.id > 0
         /\ \A q \in refused' : \/ q \in refused /\ q.id # r.id
                                \/ q.id = r.id /\ q.step = step
         /\ \A q \in refused : \E p \in refused' : p.id = q.id
         /\ \A p, q \in refused' : p.id = q.id => p = q
         /\ QueuedAreOne'
<1> USE DEF Core
<1> DEFINE m == [r EXCEPT !.step = step]
           R == [id : (-commands)..0, step : {"event", "verify", "done"}]
<1>1. refused' = (refused \ {r}) \cup {m}
  BY DEF Advance
<1>2. refused \subseteq R /\ r \in R
  BY DEF Shape
<1>3. m \in R /\ m.id = r.id /\ m.step = step
  BY <1>2
<1>4. r.id \in (-commands)..0 /\ commands \in Nat
  BY <1>2, NumbersAre
<1> HIDE DEF m
<1>5. \A p, q \in refused : p.id = q.id => p = q
  BY DEF CommandsHaveOneId
<1>6. QueuedAreOne'
  <2>1. QueuedAreOne
    BY CommandParts
  <2>2. \A q \in refused' : \E p \in refused : p.id = q.id
    BY <1>1, <1>3
  <2> QED BY <2>1, <2>2 DEF QueuedAreOne
<1>7. \A p, q \in refused' : p.id = q.id => p = q
  BY <1>1, <1>3, <1>5
<1>8. \A q \in refused' : \/ q \in refused /\ q.id # r.id
                          \/ q.id = r.id /\ q.step = step
  BY <1>1, <1>3, <1>5
<1> QED BY <1>1, <1>2, <1>3, <1>4, <1>6, <1>7, <1>8

LEMMA ReconcileSessionKeeps ==
  ASSUME Core, NEW r \in refused, ReconcileSession(r)
  PROVE  Core'
<1> USE DEF Core
<1> DEFINE step == IF r.id = 0 THEN "verify" ELSE "done"
           R == [id : (-commands)..0, step : {"event", "verify", "done"}]
<1>1. UNCHANGED <<agent, run, queue, turn, emitted, received, tasks, commands, faults>>
      /\ r.step = "event" /\ \A t \in tasks : t.step # "write"
  BY DEF ReconcileSession, RowLocked
<1>2. Advance(r, step) /\ step \in {"verify", "done"}
  BY DEF ReconcileSession
<1> HIDE DEF step
<1>3. /\ refused' \subseteq R
      /\ refused' # {} /\ refused # {} /\ r.id \in (-commands)..0 /\ r.id \in Int /\ ~ r.id > 0
      /\ \A q \in refused' : \/ q \in refused /\ q.id # r.id
                             \/ q.id = r.id /\ q.step = step
      /\ \A q \in refused : \E p \in refused' : p.id = q.id
      /\ \A p, q \in refused' : p.id = q.id => p = q
      /\ QueuedAreOne'
  BY <1>1, <1>2, RefusalMoves
<1>4. session \in SessionRows /\ session.status # "absent" /\ session # Absent
  BY <1>3, AbsentIsRow DEF Shape, NothingBeforeTheSession
<1>5. StatusOf(r.id) = (IF r.id = 0 THEN "failed" ELSE "error") /\ StatusOf(r.id) \in FrameKinds
  BY <1>3 DEF StatusOf, FrameKinds, Statuses
<1>6. session' = IF ~Stored(r.id) THEN WithEvent(session, r.id, StatusOf(r.id))
                 ELSE IF r.id = 0 THEN [session EXCEPT !.status = "failed"] ELSE session
  BY <1>5 DEF ReconcileSession
<1>7. /\ session' \in SessionRows /\ session'.status # "absent" /\ IsInjective(session'.events)
      /\ ToSet(session'.events) \subseteq ToSet(session.events) \cup {r.id}
      /\ ToSet(session.events) \subseteq ToSet(session'.events)
      /\ ShowsLastStatus'
  <2>1. IsInjective(session.events)
    BY DEF EventsAreStoredOnce
  <2>2. CASE ~Stored(r.id)
    <3> DEFINE w == WithEvent(session, r.id, StatusOf(r.id))
    <3>1. session' = w
      BY <1>6, <2>2
    <3>2. w \in SessionRows /\ w.status = (IF StatusOf(r.id) \in Statuses THEN StatusOf(r.id) ELSE session.status)
      BY <1>3, <1>4, <1>5, StoredMore
    <3>3. ToSet(w.events) = ToSet(session.events) \cup {r.id}
      BY <1>3, <1>4, <1>5, StoredMore
    <3>4. IsInjective(w.events)
      BY <1>3, <1>4, <1>5, <2>1, <2>2, StoredMore, Zenon DEF Stored
    <3>5. ShowsLastStatus'
      BY <1>1, <1>3, <1>4, <3>1, StatusShownFollows
    <3>6. w.status # "absent"
      BY <1>4, <3>2 DEF Statuses
    <3> HIDE DEF w
    <3> QED BY <3>1, <3>2, <3>3, <3>4, <3>5, <3>6
  <2>3. CASE Stored(r.id)
    <3>1. faults # 0
      BY <1>1, <2>3 DEF FaultlessDelivery
    <3>2. session' = [session EXCEPT !.status = "failed"] \/ session' = session
      BY <1>6, <2>3
    <3>3. session' \in SessionRows /\ session'.status # "absent" /\ session'.events = session.events
      BY <1>4, <3>2 DEF SessionRows, Statuses
    <3> QED BY <1>1, <2>1, <3>1, <3>3 DEF ShowsLastStatus
  <2> QED BY <2>2, <2>3
<1>8. TypeOK'
  <2>1. ToSet(session'.events) \subseteq (-commands)..received
    <3>1. ToSet(session.events) \subseteq (-commands)..received
      BY DEF TypeOK
    <3>2. r.id \in (-commands)..received
      <4>1. commands \in Nat /\ received \in 0..Len(emitted)
        BY NumbersAre
      <4> QED BY <1>3, <4>1
    <3> QED BY <1>7, <3>1, <3>2
  <2>2. session'.status \in Statuses \cup {"absent", "queued"}
    BY <1>7 DEF SessionRows
  <2>3. session' # Absent
    BY <1>7, AbsentIsRow
  <2> QED BY <1>1, <1>4, <2>1, <2>2, <2>3 DEF TypeOK
<1>9. TurnsEndOnce' /\ FinalStatusFollows'
  <2>1. faults \in 0..MaxFaults
    BY DEF TypeOK
  <2> QED BY <1>1, <2>1, FramesStay DEF ApiStep
<1>10. EventsAreStoredOnce'
  <2>1. /\ \A t \in tasks : t.step = "verify" => t.id \in ToSet(session.events)
        /\ faults = 0 => \A i \in 1..received :
             i \in ToSet(session.events) \/ \E t \in tasks : t.id = i
    BY DEF EventsAreStoredOnce
  <2> QED BY <1>1, <1>7, <2>1 DEF EventsAreStoredOnce
<1>11. CompleteMeansPassed' /\ NothingBeforeTheSession' /\ ReceiptsAreVerdicts'
  BY <1>1, <1>7 DEF CompleteMeansPassed, NothingBeforeTheSession, ReceiptsAreVerdicts
<1>12. Shape'
  BY <1>1, <1>3, <1>7 DEF Shape
<1>13. CommandsHaveOneId'
  <2>1. ASSUME NEW i \in DOMAIN session'.events, session'.events[i] <= 0
        PROVE  \E q \in refused' : q.id = session'.events[i]
    <3>1. session'.events[i] \in ToSet(session.events) \cup {r.id}
      BY <1>7 DEF ToSet
    <3>2. CASE session'.events[i] \in ToSet(session.events)
      <4>1. PICK k \in DOMAIN session.events : session.events[k] = session'.events[i]
        BY <3>2 DEF ToSet
      <4>2. \E q \in refused : q.id = session.events[k]
        BY <2>1, <4>1 DEF CommandsHaveOneId
      <4> QED BY <1>3, <4>1, <4>2
    <3> QED BY <1>3, <3>1, <3>2
  <2>2. StoredAreRefused'
    BY <1>3, <2>1 DEF StoredAreRefused
  <2> QED BY <1>3, <2>2, CommandParts
<1>14. HandlersHoldTheRow'
  <2>1. \A t \in tasks : t.id # r.id
    BY <1>3, TaskHasSession
  <2>2. \A t \in tasks : t.step # "verify" => t.id \notin ToSet(session'.events)
    BY <1>7, <2>1 DEF HandlersHoldTheRow
  <2> QED BY <1>1, <2>2 DEF HandlersHoldTheRow
<1>15. FaultlessDelivery'
  <2>1. ASSUME faults = 0, NEW q \in refused', q.step = "event" PROVE q.id \notin ToSet(session'.events)
    <3>1. q \in refused /\ q.id # r.id
      BY <1>2, <1>3, <2>1
    <3>2. q.id \notin ToSet(session.events)
      BY <2>1, <3>1 DEF FaultlessDelivery, Stored
    <3> QED BY <1>7, <3>1, <3>2
  <2> QED BY <1>1, <2>1 DEF FaultlessDelivery, Stored
<1>16. OneVerdict'
  BY <1>1, <1>3 DEF OneVerdict
<1> QED BY <1>7, <1>8, <1>9, <1>10, <1>11, <1>12, <1>13, <1>14, <1>15, <1>16

\* A refused command moves, and the session is left alone.
LEMMA RefusalKeeps ==
  ASSUME Core, NEW r \in refused, NEW step \in {"event", "done"}, Advance(r, step), ApiStep,
         step = "event" => faults' # 0,
         UNCHANGED <<session, received, tasks>>
  PROVE  /\ TurnsEndOnce' /\ EventsAreStoredOnce' /\ CommandsHaveOneId' /\ HandlersHoldTheRow'
         /\ FaultlessDelivery' /\ ShowsLastStatus' /\ FinalStatusFollows' /\ OneVerdict'
         /\ session.status # "absent" /\ session'.status # "absent" /\ refused # {}
         /\ refused' \subseteq [id : (-commands')..0, step : {"event", "verify", "done"}]
<1> USE DEF Core
<1>1. UNCHANGED <<agent, queue, turn, emitted, commands, session, received, tasks>> /\ (faults' = 0 => faults = 0)
  BY DEF ApiStep
<1>2. /\ refused' \subseteq [id : (-commands)..0, step : {"event", "verify", "done"}]
      /\ refused' # {} /\ refused # {}
      /\ \A q \in refused' : \/ q \in refused /\ q.id # r.id
                             \/ q.id = r.id /\ q.step = step
      /\ \A q \in refused : \E p \in refused' : p.id = q.id
      /\ \A p, q \in refused' : p.id = q.id => p = q
      /\ QueuedAreOne'
  BY <1>1, RefusalMoves
<1>3. session.status # "absent"
  BY <1>2 DEF NothingBeforeTheSession
<1>4. TurnsEndOnce' /\ FinalStatusFollows'
  BY FramesStay
<1>5. EventsAreStoredOnce'
  BY <1>1 DEF EventsAreStoredOnce
<1>6. CommandsHaveOneId'
  <2>1. StoredAreRefused
    BY CommandParts
  <2>2. StoredAreRefused'
    BY <1>1, <1>2, <2>1 DEF StoredAreRefused
  <2> QED BY <1>2, <2>2, CommandParts
<1>7. HandlersHoldTheRow'
  BY <1>1 DEF HandlersHoldTheRow
<1>8. FaultlessDelivery'
  BY <1>1, <1>2 DEF FaultlessDelivery, Stored
<1>9. ShowsLastStatus'
  BY <1>1 DEF ShowsLastStatus, StatusOf, Kind
<1>10. OneVerdict'
  BY <1>1, <1>2 DEF OneVerdict
<1> QED BY <1>1, <1>2, <1>3, <1>4, <1>5, <1>6, <1>7, <1>8, <1>9, <1>10

LEMMA ReconcileVerificationKeeps ==
  ASSUME Core, NEW r \in refused, ReconcileVerification(r)
  PROVE  Core'
<1> USE DEF Core
<1>1. UNCHANGED <<agent, session, queue, turn, emitted, received, tasks, commands, faults>> /\ Advance(r, "done")
  BY DEF ReconcileVerification
<1>2. ApiStep
  <2>1. faults \in 0..MaxFaults
    BY DEF TypeOK
  <2> QED BY <1>1, <2>1 DEF ApiStep
<1>3. /\ TurnsEndOnce' /\ EventsAreStoredOnce' /\ CommandsHaveOneId' /\ HandlersHoldTheRow'
      /\ FaultlessDelivery' /\ ShowsLastStatus' /\ FinalStatusFollows' /\ OneVerdict'
      /\ session.status # "absent" /\ session'.status # "absent" /\ refused # {}
      /\ refused' \subseteq [id : (-commands')..0, step : {"event", "verify", "done"}]
  BY <1>1, <1>2, RefusalKeeps
<1>4. run' \in RunRows /\ (run' = Absent <=> run = Absent) /\ (run'.status = "absent" => run' = Absent)
      /\ CompleteMeansPassed' /\ ReceiptsAreVerdicts'
  <2>1. CASE run = Absent
    <3>1. run' = run
      BY <2>1 DEF ReconcileVerification
    <3> QED BY <1>1, <3>1 DEF Shape, NothingBeforeTheSession, CompleteMeansPassed, ReceiptsAreVerdicts
  <2>2. CASE run # Absent
    <3>1. "failed" \in FrameKinds
      BY DEF FrameKinds, Statuses
    <3>2. agent = "verify"
      BY <2>2 DEF TypeOK
    <3>3. commands = 0 => run.receipt = "none"
      <4>1. commands = 0 => emitted = <<>>
        BY <1>3, <3>2 DEF OneVerdict
      <4> QED BY <4>1 DEF ReceiptsAreVerdicts
    <3>4. run' = Applied(run, "failed")
      BY <2>2 DEF ReconcileVerification
    <3> QED BY <1>1, <2>2, <3>1, <3>3, <3>4, RunChanges
  <2> QED BY <2>1, <2>2
<1>5. TypeOK'
  <2>1. /\ run'.status \in {"absent", "queued", "running", "verifying", "complete", "failed", "interrupted"}
        /\ run'.receipt \in {"none", "passed", "not passed"}
    BY <1>4 DEF RunRows
  <2> QED BY <1>1, <1>4, <2>1 DEF TypeOK
<1>6. Shape' /\ NothingBeforeTheSession'
  BY <1>1, <1>3, <1>4 DEF Shape, NothingBeforeTheSession
<1> QED BY <1>3, <1>4, <1>5, <1>6

LEMMA ReconcileAgainKeeps ==
  ASSUME Core, NEW r \in refused, ReconcileAgain(r)
  PROVE  Core'
<1> USE DEF Core
<1>1. /\ UNCHANGED <<agent, session, run, queue, turn, emitted, received, tasks, commands>>
      /\ Advance(r, "event") /\ faults' # 0 /\ faults' \in 0..MaxFaults
  <2>1. faults \in 0..MaxFaults /\ MaxFaults \in Nat
    BY SessionsAssumption DEF TypeOK
  <2> QED BY <2>1 DEF ReconcileAgain, Fault
<1>2. ApiStep
  BY <1>1 DEF ApiStep
<1>3. /\ TurnsEndOnce' /\ EventsAreStoredOnce' /\ CommandsHaveOneId' /\ HandlersHoldTheRow'
      /\ FaultlessDelivery' /\ ShowsLastStatus' /\ FinalStatusFollows' /\ OneVerdict'
      /\ session.status # "absent" /\ session'.status # "absent" /\ refused # {}
      /\ refused' \subseteq [id : (-commands')..0, step : {"event", "verify", "done"}]
  BY <1>1, <1>2, RefusalKeeps
<1>4. TypeOK' /\ CompleteMeansPassed' /\ ReceiptsAreVerdicts'
  BY <1>1 DEF TypeOK, CompleteMeansPassed, ReceiptsAreVerdicts
<1>5. Shape' /\ NothingBeforeTheSession'
  BY <1>1, <1>3 DEF Shape, NothingBeforeTheSession
<1> QED BY <1>3, <1>4, <1>5

-----------------------------------------------------------------------------
(* The theorems.                                                           *)

LEMMA InitIsCore == Init => Core
<1> SUFFICES ASSUME Init PROVE Core
  OBVIOUS
<1>1. /\ agent \in Adapters \cup {"verify"} /\ session = Absent /\ run = Absent /\ queue = <<>> /\ turn = NoTurn
      /\ emitted = <<>> /\ received = 0 /\ tasks = {} /\ refused = {} /\ commands = 0 /\ faults = 0
  BY DEF Init
<1>2. /\ Absent.status = "absent" /\ Absent.events = <<>> /\ Absent.receipt = "none"
      /\ DOMAIN Absent.events = {} /\ ToSet(Absent.events) = {}
  BY DEF Absent, ToSet
<1>3. DOMAIN emitted = {} /\ DOMAIN queue = {} /\ Len(emitted) = 0
  BY <1>1
<1>4. Shape
  <2>1. Absent \in RunRows
    BY DEF Absent, RunRows
  <2> QED BY <1>1, <2>1, AbsentIsRow DEF Shape
<1>5. TypeOK
  <2>1. received \in 0..Len(emitted) /\ commands \in 0..MaxCommands /\ faults \in 0..MaxFaults
    BY <1>1, <1>3, SessionsAssumption
  <2> QED BY <1>1, <1>2, <2>1 DEF TypeOK
<1>6. TurnsEndOnce
  <2>1. EndSet = {} /\ BeginSet = {}
    BY <1>3 DEF EndSet, BeginSet
  <2>2. Ends = 0 /\ Begins = 0
    BY <2>1, CountsAreSizes, FS_EmptySet
  <2> QED BY <1>1, <2>2 DEF TurnsEndOnce
<1>7. EventsAreStoredOnce /\ CompleteMeansPassed
  BY <1>1, <1>2 DEF EventsAreStoredOnce, CompleteMeansPassed, IsInjective
<1>8. NothingBeforeTheSession /\ CommandsHaveOneId /\ HandlersHoldTheRow
  BY <1>1, <1>2, <1>3 DEF NothingBeforeTheSession, CommandsHaveOneId, HandlersHoldTheRow
<1>9. FaultlessDelivery /\ ShowsLastStatus /\ FinalStatusFollows
  BY <1>1, <1>2, <1>3 DEF FaultlessDelivery, ShowsLastStatus, FinalStatusFollows
<1>10. OneVerdict /\ ReceiptsAreVerdicts
  <2>1. Verdicts # {}
    BY DEF Verdicts
  <2> QED BY <1>1, <1>2, <1>3, <2>1 DEF OneVerdict, ReceiptsAreVerdicts
<1> QED BY <1>4, <1>5, <1>6, <1>7, <1>8, <1>9, <1>10 DEF Core

LEMMA StepKeepsCore == Core /\ [Next]_vars => Core'
<1> SUFFICES ASSUME Core, [Next]_vars PROVE Core'
  OBVIOUS
<1>1. CASE UNCHANGED vars
  <2>1. UNCHANGED <<agent, session, run, queue, turn, emitted, received, tasks, refused, commands, faults>>
    BY <1>1 DEF vars
  <2>2. TypeOK' /\ Shape' /\ EventsAreStoredOnce' /\ CompleteMeansPassed'
    BY <2>1, ZenonT(30) DEF Core, TypeOK, Shape, EventsAreStoredOnce, CompleteMeansPassed
  <2>3. TurnsEndOnce' /\ FinalStatusFollows'
    BY <2>1 DEF Core, TurnsEndOnce, Ends, Begins, Count, FinalStatusFollows
  <2>4. NothingBeforeTheSession' /\ CommandsHaveOneId' /\ HandlersHoldTheRow' /\ FaultlessDelivery'
    BY <2>1 DEF Core, NothingBeforeTheSession, CommandsHaveOneId, HandlersHoldTheRow, FaultlessDelivery, Stored
  <2>5. ShowsLastStatus' /\ OneVerdict' /\ ReceiptsAreVerdicts'
    BY <2>1 DEF Core, ShowsLastStatus, StatusOf, Kind, OneVerdict, ReceiptsAreVerdicts
  <2> QED BY <2>2, <2>3, <2>4, <2>5 DEF Core
<1>2. CASE CreateSession \/ CreateVerification
  BY <1>2, CreateKeeps
<1>3. ASSUME NEW action \in {"message", "interrupt"}, Request(action) PROVE Core'
  BY <1>3, RequestKeeps
<1>4. CASE \E kinds \in Lines : Line(kinds)
  <2>1. DaemonTurns /\ Beside
    BY <1>4 DEF DaemonTurns, Beside, Line
  <2> QED BY <2>1, MovesInvariant
<1>5. CASE Daemon
  <2>1. CASE Refuse
    BY <2>1, RefuseKeeps
  <2>2. CASE Start \/ Message \/ Interrupt
    <3>1. DaemonTurns /\ Beside
      BY <2>2 DEF DaemonTurns, Beside, Start, Message, Interrupt
    <3> QED BY <3>1, MovesInvariant
  <2>3. CASE \E ok \in BOOLEAN : Exit(ok) \/ VerifyCase(ok)
    <3>1. DaemonTurns /\ Beside
      BY <2>3 DEF DaemonTurns, Beside, Exit, VerifyCase
    <3> QED BY <3>1, MovesInvariant
  <2>4. CASE EndVerification \/ VerificationThrows
    <3>1. DaemonTurns /\ Beside
      BY <2>4 DEF DaemonTurns, Beside, EndVerification, VerificationThrows
    <3> QED BY <3>1, MovesInvariant
  <2> QED BY <1>5, <2>1, <2>2, <2>3, <2>4 DEF Daemon
<1>6. CASE Api
  <2>1. CASE Receive
    BY <2>1, ReceiveKeeps
  <2>2. ASSUME NEW r \in refused, ReconcileSession(r) \/ ReconcileVerification(r) PROVE Core'
    BY <2>2, ReconcileSessionKeeps, ReconcileVerificationKeeps
  <2>3. ASSUME NEW t \in tasks, ReadSession(t) \/ WriteSession(t) \/ UpdateVerification(t) PROVE Core'
    BY <2>3, ReadKeeps, WriteKeeps, UpdateKeeps
  <2> QED BY <1>6, <2>1, <2>2, <2>3 DEF Api
<1>7. CASE Faulty
  <2>1. CASE LoseFrame
    BY <2>1, LoseFrameKeeps
  <2>2. CASE Crash
    BY <2>2, CrashKeeps
  <2>3. ASSUME NEW r \in refused, ReconcileAgain(r) PROVE Core'
    BY <2>3, ReconcileAgainKeeps
  <2>4. ASSUME NEW t \in tasks, HandlerFails(t) PROVE Core'
    BY <2>4, HandlerFailsKeeps
  <2> QED BY <1>7, <2>1, <2>2, <2>3, <2>4 DEF Faulty
<1> QED BY <1>1, <1>2, <1>3, <1>4, <1>5, <1>6, <1>7 DEF Next

\* When all is handled, what the session shows last is the last status there was.
LEMMA CoreMeansEnded == Core => QuietSessionsHaveEnded
<1> SUFFICES ASSUME Core, Quiet, InOrder, faults = 0, LastStatus > 0
             PROVE  session.status = Kind(LastStatus) /\ session.status # "running"
  BY DEF QuietSessionsHaveEnded
<1> USE DEF Core
<1> DEFINE last == LastStatus
           e == session.events
<1>1. /\ last \in DOMAIN emitted /\ emitted[last].kind \in Statuses
      /\ \A i \in DOMAIN emitted : emitted[i].kind \in Statuses => i <= last
  BY LastStatusIs
<1>2. /\ received = Len(emitted) /\ DOMAIN emitted = 1..Len(emitted) /\ Len(emitted) \in Nat /\ commands \in Nat
      /\ e \in Seq(Int) /\ DOMAIN e = 1..Len(e) /\ Len(e) \in Nat
  BY NumbersAre DEF Quiet
<1>3. session.status # "absent" /\ session.status \in Statuses \cup {"queued"}
  <2>1. session.status # "absent"
    BY DEF Quiet, NothingBeforeTheSession
  <2> QED BY <2>1 DEF TypeOK
<1> HIDE DEF last
<1>4. PICK k \in DOMAIN e : e[k] = last
  <2>1. last \in 1..received
    BY <1>1, <1>2
  <2>2. last \in ToSet(e)
    BY <2>1 DEF EventsAreStoredOnce, Quiet
  <2> QED BY <2>2 DEF ToSet
<1>5. last > 0 /\ last \in Int
  BY <1>1, <1>2
<1>6. StatusOf(e[k]) = emitted[last].kind
  BY <1>4, <1>5 DEF StatusOf, Kind
<1>7. PICK i \in DOMAIN e : session.status = StatusOf(e[i]) /\ \A j \in DOMAIN e : j > i => StatusOf(e[j]) \notin Statuses
  BY <1>1, <1>3, <1>4, <1>6 DEF ShowsLastStatus
<1>8. ~ k > i
  BY <1>1, <1>4, <1>6, <1>7
<1>9. e[i] \in Int /\ e[i] <= received
  <2>1. e[i] \in ToSet(e)
    BY DEF ToSet
  <2>2. e[i] \in (-commands)..received
    BY <2>1 DEF TypeOK
  <2> QED BY <1>2, <2>2
<1>10. e[i] >= 0 /\ e[i] <= last
  <2>1. CASE e[i] < 0
    <3>1. StatusOf(e[i]) = "error"
      BY <1>9, <2>1 DEF StatusOf
    <3> QED BY <1>3, <1>7, <3>1 DEF Statuses
  <2>2. CASE e[i] = 0
    BY <1>5, <2>2
  <2>3. CASE e[i] > 0
    <3>1. e[i] \in DOMAIN emitted
      BY <1>2, <1>9, <2>3
    <3>2. StatusOf(e[i]) = emitted[e[i]].kind /\ emitted[e[i]] \in FrameRows
      <4>1. emitted \in Seq(FrameRows)
        BY NumbersAre
      <4> QED BY <2>3, <3>1, <4>1 DEF StatusOf, Kind
    <3>3. emitted[e[i]].kind # "queued"
      BY <3>2 DEF FrameRows, FrameKinds, Statuses
    <3>4. emitted[e[i]].kind \in Statuses
      BY <1>3, <1>7, <3>2, <3>3
    <3>5. e[i] <= last
      BY <1>1, <3>1, <3>4
    <3> QED BY <1>9, <2>3, <3>5
  <2> QED BY <1>9, <2>1, <2>2, <2>3
<1>11. i = k
  <2>1. CASE k < i
    <3>1. e[k] < e[i]
      BY <1>10, <2>1 DEF InOrder
    <3> QED BY <1>4, <1>5, <1>9, <1>10, <3>1
  <2> QED BY <1>2, <1>8, <2>1
<1>12. session.status = Kind(last)
  BY <1>6, <1>7, <1>11 DEF Kind
<1>13. emitted[last].kind # "running"
  <2>1. ASSUME emitted[last].kind = "running" PROVE FALSE
    <3>1. PICK j \in DOMAIN emitted : j > last /\ emitted[j].kind \in Statuses
      BY <1>1, <2>1 DEF FinalStatusFollows, Quiet
    <3> QED BY <1>1, <1>2, <1>5, <3>1
  <2> QED BY <2>1
<1> QED BY <1>12, <1>13 DEF Kind, last

LEMMA CoreMeansInvariant == Core => IInv
BY CoreMeansEnded DEF Core, IInv, Inv, VerdictIsReceipts, ReceiptsAreVerdicts

\* In every state reached: a turn says one final status, handlers lose no
\* event of each other and store none twice, a session that is done shows the
\* last status, and a verification's verdict is that of its receipt.
THEOREM SessionsInvariance == Spec => []IInv
<1>1. Init => Core
  BY InitIsCore
<1>2. Core /\ [Next]_vars => Core'
  BY StepKeepsCore
<1>3. Core => IInv
  BY CoreMeansInvariant
<1> QED BY <1>1, <1>2, <1>3, PTL DEF Spec

\* The transactions of concurrent handlers and reconciliations store every
\* event they handle once, and lose none of each other's.
THEOREM StoredOnce == Spec => []EventsAreStoredOnce
<1>1. IInv => EventsAreStoredOnce
  BY DEF IInv, Inv
<1> QED BY <1>1, SessionsInvariance, PTL

\* A session whose frames were applied in order and without a fault ends with
\* the last status the daemon emitted, which is not "running".
THEOREM EndedSessionsShowIt == Spec => []QuietSessionsHaveEnded
<1>1. IInv => QuietSessionsHaveEnded
  BY DEF IInv, Inv
<1> QED BY <1>1, SessionsInvariance, PTL

\* Every turn that said "running" says one final status, and no turn two.
THEOREM OneFinalStatus == Spec => []TurnsEndOnce
<1>1. IInv => TurnsEndOnce
  BY DEF IInv, Inv
<1> QED BY <1>1, SessionsInvariance, PTL

\* A verification that is complete has a receipt that says passed, and one
\* nobody interfered with ends with the verdict of its receipt, in whatever
\* order its frames were applied.
THEOREM VerdictsHaveReceipts == Spec => [](CompleteMeansPassed /\ VerdictIsReceipts)
<1>1. IInv => CompleteMeansPassed /\ VerdictIsReceipts
  BY DEF IInv, Inv
<1> QED BY <1>1, SessionsInvariance, PTL

-----------------------------------------------------------------------------
(***************************************************************************)
(* The registry of capabilities (module CapabilityRegistry).               *)
(***************************************************************************)
(* Requests and the chain of writes of the registry.                       *)

RegistrySteps == {"read", "check", "write", "insert", "created", "conflict", "failed"}

\* A request that goes to another step keeps its entry.
LEMMA AskRow ==
  ASSUME RegistryShape, NEW r \in DOMAIN requests, NEW step \in RegistrySteps,
         NEW seen \in SUBSET Stamped, Ask(r, step, seen)
  PROVE  /\ requests' \in Seq(RequestRows) /\ Len(requests') = Len(requests)
         /\ DOMAIN requests' = DOMAIN requests
         /\ requests'[r].step = step /\ requests'[r].seen = seen
         /\ requests'[r].entry = requests[r].entry
         /\ \A q \in DOMAIN requests \ {r} : requests'[q] = requests[q]
<1>1. requests \in Seq(RequestRows) /\ requests[r] \in RequestRows
  BY DEF RegistryShape
<1> DEFINE after == [requests[r] EXCEPT !.step = step, !.seen = seen]
<1>2. after \in RequestRows /\ after.step = step /\ after.seen = seen /\ after.entry = requests[r].entry
  BY <1>1 DEF RequestRows, RegistrySteps
<1>3. requests' = [requests EXCEPT ![r] = after]
  BY DEF Ask
<1> HIDE DEF after
<1> QED BY <1>1, <1>2, <1>3

\* Adding a request.
LEMMA AddedRow ==
  ASSUME RegistryShape, NEW entry \in Entries, AddCapability(entry)
  PROVE  /\ requests' \in Seq(RequestRows) /\ Len(requests') = Len(requests) + 1
         /\ Len(requests') <= MaxRequests
         /\ DOMAIN requests' = DOMAIN requests \cup {Len(requests) + 1}
         /\ Len(requests) + 1 \notin DOMAIN requests
         /\ \A q \in DOMAIN requests : requests'[q] = requests[q]
         /\ requests'[Len(requests) + 1].step = (IF postgres THEN "insert" ELSE "read")
         /\ requests'[Len(requests) + 1].seen = {}
<1> DEFINE n == Len(requests) + 1
           row == [step |-> IF postgres THEN "insert" ELSE "read", seen |-> {}, entry |-> entry @@ [at |-> n]]
<1>1. requests \in Seq(RequestRows) /\ Len(requests) \in Nat /\ Len(requests) < MaxRequests /\ n \in 1..MaxRequests
  BY RegistryAssumption DEF RegistryShape, AddCapability
<1>2. entry @@ [at |-> n] \in Stamped
  BY <1>1 DEF Stamped
<1>3. row \in RequestRows /\ row.step = (IF postgres THEN "insert" ELSE "read") /\ row.seen = {}
  BY <1>2 DEF RequestRows
<1>4. requests' = Append(requests, row)
  BY DEF AddCapability
<1> HIDE DEF row
<1>5. /\ requests' \in Seq(RequestRows) /\ Len(requests') = n /\ requests'[n] = row
      /\ DOMAIN requests' = 1..n /\ \A q \in 1..Len(requests) : requests'[q] = requests[q]
  BY <1>1, <1>3, <1>4
<1>6. 1..n = 1..Len(requests) \cup {n} /\ n \notin 1..Len(requests) /\ n <= MaxRequests
  BY <1>1, RegistryAssumption
<1>7. DOMAIN requests = 1..Len(requests)
  BY <1>1
<1> QED BY <1>3, <1>5, <1>6, <1>7

\* The first write leaves the chain.
LEMMA TakeFirst ==
  ASSUME RegistryShape, chain # <<>>
  PROVE  /\ Head(chain) = chain[1] /\ 1 \in DOMAIN chain
         /\ chain[1] \in Snapshots /\ chain[1].of \in DOMAIN requests /\ chain[1].state \in SUBSET Stamped
         /\ Tail(chain) \in Seq(Snapshots)
         /\ \A i \in DOMAIN Tail(chain) : i + 1 \in DOMAIN chain /\ Tail(chain)[i] = chain[i + 1]
         /\ \A k \in DOMAIN chain \ {1} : \E i \in DOMAIN Tail(chain) : k = i + 1
<1>1. chain \in Seq(Snapshots) /\ Len(chain) \in Nat \ {0}
  BY DEF RegistryShape
<1>2. 1 \in DOMAIN chain /\ chain[1] \in Snapshots /\ chain[1].of \in DOMAIN requests
  BY <1>1 DEF RegistryShape
<1>6. chain[1].state \in SUBSET Stamped
  BY <1>2 DEF Snapshots
<1>3. Tail(chain) \in Seq(Snapshots) /\ Len(Tail(chain)) = Len(chain) - 1
  BY <1>1
<1>4. \A i \in DOMAIN Tail(chain) : i + 1 \in DOMAIN chain /\ Tail(chain)[i] = chain[i + 1]
  BY <1>1
<1>5. ASSUME NEW k \in DOMAIN chain \ {1} PROVE \E i \in DOMAIN Tail(chain) : k = i + 1
  <2>1. k - 1 \in DOMAIN Tail(chain) /\ k = (k - 1) + 1
    BY <1>1, <1>3
  <2> QED BY <2>1
<1> QED BY <1>1, <1>2, <1>3, <1>4, <1>5, <1>6

\* A snapshot is put at its end.
LEMMA PutLast ==
  ASSUME RegistryShape, NEW s \in Snapshots, chain' = Append(chain, s)
  PROVE  /\ chain' \in Seq(Snapshots)
         /\ DOMAIN chain' = DOMAIN chain \cup {Len(chain) + 1} /\ Len(chain) + 1 \notin DOMAIN chain
         /\ chain'[Len(chain) + 1] = s /\ \A i \in DOMAIN chain : chain'[i] = chain[i]
<1>1. chain \in Seq(Snapshots) /\ Len(chain) \in Nat /\ DOMAIN chain = 1..Len(chain)
  BY DEF RegistryShape
<1> QED BY <1>1

\* One more entry that shares no key with the others.
LEMMA DistinctAdd ==
  ASSUME NEW S, Distinct(S), NEW e, ~ \E x \in S : Same(x, e)
  PROVE  Distinct(S \cup {e})
<1>1. \A x \in S : ~Same(e, x)
  BY DEF Same
<1> QED BY <1>1 DEF Distinct

-----------------------------------------------------------------------------
(* The invariant of the registry, one lemma per action.                    *)

LEMMA RegistryStart == RegistryInit => RegistryIInv
<1> SUFFICES ASSUME RegistryInit PROVE RegistryIInv
  OBVIOUS
<1>1. postgres \in BOOLEAN /\ overlapped = FALSE /\ failures = 0
  BY RegistryAssumption DEF RegistryInit
<1>2. stored = {} /\ requests = <<>> /\ chain = <<>> /\ DOMAIN requests = {} /\ DOMAIN chain = {} /\ Len(requests) = 0
  BY DEF RegistryInit
<1>3. RegistryTypeOK
  BY <1>1, <1>2, RegistryAssumption DEF RegistryTypeOK
<1>4. requests \in Seq(RequestRows) /\ chain \in Seq(Snapshots) /\ Len(requests) <= MaxRequests
  BY <1>2, RegistryAssumption
<1>5. RegistryShape
  <2>1. postgres \in BOOLEAN /\ overlapped \in BOOLEAN
    BY <1>1
  <2>2. failures \in 0..MaxFailures
    BY <1>1, RegistryAssumption
  <2>3. stored \in SUBSET Stamped /\ \A i \in DOMAIN chain : chain[i].of \in DOMAIN requests
    BY <1>2
  <2> QED BY <1>4, <2>1, <2>2, <2>3 DEF RegistryShape
<1> QED BY <1>2, <1>3, <1>5 DEF RegistryIInv, OneWriteEach, SnapshotsAreDistinct, Distinct, OneAtATime, CreatedStays

LEMMA AddStep ==
  ASSUME RegistryIInv, NEW entry \in Entries, AddCapability(entry)
  PROVE  RegistryIInv'
<1> DEFINE n == Len(requests) + 1
<1>1. /\ requests' \in Seq(RequestRows) /\ Len(requests') <= MaxRequests
      /\ DOMAIN requests' = DOMAIN requests \cup {n} /\ n \notin DOMAIN requests
      /\ \A q \in DOMAIN requests : requests'[q] = requests[q]
      /\ requests'[n].step = (IF postgres THEN "insert" ELSE "read") /\ requests'[n].seen = {}
  BY AddedRow DEF RegistryIInv
<1>2. postgres' = postgres /\ stored' = stored /\ chain' = chain /\ failures' = failures
  BY DEF AddCapability
<1>3. /\ overlapped' \in BOOLEAN /\ (overlapped => overlapped') /\ (postgres => overlapped' = overlapped)
      /\ ~postgres /\ ~overlapped' => \A r \in DOMAIN requests : ~Open(r)
  BY DEF AddCapability, RegistryIInv, RegistryShape
<1>4. RegistryShape'
  BY <1>1, <1>2, <1>3 DEF RegistryIInv, RegistryShape
<1>5. OneWriteEach'
  BY <1>1, <1>2 DEF RegistryIInv, RegistryShape, OneWriteEach
<1>6. RegistryTypeOK'
  <2>1. \A i \in DOMAIN chain : chain[i].of # n
    BY <1>1 DEF RegistryIInv, RegistryShape
  <2> QED BY <1>1, <1>2, <1>3, <2>1 DEF RegistryIInv, RegistryTypeOK
<1>7. SnapshotsAreDistinct'
  BY <1>1, <1>2 DEF RegistryIInv, SnapshotsAreDistinct, Distinct
<1>8. OneAtATime'
  BY <1>1, <1>2, <1>3 DEF RegistryIInv, RegistryShape, RegistryTypeOK, OneAtATime, Open
<1>9. CreatedStays'
  BY <1>1, <1>2, <1>3 DEF RegistryIInv, CreatedStays
<1> QED BY <1>4, <1>5, <1>6, <1>7, <1>8, <1>9 DEF RegistryIInv
\* A request is answered without an effect, or reads the file.
LEMMA AskStep ==
  ASSUME RegistryIInv, NEW r \in DOMAIN requests,
         NEW step \in {"check", "failed", "conflict"}, NEW seen \in {stored, {}}, Ask(r, step, seen),
         requests[r].step \in {"read", "check", "insert"},
         step = "check" => requests[r].step = "read" /\ seen = stored,
         step # "check" => seen = {},
         UNCHANGED <<postgres, stored, chain, overlapped>>, failures' \in 0..MaxFailures
  PROVE  RegistryIInv'
<1>1. /\ step \in RegistrySteps /\ stored \in SUBSET Stamped /\ seen \in SUBSET Stamped
  BY DEF RegistryIInv, RegistryShape, RegistrySteps
<1>2. /\ TRUE
      /\ requests' \in Seq(RequestRows) /\ Len(requests') = Len(requests) /\ DOMAIN requests' = DOMAIN requests
      /\ requests'[r].step = step /\ requests'[r].seen = seen /\ requests'[r].entry = requests[r].entry
      /\ \A q \in DOMAIN requests \ {r} : requests'[q] = requests[q]
  BY <1>1, AskRow DEF RegistryIInv
<1>3. postgres' = postgres /\ stored' = stored /\ chain' = chain /\ overlapped' = overlapped
  OBVIOUS
<1>4. RegistryShape'
  BY <1>1, <1>2, <1>3 DEF RegistryIInv, RegistryShape
<1>5. OneWriteEach'
  BY <1>1, <1>2, <1>3 DEF RegistryIInv, RegistryShape, OneWriteEach
<1>6. RegistryTypeOK'
  BY <1>1, <1>2, <1>3 DEF RegistryIInv, RegistryShape, OneWriteEach, RegistryTypeOK
<1>7. SnapshotsAreDistinct'
  BY <1>1, <1>2, <1>3 DEF RegistryIInv, SnapshotsAreDistinct, Distinct
<1>8. OneAtATime'
  BY <1>1, <1>2, <1>3, SMTT(30) DEF RegistryIInv, RegistryShape, OneWriteEach, RegistryTypeOK, OneAtATime, Open
<1>9. CreatedStays'
  BY <1>1, <1>2, <1>3 DEF RegistryIInv, CreatedStays
<1> QED BY <1>4, <1>5, <1>6, <1>7, <1>8, <1>9 DEF RegistryIInv


LEMMA ChainStep ==
  ASSUME RegistryIInv, NEW r \in DOMAIN requests, requests[r].step = "check",
         ~ \E e \in requests[r].seen : Same(e, requests[r].entry), CheckAndChain(r)
  PROVE  RegistryIInv'
<1> DEFINE n == Len(chain) + 1
           s == [of |-> r, state |-> requests[r].seen \cup {requests[r].entry}]
<1>a. requests[r] \in RequestRows /\ r \in 1..MaxRequests
  BY RegistryAssumption DEF RegistryIInv, RegistryShape
<1>b. s \in Snapshots /\ s.of = r /\ s.state = requests[r].seen \cup {requests[r].entry}
  BY <1>a DEF RequestRows, Snapshots
<1>c. Ask(r, "write", {}) /\ chain' = Append(chain, s)
  BY DEF CheckAndChain
<1> HIDE DEF s
<1>1. /\ chain' \in Seq(Snapshots) /\ DOMAIN chain' = DOMAIN chain \cup {n} /\ n \notin DOMAIN chain
      /\ chain'[n] = s /\ \A i \in DOMAIN chain : chain'[i] = chain[i]
  BY <1>b, <1>c, PutLast DEF RegistryIInv
<1>2. /\ TRUE
      /\ requests' \in Seq(RequestRows) /\ Len(requests') = Len(requests) /\ DOMAIN requests' = DOMAIN requests
      /\ requests'[r].step = "write" /\ requests'[r].seen = {} /\ requests'[r].entry = requests[r].entry
      /\ \A q \in DOMAIN requests \ {r} : requests'[q] = requests[q]
  BY <1>c, AskRow DEF RegistryIInv, RegistrySteps
<1>3. /\ postgres' = postgres /\ stored' = stored /\ overlapped' = overlapped /\ failures' = failures
      /\ \A i \in DOMAIN chain : chain[i].of # r
      /\ Distinct(s.state)
  <2>1. \A i \in DOMAIN chain : chain[i].of # r
    BY DEF RegistryIInv, RegistryTypeOK
  <2>2. Distinct(requests[r].seen)
    BY DEF RegistryIInv, SnapshotsAreDistinct
  <2>3. Distinct(requests[r].seen \cup {requests[r].entry})
    BY <2>2, DistinctAdd
  <2>4. Distinct(s.state)
    BY <2>3, <1>b
  <2>5. UNCHANGED <<postgres, stored, overlapped, failures>>
    BY DEF CheckAndChain
  <2> QED BY <2>1, <2>4, <2>5
<1>4. RegistryShape'
  BY <1>b, <1>1, <1>2, <1>3 DEF RegistryIInv, RegistryShape
<1>5. OneWriteEach'
  <2>1. \A q \in DOMAIN requests' : (postgres => requests'[q].step \notin {"read", "check", "write"})
                                   /\ (~postgres => requests'[q].step # "insert")
    BY <1>2, <1>3 DEF RegistryIInv, OneWriteEach
  <2>2. \A i, k \in DOMAIN chain' : chain'[i].of = chain'[k].of => i = k
    BY <1>b, <1>1, <1>3 DEF RegistryIInv, OneWriteEach
  <2> QED BY <1>3, <2>1, <2>2 DEF OneWriteEach
<1>6. RegistryTypeOK'
  BY <1>b, <1>1, <1>2, <1>3 DEF RegistryIInv, RegistryShape, OneWriteEach, RegistryTypeOK
<1>7. SnapshotsAreDistinct'
  BY <1>b, <1>1, <1>2, <1>3 DEF RegistryIInv, SnapshotsAreDistinct, Distinct
<1>8. OneAtATime'
  <2> SUFFICES ASSUME ~overlapped, ~postgres PROVE OneAtATime'
    BY <1>3 DEF OneAtATime
  <2>1. \A q, x \in DOMAIN requests' : Open(q)' /\ Open(x)' => q = x
    BY <1>2 DEF RegistryIInv, OneAtATime, Open
  <2>2. \A q \in DOMAIN requests' : requests'[q].step = "check" => requests'[q].seen = stored'
    BY <1>2, <1>3 DEF RegistryIInv, OneAtATime
  <2>3. requests[r].seen = stored
    BY DEF RegistryIInv, OneAtATime
  <2>4. \A i \in DOMAIN chain : chain'[i].state = stored' \cup {requests'[chain'[i].of].entry}
    BY <1>1, <1>2, <1>3 DEF RegistryIInv, RegistryShape, OneAtATime
  <2>5. chain'[n].state = stored' \cup {requests'[chain'[n].of].entry}
    BY <1>b, <1>1, <1>2, <1>3, <2>3
  <2> QED BY <1>1, <2>1, <2>2, <2>4, <2>5 DEF OneAtATime
<1>9. CreatedStays'
  BY <1>b, <1>1, <1>2, <1>3 DEF RegistryIInv, CreatedStays
<1> QED BY <1>4, <1>5, <1>6, <1>7, <1>8, <1>9 DEF RegistryIInv


\* The first write is done, or fails.
LEMMA FirstStep ==
  ASSUME RegistryIInv, chain # <<>>, chain' = Tail(chain),
         NEW step \in {"created", "failed"}, Ask(chain[1].of, step, {}),
         stored' = (IF step = "created" THEN chain[1].state ELSE stored),
         UNCHANGED <<postgres, overlapped>>, failures' \in 0..MaxFailures
  PROVE  RegistryIInv'
<1> DEFINE r == chain[1].of
<1>1. /\ 1 \in DOMAIN chain /\ r \in DOMAIN requests /\ chain[1].state \in SUBSET Stamped
      /\ chain' \in Seq(Snapshots)
      /\ \A i \in DOMAIN chain' : i + 1 \in DOMAIN chain /\ chain'[i] = chain[i + 1] /\ i + 1 # 1
      /\ \A k \in DOMAIN chain \ {1} : \E i \in DOMAIN chain' : k = i + 1
  BY TakeFirst DEF RegistryIInv
<1>2. /\ TRUE
      /\ requests' \in Seq(RequestRows) /\ Len(requests') = Len(requests) /\ DOMAIN requests' = DOMAIN requests
      /\ requests'[r].step = step /\ requests'[r].seen = {} /\ requests'[r].entry = requests[r].entry
      /\ \A q \in DOMAIN requests \ {r} : requests'[q] = requests[q]
  BY <1>1, AskRow DEF RegistryIInv, RegistrySteps
<1>3. /\ postgres' = postgres /\ overlapped' = overlapped /\ chain[1].of = r
      /\ requests[r].step = "write" /\ ~postgres
      /\ \A i \in DOMAIN chain' : chain'[i].of # r
  BY <1>1 DEF RegistryIInv, RegistryTypeOK, OneWriteEach
<1> HIDE DEF r
<1>4. RegistryShape'
  BY <1>1, <1>2, <1>3 DEF RegistryIInv, RegistryShape
<1>5. OneWriteEach'
  <2>1. \A q \in DOMAIN requests' : (postgres => requests'[q].step \notin {"read", "check", "write"})
                                   /\ (~postgres => requests'[q].step # "insert")
    BY <1>1, <1>2, <1>3 DEF RegistryIInv, OneWriteEach
  <2>2. ASSUME NEW i \in DOMAIN chain', NEW k \in DOMAIN chain', chain'[i].of = chain'[k].of PROVE i = k
    <3>1. i + 1 = k + 1
      BY <1>1, <2>2, SMTT(30) DEF RegistryIInv, OneWriteEach
    <3>2. i \in Nat /\ k \in Nat
      BY <1>1, SMTT(30)
    <3> QED BY <3>1, <3>2
  <2> QED BY <1>3, <2>1, <2>2 DEF OneWriteEach
<1>6. RegistryTypeOK'
  <2>1. \A q \in DOMAIN requests \ {r} : (\E i \in DOMAIN chain : chain[i].of = q) <=> (\E i \in DOMAIN chain' : chain'[i].of = q)
    <3>1. ASSUME NEW q \in DOMAIN requests \ {r}, NEW i \in DOMAIN chain, chain[i].of = q
          PROVE  \E k \in DOMAIN chain' : chain'[k].of = q
      <4>1. i # 1
        BY <1>3, <3>1
      <4>2. PICK k \in DOMAIN chain' : i = k + 1
        BY <1>1, <4>1
      <4> QED BY <1>1, <3>1, <4>2
    <3> QED BY <1>1, <3>1
  <2>2. ASSUME NEW q \in DOMAIN requests'
        PROVE  /\ requests'[q].step \in RegistrySteps /\ (requests'[q].step # "check" => requests'[q].seen = {})
               /\ requests'[q].step = "write" <=> \E i \in DOMAIN chain' : chain'[i].of = q
    <3>1. CASE q = r
      <4>1. requests'[q].step = step /\ requests'[q].seen = {}
        BY <1>2, <3>1
      <4>2. ~\E i \in DOMAIN chain' : chain'[i].of = q
        BY <1>3, <3>1
      <4> QED BY <4>1, <4>2 DEF RegistrySteps
    <3>2. CASE q # r
      <4>1. q \in DOMAIN requests \ {r} /\ requests'[q] = requests[q]
        BY <1>2, <2>2, <3>2
      <4>2. /\ requests[q].step \in RegistrySteps /\ (requests[q].step # "check" => requests[q].seen = {})
            /\ requests[q].step = "write" <=> \E i \in DOMAIN chain : chain[i].of = q
        BY <4>1 DEF RegistryIInv, RegistryTypeOK, RegistrySteps
      <4> QED BY <2>1, <4>1, <4>2
    <3> QED BY <3>1, <3>2
  <2>3. \A q \in DOMAIN requests' :
          /\ requests'[q].step \in RegistrySteps /\ (requests'[q].step # "check" => requests'[q].seen = {})
          /\ requests'[q].step = "write" <=> \E i \in DOMAIN chain' : chain'[i].of = q
    BY <2>2
  <2>4. postgres' => (chain' = <<>> /\ ~overlapped')
    BY <1>3
  <2>5. failures' \in 0..MaxFailures
    OBVIOUS
  <2> QED BY <2>3, <2>4, <2>5 DEF RegistryTypeOK, RegistrySteps
<1>7. SnapshotsAreDistinct'
  BY <1>1, <1>2, <1>3, ZenonT(30) DEF RegistryIInv, SnapshotsAreDistinct, Distinct
<1>a. ASSUME ~overlapped
      PROVE  /\ DOMAIN chain' = {}
             /\ \A q \in DOMAIN requests \ {r} : ~Open(q)
             /\ chain[1].state = stored \cup {requests[r].entry}
  <2>1. \A q \in DOMAIN requests \ {r} : ~Open(q)
    BY <1>a, <1>1, <1>3 DEF RegistryIInv, OneAtATime, Open
  <2>2. ASSUME NEW i \in DOMAIN chain' PROVE FALSE
    <3>1. chain'[i].of \in DOMAIN requests \ {r} /\ requests[chain'[i].of].step = "write"
      BY <1>1, <1>3, SMTT(30) DEF RegistryIInv, RegistryShape, RegistryTypeOK
    <3> QED BY <2>1, <3>1 DEF Open
  <2>3. chain[1].state = stored \cup {requests[r].entry}
    BY <1>a, <1>1, <1>3 DEF RegistryIInv, OneAtATime
  <2> QED BY <2>1, <2>2, <2>3
<1>8. OneAtATime'
  <2> SUFFICES ASSUME ~overlapped, ~postgres PROVE OneAtATime'
    BY <1>3 DEF OneAtATime
  <2>1. \A q \in DOMAIN requests' : requests'[q].step \notin {"read", "check", "write", "insert"}
    BY <1>2, <1>a DEF Open
  <2> QED BY <1>a, <2>1 DEF OneAtATime, Open
<1>9. CreatedStays'
  <2> SUFFICES ASSUME ~overlapped PROVE CreatedStays'
    BY <1>3 DEF CreatedStays
  <2>1. stored \subseteq stored' /\ (step = "created" => requests[r].entry \in stored')
    BY <1>a
  <2> QED BY <1>2, <1>3, <2>1 DEF RegistryIInv, CreatedStays
<1> QED BY <1>4, <1>5, <1>6, <1>7, <1>8, <1>9 DEF RegistryIInv


LEMMA InsertStep ==
  ASSUME RegistryIInv, NEW r \in DOMAIN requests, requests[r].step = "insert",
         ~ \E e \in stored : Same(e, requests[r].entry), Insert(r)
  PROVE  RegistryIInv'
<1>1. /\ stored' = stored \cup {requests[r].entry} /\ stored' \in SUBSET Stamped /\ Distinct(stored')
  <2>1. requests[r] \in RequestRows /\ stored \in SUBSET Stamped /\ Distinct(stored)
    BY DEF RegistryIInv, RegistryShape, SnapshotsAreDistinct
  <2>2. stored' = stored \cup {requests[r].entry} /\ requests[r].entry \in Stamped
    BY <2>1 DEF Insert, RequestRows
  <2> QED BY <2>1, <2>2, DistinctAdd
<1>2. /\ TRUE
      /\ requests' \in Seq(RequestRows) /\ Len(requests') = Len(requests) /\ DOMAIN requests' = DOMAIN requests
      /\ requests'[r].step = "created" /\ requests'[r].seen = {} /\ requests'[r].entry = requests[r].entry
      /\ \A q \in DOMAIN requests \ {r} : requests'[q] = requests[q]
  BY AskRow DEF RegistryIInv, RegistrySteps, Insert
<1>3. /\ postgres' = postgres /\ overlapped' = overlapped /\ chain' = chain /\ failures' = failures
      /\ postgres
  BY DEF Insert, RegistryIInv, OneWriteEach
<1>4. RegistryShape'
  BY <1>1, <1>2, <1>3 DEF RegistryIInv, RegistryShape
<1>5. OneWriteEach'
  BY <1>1, <1>2, <1>3 DEF RegistryIInv, RegistryShape, OneWriteEach
<1>6. RegistryTypeOK'
  BY <1>1, <1>2, <1>3 DEF RegistryIInv, RegistryShape, OneWriteEach, RegistryTypeOK
<1>7. SnapshotsAreDistinct'
  BY <1>1, <1>2, <1>3 DEF RegistryIInv, SnapshotsAreDistinct, Distinct
<1>8. OneAtATime'
  BY <1>1, <1>2, <1>3 DEF RegistryIInv, RegistryShape, OneWriteEach, RegistryTypeOK, OneAtATime, Open
<1>9. CreatedStays'
  BY <1>1, <1>2, <1>3 DEF RegistryIInv, CreatedStays
<1> QED BY <1>4, <1>5, <1>6, <1>7, <1>8, <1>9 DEF RegistryIInv


LEMMA RestartStep ==
  ASSUME RegistryIInv, Restart
  PROVE  RegistryIInv'
<1>1. /\ chain' = <<>> /\ DOMAIN chain' = {} /\ chain' \in Seq(Snapshots)
  <2>1. chain' = <<>>
    BY DEF Restart
  <2> QED BY <2>1
<1>2. /\ requests' \in Seq(RequestRows) /\ Len(requests') = Len(requests) /\ DOMAIN requests' = DOMAIN requests
      /\ \A r \in DOMAIN requests : Open(r) => requests'[r].step = "failed" /\ requests'[r].seen = {}
      /\ \A r \in DOMAIN requests : ~Open(r) => requests'[r] = requests[r]
  <2>1. requests \in Seq(RequestRows)
    BY DEF RegistryIInv, RegistryShape
  <2> DEFINE after(r) == [requests[r] EXCEPT !.step = "failed", !.seen = {}]
  <2>2. \A r \in DOMAIN requests : after(r) \in RequestRows /\ after(r).step = "failed" /\ after(r).seen = {}
    <3>1. \A r \in DOMAIN requests : requests[r] \in RequestRows
      BY <2>1
    <3>2. "failed" \in RegistrySteps /\ {} \in SUBSET Stamped
      BY DEF RegistrySteps
    <3> QED BY <3>1, <3>2 DEF RequestRows, RegistrySteps
  <2>3. requests' = [r \in DOMAIN requests |-> IF Open(r) THEN after(r) ELSE requests[r]]
    BY DEF Restart
  <2> HIDE DEF after
  <2> QED BY <2>1, <2>2, <2>3
<1>3. /\ postgres' = postgres /\ overlapped' = overlapped /\ stored' = stored /\ failures' \in 0..MaxFailures
  <2>1. failures' = failures + 1 /\ failures < MaxFailures /\ failures \in 0..MaxFailures
    BY DEF Restart, RegistryIInv, RegistryShape
  <2>2. failures' \in 0..MaxFailures
    BY <2>1, RegistryAssumption
  <2> QED BY <2>2 DEF Restart
<1>4. RegistryShape'
  BY <1>1, <1>2, <1>3 DEF RegistryIInv, RegistryShape
<1>5. OneWriteEach'
  BY <1>1, <1>2, <1>3 DEF RegistryIInv, RegistryShape, OneWriteEach
<1>6. RegistryTypeOK'
  BY <1>1, <1>2, <1>3 DEF RegistryIInv, RegistryShape, OneWriteEach, RegistryTypeOK, Open
<1>7. SnapshotsAreDistinct'
  BY <1>1, <1>2, <1>3 DEF RegistryIInv, SnapshotsAreDistinct, Distinct
<1>8. OneAtATime'
  BY <1>1, <1>2, <1>3 DEF RegistryIInv, RegistryShape, OneWriteEach, RegistryTypeOK, OneAtATime, Open
<1>9. CreatedStays'
  BY <1>1, <1>2, <1>3 DEF RegistryIInv, CreatedStays, Open
<1> QED BY <1>4, <1>5, <1>6, <1>7, <1>8, <1>9 DEF RegistryIInv


\* Every step of the registry.
LEMMA RegistryStep ==
  ASSUME RegistryIInv, [RegistryNext]_registryVars
  PROVE  RegistryIInv'
<1>1. failures < MaxFailures => failures + 1 \in 0..MaxFailures
  BY RegistryAssumption DEF RegistryIInv, RegistryShape
<1>2. failures \in 0..MaxFailures
  BY DEF RegistryIInv, RegistryShape
<1>3. CASE \E entry \in Entries : AddCapability(entry)
  BY <1>3, AddStep
<1>4. ASSUME NEW r \in DOMAIN requests, ReadLocalState(r) PROVE RegistryIInv'
  BY <1>2, <1>4, AskStep DEF ReadLocalState
<1>5. ASSUME NEW r \in DOMAIN requests, CheckAndChain(r) PROVE RegistryIInv'
  <2>1. requests[r].step = "check" /\ UNCHANGED <<postgres, stored, overlapped, failures>>
    BY <1>5 DEF CheckAndChain
  <2>2. CASE \E e \in requests[r].seen : Same(e, requests[r].entry)
    BY <1>2, <1>5, <2>1, <2>2, AskStep DEF CheckAndChain
  <2> QED BY <1>5, <2>1, <2>2, ChainStep
<1>6. ASSUME NEW r \in DOMAIN requests, Insert(r) PROVE RegistryIInv'
  <2>1. requests[r].step = "insert" /\ UNCHANGED <<postgres, chain, overlapped, failures>>
    BY <1>6 DEF Insert
  <2>2. CASE \E e \in stored : Same(e, requests[r].entry)
    BY <1>2, <1>6, <2>1, <2>2, AskStep DEF Insert
  <2> QED BY <1>6, <2>1, <2>2, InsertStep
<1>7. CASE WriteSnapshot
  <2>1. Head(chain) = chain[1] /\ chain # <<>>
    BY <1>7, TakeFirst DEF WriteSnapshot, RegistryIInv
  <2> QED BY <1>2, <1>7, <2>1, FirstStep DEF WriteSnapshot
<1>8. CASE WriteFails
  <2>1. Head(chain) = chain[1] /\ chain # <<>>
    BY <1>8, TakeFirst DEF WriteFails, RegistryIInv
  <2> QED BY <1>1, <1>8, <2>1, FirstStep DEF WriteFails, Rest
<1>9. ASSUME NEW r \in DOMAIN requests, ReadFails(r) \/ QueryFails(r) PROVE RegistryIInv'
  <2>1. /\ requests[r].step \in {"read", "insert"} /\ Ask(r, "failed", {})
        /\ UNCHANGED <<postgres, stored, chain, overlapped>> /\ failures' \in 0..MaxFailures
    BY <1>1, <1>9 DEF ReadFails, QueryFails, Unreadable
  <2> QED BY <2>1, AskStep
<1>10. CASE Restart
  BY <1>10, RestartStep
<1>11. CASE UNCHANGED registryVars
  BY <1>11 DEF registryVars, RegistryIInv, RegistryTypeOK, RegistryShape, OneWriteEach, SnapshotsAreDistinct,
     Distinct, Same, OneAtATime, CreatedStays, Open
<1> QED BY <1>3, <1>4, <1>5, <1>6, <1>7, <1>8, <1>9, <1>10, <1>11 DEF RegistryNext, Serve

\* Whatever requests overlap and whatever fails, the registry keeps its invariant.
THEOREM RegistryInvariance == RegistrySpec => []RegistryIInv
BY RegistryStart, RegistryStep, PTL DEF RegistrySpec

\* An entry whose creation was confirmed stays, unless a JSON store served
\* two requests at once.
THEOREM ConfirmedEntriesStay == RegistrySpec => []CreatedStays
<1>1. RegistryIInv => CreatedStays
  BY DEF RegistryIInv
<1> QED BY <1>1, RegistryInvariance, PTL

\* No two stored entries share a version of one slug or one capability.
THEOREM StoredVersionsAreUnique == RegistrySpec => []VersionsAreUnique
<1>1. RegistryIInv => VersionsAreUnique
  BY DEF RegistryIInv, SnapshotsAreDistinct, Distinct, Same, VersionsAreUnique
<1> QED BY <1>1, RegistryInvariance, PTL

\* The comparison that decides the latest version is a weak order, so sorting
\* by it is well defined; and unless a prerelease's text decides, it is the
\* order of semantic versions.
VersionRecords == [core : Nat, pre : Nat, text : Nat]

THEOREM CompareIsPrecedence ==
  ASSUME NEW a \in VersionRecords, NEW b \in VersionRecords, NEW c \in VersionRecords,
         \A v \in {a, b} : v.pre = 0 => v.text = 0
  PROVE  /\ Compare(a, b) < 0 <=> Compare(b, a) > 0
         /\ Compare(a, b) <= 0 /\ Compare(b, c) <= 0 => Compare(a, c) <= 0
         /\ ~TextDecides(a, b) => (Compare(a, b) < 0 <=> Precedes(a, b))
<1>1. /\ a.core \in Nat /\ a.pre \in Nat /\ a.text \in Nat
      /\ b.core \in Nat /\ b.pre \in Nat /\ b.text \in Nat
      /\ c.core \in Nat /\ c.pre \in Nat /\ c.text \in Nat
  BY DEF VersionRecords
<1>2. Compare(a, b) < 0 <=> Compare(b, a) > 0
  BY <1>1 DEF Compare
<1>3. Compare(a, b) <= 0 /\ Compare(b, c) <= 0 => Compare(a, c) <= 0
  BY <1>1 DEF Compare
<1>4. ASSUME ~TextDecides(a, b) PROVE Compare(a, b) < 0 <=> Precedes(a, b)
  BY <1>1, <1>4 DEF Compare, Precedes, TextDecides
<1> QED BY <1>2, <1>3, <1>4

-----------------------------------------------------------------------------
(***************************************************************************)
(* Installations in a workspace (module CapabilityInstall).                *)
(***************************************************************************)
(* Bundles: lists of different files.                                      *)

FileList(b, S) == b \in Seq(S) /\ \A i, k \in DOMAIN b : b[i] = b[k] => i = k

LEMMA ListsJoin ==
  ASSUME NEW S, NEW T, S \cap T = {}, NEW s, NEW t, FileList(s, S), FileList(t, T)
  PROVE  /\ FileList(s \o t, S \cup T) /\ Len(s \o t) = Len(s) + Len(t) /\ Len(s) \in Nat /\ Len(t) \in Nat
         /\ Len(s) >= 1 => (s \o t)[1] = s[1]
<1>1. s \in Seq(S) /\ t \in Seq(T) /\ s \in Seq(S \cup T) /\ t \in Seq(S \cup T)
  BY DEF FileList
<1> DEFINE b == s \o t
           n == Len(s)
           m == Len(t)
<1>2. n \in Nat /\ m \in Nat /\ DOMAIN s = 1..n /\ DOMAIN t = 1..m
  BY <1>1
<1>3. b \in Seq(S \cup T) /\ Len(b) = n + m /\ DOMAIN b = 1..n + m
  BY <1>1
<1>4. \A i \in 1..n : b[i] = s[i] /\ s[i] \in S
  BY <1>1
<1>5. \A i \in (n + 1)..(n + m) : b[i] = t[i - n] /\ i - n \in 1..m
  BY <1>1, <1>2
<1>6. \A i \in 1..m : t[i] \in T
  BY <1>1
<1> HIDE DEF b, n, m
<1>7. ASSUME NEW i \in 1..n + m, NEW k \in 1..n + m, b[i] = b[k] PROVE i = k
  <2>1. CASE i \in 1..n /\ k \in 1..n
    BY <1>2, <1>4, <1>7, <2>1 DEF FileList
  <2>2. CASE i \in (n + 1)..(n + m) /\ k \in (n + 1)..(n + m)
    <3>1. t[i - n] = t[k - n] /\ i - n \in 1..m /\ k - n \in 1..m
      BY <1>5, <1>7, <2>2
    <3>2. i - n = k - n
      BY <1>2, <3>1 DEF FileList
    <3> QED BY <1>2, <3>2
  <2>3. CASE i \in 1..n /\ k \in (n + 1)..(n + m)
    BY <1>4, <1>5, <1>6, <1>7, <2>3
  <2>4. CASE k \in 1..n /\ i \in (n + 1)..(n + m)
    BY <1>4, <1>5, <1>6, <1>7, <2>4
  <2> QED BY <1>2, <2>1, <2>2, <2>3, <2>4
<1>8. n >= 1 => b[1] = s[1]
  BY <1>2, <1>4
<1> QED BY <1>2, <1>3, <1>7, <1>8 DEF FileList, b, n, m

LEMMA ShortLists ==
  /\ \A x : FileList(<<x>>, {x}) /\ Len(<<x>>) = 1 /\ <<x>>[1] = x
  /\ \A x : FileList(<<>>, {x}) /\ Len(<<>>) = 0
  /\ FileList(CodexGuard, {"marketplace.json", "config.toml", "plugins/skill"}) /\ Len(CodexGuard) = 3
  /\ LET rest == <<"plugin.json", "marketplace.json", "config.toml">>
     IN  FileList(rest, {"plugin.json", "marketplace.json", "config.toml"}) /\ Len(rest) = 3
<1>1. \A x : FileList(<<x>>, {x}) /\ Len(<<x>>) = 1 /\ <<x>>[1] = x
  BY DEF FileList
<1>2. \A x : FileList(<<>>, {x}) /\ Len(<<>>) = 0
  BY DEF FileList
<1>3. FileList(CodexGuard, {"marketplace.json", "config.toml", "plugins/skill"}) /\ Len(CodexGuard) = 3
  BY DEF FileList, CodexGuard
<1> DEFINE rest == <<"plugin.json", "marketplace.json", "config.toml">>
<1>4. FileList(rest, {"plugin.json", "marketplace.json", "config.toml"}) /\ Len(rest) = 3
  BY DEF FileList
<1> QED BY <1>1, <1>2, <1>3, <1>4

CodexPaths == {"plugins/skill", "plugins/details", "plugin.json", "marketplace.json", "config.toml"}

\* What a verification installs, and what it checks before.
LEMMA BundleIs ==
  ASSUME InstallShape, NEW j \in Jobs
  PROVE  /\ Bundle(j) \in Seq(Paths) /\ Len(Bundle(j)) \in Nat /\ Len(Bundle(j)) >= 1
         /\ DOMAIN Bundle(j) = 1..Len(Bundle(j)) /\ \A i \in DOMAIN Bundle(j) : Bundle(j)[i] \in Paths
         /\ \A i, k \in DOMAIN Bundle(j) : Bundle(j)[i] = Bundle(j)[k] => i = k
         /\ Len(Guarded(j)) \in 0..Len(Bundle(j)) /\ plans[j] \in PlanRows
         /\ IsNative(j) =>
              \/ Guarded(j) = CodexGuard /\ \A i \in DOMAIN Bundle(j) : Bundle(j)[i] \in CodexPaths
              \/ /\ Guarded(j) = <<Skill(j)>> /\ Len(Bundle(j)) = 1
                 /\ Skill(j) \in {".claude/skill", ".cursor/skill", ".opencode/skill"}
<1>1. plans \in [Jobs -> PlanRows]
  BY InstallAssumption DEF InstallShape
<1>2. plans[j] \in PlanRows /\ plans[j].harness \in {"codex", "claude-code", "cursor", "opencode"}
  BY <1>1 DEF PlanRows, Verifiable
<1> DEFINE b == Bundle(j)
<1>3. ASSUME FileList(b, Paths), Len(b) \in Nat
      PROVE  /\ b \in Seq(Paths) /\ DOMAIN b = 1..Len(b) /\ \A i \in DOMAIN b : b[i] \in Paths
             /\ \A i, k \in DOMAIN b : b[i] = b[k] => i = k
  <2>1. b \in Seq(Paths)
    BY <1>3 DEF FileList
  <2> HIDE DEF b
  <2>2. DOMAIN b = 1..Len(b) /\ \A i \in DOMAIN b : b[i] \in Paths
    BY <2>1
  <2> QED BY <1>3, <2>1, <2>2 DEF FileList
<1>4. \A S \in SUBSET Paths : \A l : FileList(l, S) => FileList(l, Paths)
  BY DEF FileList
<1>5. \A x \in Paths : FileList(When(Split(j), <<x>>), {x}) /\ Len(When(Split(j), <<x>>)) \in {0, 1}
  BY ShortLists DEF When
<1>6. CASE ~IsNative(j)
  <2>1. b = ArtifactFiles(plans[j].harness, Split(j)) /\ Guarded(j) = <<>>
    BY <1>6 DEF Bundle, Guarded
  <2>2. CASE plans[j].harness \in {"cursor", "opencode"}
    <3>1. PICK x \in Paths : b = <<x>>
      BY <2>1, <2>2 DEF ArtifactFiles, Paths
    <3>2. FileList(b, {x}) /\ Len(b) = 1
      BY <3>1, ShortLists
    <3> HIDE DEF b
    <3>3. FileList(b, Paths)
      BY <1>4, <3>2
    <3> QED BY <1>2, <1>3, <1>6, <2>1, <3>2, <3>3 DEF b
  <2>3. CASE plans[j].harness \notin {"cursor", "opencode"}
    <3> DEFINE more == When(Split(j), <<"details">>)
    <3>1. b = <<"skill">> \o more
      BY <2>1, <2>3 DEF ArtifactFiles
    <3>2. FileList(<<"skill">>, {"skill"}) /\ FileList(more, {"details"}) /\ Len(<<"skill">>) = 1 /\ Len(more) \in {0, 1}
      <4>1. "details" \in Paths
        BY DEF Paths
      <4> QED BY <1>5, <4>1, ShortLists
    <3> HIDE DEF more, b
    <3>3. FileList(b, {"skill"} \cup {"details"}) /\ Len(b) = 1 + Len(more)
      BY <3>1, <3>2, ListsJoin
    <3>4. FileList(b, Paths) /\ Len(b) \in Nat /\ Len(b) >= 1
      BY <1>4, <3>2, <3>3 DEF Paths
    <3> QED BY <1>2, <1>3, <1>6, <2>1, <3>4 DEF b
  <2> QED BY <2>2, <2>3
<1>7. CASE IsNative(j) /\ plans[j].harness = "codex"
  <2> DEFINE more == When(Split(j), <<"plugins/details">>)
             rest == <<"plugin.json", "marketplace.json", "config.toml">>
             first == <<"plugins/skill">> \o more
  <2>1. b = first \o rest /\ Guarded(j) = CodexGuard
    BY <1>7 DEF Bundle, CodexFiles, Guarded
  <2>2. /\ FileList(<<"plugins/skill">>, {"plugins/skill"}) /\ Len(<<"plugins/skill">>) = 1
        /\ FileList(more, {"plugins/details"}) /\ Len(more) \in {0, 1}
        /\ FileList(rest, {"plugin.json", "marketplace.json", "config.toml"}) /\ Len(rest) = 3
    <3>1. "plugins/details" \in Paths
      BY DEF Paths
    <3> QED BY <1>5, <3>1, ShortLists
  <2>3. Len(Guarded(j)) = 3
    BY <2>1, ShortLists
  <2> HIDE DEF more, rest
  <2>4. FileList(first, {"plugins/skill"} \cup {"plugins/details"}) /\ Len(first) = 1 + Len(more)
    BY <2>2, ListsJoin
  <2> HIDE DEF first, b
  <2> DEFINE S == {"plugins/skill"} \cup {"plugins/details"}
             T == {"plugin.json", "marketplace.json", "config.toml"}
  <2>a. S \cap T = {} /\ S \cup T = CodexPaths
    BY DEF CodexPaths
  <2>b. FileList(first, S) /\ FileList(rest, T)
    BY <2>2, <2>4
  <2> HIDE DEF S, T
  <2>5. FileList(b, CodexPaths) /\ Len(b) = 1 + Len(more) + 3
    <3>1. FileList(first \o rest, S \cup T) /\ Len(first \o rest) = Len(first) + Len(rest)
      BY <2>a, <2>b, ListsJoin
    <3> QED BY <2>1, <2>2, <2>4, <2>a, <3>1
  <2>6. CodexPaths \in SUBSET Paths
    BY DEF CodexPaths, Paths
  <2>7. FileList(b, Paths) /\ Len(b) \in Nat /\ Len(b) >= 3
    BY <1>4, <2>2, <2>5, <2>6
  <2>8. \A i \in DOMAIN b : b[i] \in CodexPaths
    BY <2>5 DEF FileList
  <2> QED BY <1>2, <1>3, <1>7, <2>1, <2>3, <2>7, <2>8 DEF b
<1>8. CASE IsNative(j) /\ plans[j].harness # "codex"
  <2>1. PICK x \in {".claude/skill", ".cursor/skill", ".opencode/skill"} : b = <<x>>
    BY <1>2, <1>8 DEF Bundle, ClaudeFiles, CursorFiles, OpenCodeFiles
  <2>2. FileList(b, {x}) /\ Len(b) = 1 /\ Skill(j) = x /\ x \in Paths
    BY <2>1, ShortLists DEF Skill, Paths
  <2>3. Guarded(j) = <<Skill(j)>> /\ Len(Guarded(j)) = 1
    BY <1>8 DEF Guarded
  <2> HIDE DEF b
  <2>4. FileList(b, Paths)
    BY <1>4, <2>2
  <2> QED BY <1>2, <1>3, <1>8, <2>2, <2>3, <2>4 DEF b
<1> QED BY <1>6, <1>7, <1>8

-----------------------------------------------------------------------------
(* What a step does to the row of its verification.                        *)

RowBecomes(j, step, at, attempt, outcome) ==
  /\ job' \in [Jobs -> JobRows]
  /\ \A k \in Jobs \ {j} : job'[k] = job[k]
  /\ job'[j].step = step /\ job'[j].at = at
  /\ job'[j].attempt = attempt /\ job'[j].outcome = outcome
SameCopies(j) == job'[j].backup = job[j].backup /\ job'[j].seen = job[j].seen
SameInstalled(j) == job'[j].installed = job[j].installed
SameCounts(j) ==
  /\ job'[j].ops = job[j].ops /\ job'[j].left = job[j].left
  /\ job'[j].passed = job[j].passed /\ job'[j].proofs = job[j].proofs

LEMMA GotoRow ==
  ASSUME InstallShape, NEW j \in Jobs, NEW step,
         step \in {"check", "write", "record", "cases", "read", "restore"}, Goto(j, step)
  PROVE  /\ RowBecomes(j, step, job[j].at, job[j].attempt, job[j].outcome)
         /\ SameCopies(j) /\ SameInstalled(j) /\ SameCounts(j)
<1>1. job \in [Jobs -> JobRows]
  BY DEF InstallShape
<1> DEFINE new == [job[j] EXCEPT !.step = step]
<1>2. job' = [job EXCEPT ![j] = new]
  BY <1>1 DEF Goto, JobRows
<1>3. job[j] \in JobRows
  BY <1>1
<1>4. /\ new \in JobRows /\ new.step = step /\ new.at = job[j].at /\ new.attempt = job[j].attempt
      /\ new.outcome = job[j].outcome /\ new.backup = job[j].backup /\ new.seen = job[j].seen
      /\ new.installed = job[j].installed /\ new.ops = job[j].ops /\ new.left = job[j].left
      /\ new.passed = job[j].passed /\ new.proofs = job[j].proofs
  BY <1>3 DEF JobRows
<1> HIDE DEF new
<1> QED BY <1>1, <1>2, <1>4 DEF RowBecomes, SameCopies, SameInstalled, SameCounts

LEMMA ThrowRow ==
  ASSUME InstallShape, NEW j \in Jobs, Throw(j)
  PROVE  /\ RowBecomes(j, "done", job[j].at, job[j].attempt, "thrown")
         /\ SameCopies(j) /\ SameInstalled(j) /\ SameCounts(j)
<1>1. job \in [Jobs -> JobRows]
  BY DEF InstallShape
<1> DEFINE new == [job[j] EXCEPT !.step = "done", !.outcome = "thrown"]
<1>2. job' = [job EXCEPT ![j] = new]
  BY <1>1 DEF Throw, JobRows
<1>3. job[j] \in JobRows
  BY <1>1
<1>4. /\ new \in JobRows /\ new.step = "done" /\ new.at = job[j].at /\ new.attempt = job[j].attempt
      /\ new.outcome = "thrown" /\ new.backup = job[j].backup /\ new.seen = job[j].seen
      /\ new.installed = job[j].installed /\ new.ops = job[j].ops /\ new.left = job[j].left
      /\ new.passed = job[j].passed /\ new.proofs = job[j].proofs
  BY <1>3 DEF JobRows
<1> HIDE DEF new
<1> QED BY <1>1, <1>2, <1>4 DEF RowBecomes, SameCopies, SameInstalled, SameCounts

Moves(j, step, at, attempt, outcome) ==
  job' = [job EXCEPT ![j].step = step, ![j].at = at, ![j].attempt = attempt, ![j].outcome = outcome]
LEMMA MoveRow ==
  ASSUME InstallShape, NEW j \in Jobs,
         NEW step \in {"check", "copy", "compare", "read", "cases", "done"}, NEW at \in Nat, NEW attempt \in 0..2,
         NEW outcome \in {"none", "thrown", "retained", "receipt", "died"},
         Moves(j, step, at, attempt, outcome)
  PROVE  /\ RowBecomes(j, step, at, attempt, outcome)
         /\ SameCopies(j) /\ SameInstalled(j) /\ SameCounts(j)
<1>1. job \in [Jobs -> JobRows]
  BY DEF InstallShape
<1> DEFINE new == [job[j] EXCEPT !.step = step, !.at = at, !.attempt = attempt, !.outcome = outcome]
<1>2. job' = [job EXCEPT ![j] = new]
  BY <1>1 DEF Moves, JobRows
<1>3. job[j] \in JobRows
  BY <1>1
<1>4. /\ new \in JobRows /\ new.step = step /\ new.at = at /\ new.attempt = attempt
      /\ new.outcome = outcome /\ new.backup = job[j].backup /\ new.seen = job[j].seen
      /\ new.installed = job[j].installed /\ new.ops = job[j].ops /\ new.left = job[j].left
      /\ new.passed = job[j].passed /\ new.proofs = job[j].proofs
  BY <1>3 DEF JobRows
<1> HIDE DEF new
<1>5. job' \in [Jobs -> JobRows] /\ job'[j] = new /\ \A k \in Jobs \ {j} : job'[k] = job[k]
  BY <1>1, <1>2, <1>4
<1>6. RowBecomes(j, step, at, attempt, outcome)
  BY <1>4, <1>5 DEF RowBecomes
<1> QED BY <1>4, <1>5, <1>6 DEF SameCopies, SameInstalled, SameCounts


Untouched == KeepDisk /\ Keep
SameRow(j) == SameCopies(j) /\ SameInstalled(j) /\ SameCounts(j)
Thrown(j) == RowBecomes(j, "done", job[j].at, job[j].attempt, "thrown") /\ SameRow(j)

LEMMA StepFacts ==
  ASSUME InstallShape, NEW j \in Jobs
  PROVE  /\ Begin(j) =>
              /\ job[j].step = "idle" /\ Untouched /\ SameRow(j)
              /\ RowBecomes(j, "check", job[j].at, job[j].attempt, job[j].outcome)
         /\ Check(j) =>
              /\ job[j].step = "check" /\ Untouched
              /\ \/ /\ job[j].at > Len(Guarded(j)) /\ SameRow(j)
                    /\ RowBecomes(j, "copy", 1, job[j].attempt, job[j].outcome)
                 \/ /\ job[j].at <= Len(Guarded(j)) /\ ~Exists(Guarded(j)[job[j].at]) /\ SameRow(j)
                    /\ RowBecomes(j, "check", job[j].at + 1, job[j].attempt, job[j].outcome)
                 \/ Thrown(j)
         /\ Write(j) =>
              /\ job[j].step = "write" /\ disk' = [disk EXCEPT ![File(j)] = Content(j, File(j))]
              /\ RowBecomes(j, "record", job[j].at, job[j].attempt, job[j].outcome) /\ SameRow(j)
              /\ dirs' = dirs /\ Keep
         /\ WriteReceipt(j) =>
              /\ job[j].step = "receipt" /\ Untouched /\ SameRow(j)
              /\ \E step \in {"read", "cases"} : RowBecomes(j, step, job[j].at, job[j].attempt, job[j].outcome)
         /\ ReadArtifact(j) =>
              /\ job[j].step = "read" /\ Untouched
              /\ \/ /\ job[j].at # Len(Bundle(j)) /\ SameRow(j)
                    /\ RowBecomes(j, "read", job[j].at + 1, job[j].attempt, job[j].outcome)
                 \/ RowBecomes(j, "cases", 1, job[j].attempt, job[j].outcome) /\ SameRow(j)
                 \/ Thrown(j)
         /\ Judge(j) =>
              /\ job[j].step = "cases" /\ Untouched /\ SameRow(j)
              /\ \/ RowBecomes(j, "done", job[j].ops, 1, "retained")
                 \/ RowBecomes(j, "compare", job[j].ops, 1, job[j].outcome)
         /\ RollbackStops(j) =>
              \/ RowBecomes(j, "compare", job[j].ops, 2, job[j].outcome) /\ SameRow(j)
              \/ Thrown(j)
         /\ Finish(j) =>
              /\ job[j].step = "compare" /\ job[j].at = 0 /\ Untouched /\ SameRow(j)
              /\ RowBecomes(j, "done", 0, job[j].attempt, IF job[j].attempt = 1 THEN "receipt" ELSE "thrown")
         /\ Break(j) =>
              /\ job[j].step \in {"copy", "digest", "write", "record", "receipt", "read"} /\ Thrown(j)
              /\ breaks < MaxBreaks /\ breaks' = breaks + 1 /\ KeepDisk
              /\ UNCHANGED <<plans, mine, clashes, edits>>
<1>1. job \in [Jobs -> JobRows] /\ job[j] \in JobRows
  BY DEF InstallShape
<1>2. /\ job[j].at \in Nat /\ job[j].ops \in Nat /\ job[j].attempt \in 0..2
      /\ job[j].outcome \in {"none", "thrown", "retained", "receipt", "died"}
  BY <1>1 DEF JobRows
<1>3. job = [job EXCEPT ![j].outcome = job[j].outcome]
  BY <1>1 DEF JobRows
<1>4. Throw(j) => Thrown(j)
  BY ThrowRow DEF Thrown, SameRow
<1>5. Len(Guarded(j)) \in Nat /\ Len(Bundle(j)) \in Nat
  BY BundleIs
<1>6. ASSUME NEW step \in {"check", "copy", "compare", "read", "cases", "done"}, NEW at \in Nat, NEW attempt \in 0..2,
             NEW outcome \in {"none", "thrown", "retained", "receipt", "died"},
             Moves(j, step, at, attempt, outcome)
      PROVE  RowBecomes(j, step, at, attempt, outcome) /\ SameRow(j)
  BY <1>6, MoveRow DEF SameRow
<1>7. ASSUME NEW step \in {"check", "write", "record", "cases", "read", "restore"}, Goto(j, step)
      PROVE  RowBecomes(j, step, job[j].at, job[j].attempt, job[j].outcome) /\ SameRow(j)
  BY <1>7, GotoRow DEF SameRow
<1>8. ASSUME Begin(j)
      PROVE  /\ job[j].step = "idle" /\ Untouched /\ SameRow(j)
             /\ RowBecomes(j, "check", job[j].at, job[j].attempt, job[j].outcome)
  BY <1>7, <1>8 DEF Begin, Untouched
<1>9. ASSUME Check(j)
      PROVE  /\ job[j].step = "check" /\ Untouched
             /\ \/ /\ job[j].at > Len(Guarded(j)) /\ SameRow(j)
                   /\ RowBecomes(j, "copy", 1, job[j].attempt, job[j].outcome)
                \/ /\ job[j].at <= Len(Guarded(j)) /\ ~Exists(Guarded(j)[job[j].at]) /\ SameRow(j)
                   /\ RowBecomes(j, "check", job[j].at + 1, job[j].attempt, job[j].outcome)
                \/ Thrown(j)
  <2>1. CASE job[j].at > Len(Guarded(j))
    <3>0. job' = [job EXCEPT ![j].step = "copy", ![j].at = 1]
      BY <1>9, <2>1 DEF Check
    <3>1. Moves(j, "copy", 1, job[j].attempt, job[j].outcome)
      BY <1>1, <3>0 DEF Moves, JobRows
    <3>2. 1 \in Nat
      OBVIOUS
    <3> QED BY <1>2, <1>6, <1>9, <2>1, <3>1, <3>2 DEF Check, Untouched
  <2>2. CASE job[j].at <= Len(Guarded(j)) /\ Exists(Guarded(j)[job[j].at])
    BY <1>2, <1>4, <1>5, <1>9, <2>2 DEF Check, Untouched
  <2>3. CASE job[j].at <= Len(Guarded(j)) /\ ~Exists(Guarded(j)[job[j].at])
    <3>1. ~(job[j].at > Len(Guarded(j))) /\ job[j].at + 1 \in Nat
      BY <1>2, <1>5, <2>3
    <3>2. job' = [job EXCEPT ![j].at = @ + 1]
      BY <1>9, <2>3, <3>1 DEF Check
    <3>3. Moves(j, "check", job[j].at + 1, job[j].attempt, job[j].outcome)
      BY <1>1, <1>9, <3>2, ZenonT(30) DEF Check, Moves, JobRows
    <3> QED BY <1>2, <1>6, <1>9, <2>3, <3>1, <3>3 DEF Check, Untouched
  <2> QED BY <1>2, <1>5, <2>1, <2>2, <2>3
<1>10. ASSUME Write(j)
       PROVE  /\ job[j].step = "write" /\ disk' = [disk EXCEPT ![File(j)] = Content(j, File(j))]
              /\ RowBecomes(j, "record", job[j].at, job[j].attempt, job[j].outcome) /\ SameRow(j)
              /\ dirs' = dirs /\ Keep
  BY <1>7, <1>10 DEF Write
<1>11. ASSUME WriteReceipt(j)
       PROVE  /\ job[j].step = "receipt" /\ Untouched /\ SameRow(j)
              /\ \E step \in {"read", "cases"} : RowBecomes(j, step, job[j].at, job[j].attempt, job[j].outcome)
  BY <1>7, <1>11 DEF WriteReceipt, Untouched
<1>12. ASSUME ReadArtifact(j)
       PROVE  /\ job[j].step = "read" /\ Untouched
              /\ \/ /\ job[j].at # Len(Bundle(j)) /\ SameRow(j)
                    /\ RowBecomes(j, "read", job[j].at + 1, job[j].attempt, job[j].outcome)
                 \/ RowBecomes(j, "cases", 1, job[j].attempt, job[j].outcome) /\ SameRow(j)
                 \/ Thrown(j)
  <2>1. CASE disk[File(j)] = "none"
    BY <1>4, <1>12, <2>1 DEF ReadArtifact, Untouched
  <2>2. CASE disk[File(j)] # "none" /\ job[j].at = Len(Bundle(j))
    <3>1. Moves(j, "cases", 1, job[j].attempt, job[j].outcome)
      BY <1>1, <1>12, <2>2 DEF ReadArtifact, Moves, JobRows
    <3>2. 1 \in Nat
      OBVIOUS
    <3> QED BY <1>2, <1>6, <1>12, <3>1, <3>2 DEF ReadArtifact, Untouched
  <2>3. CASE disk[File(j)] # "none" /\ job[j].at # Len(Bundle(j))
    <3>0. job' = [job EXCEPT ![j].at = @ + 1, ![j].step = "read"]
      BY <1>12, <2>3 DEF ReadArtifact
    <3>1. Moves(j, "read", job[j].at + 1, job[j].attempt, job[j].outcome)
      BY <1>1, <3>0 DEF Moves, JobRows
    <3>2. job[j].at + 1 \in Nat
      BY <1>2
    <3> QED BY <1>2, <1>6, <1>12, <2>3, <3>1, <3>2 DEF ReadArtifact, Untouched
  <2> QED BY <2>1, <2>2, <2>3
<1>13. ASSUME Judge(j)
       PROVE  /\ job[j].step = "cases" /\ Untouched /\ SameRow(j)
              /\ \/ RowBecomes(j, "done", job[j].ops, 1, "retained")
                 \/ RowBecomes(j, "compare", job[j].ops, 1, job[j].outcome)
  <2>0. 1 \in 0..2
    OBVIOUS
  <2>1. CASE plans[j].retain /\ Passed(j) /\ ~IsNative(j)
    <3>1. Moves(j, "done", job[j].ops, 1, "retained")
      BY <1>1, <1>13, <2>1, ZenonT(30) DEF Judge, Moves, JobRows
    <3> QED BY <1>2, <1>6, <1>13, <2>0, <3>1 DEF Judge, Untouched
  <2>2. CASE ~(plans[j].retain /\ Passed(j) /\ ~IsNative(j))
    <3>1. Moves(j, "compare", job[j].ops, 1, job[j].outcome)
      BY <1>1, <1>13, <2>2, ZenonT(30) DEF Judge, Moves, JobRows
    <3> QED BY <1>2, <1>6, <1>13, <2>0, <3>1 DEF Judge, Untouched
  <2> QED BY <2>1, <2>2
<1>14. ASSUME RollbackStops(j)
       PROVE  \/ RowBecomes(j, "compare", job[j].ops, 2, job[j].outcome) /\ SameRow(j)
              \/ Thrown(j)
  <2>1. CASE job[j].attempt = 1
    <3>1. Moves(j, "compare", job[j].ops, 2, job[j].outcome)
      BY <1>1, <1>14, <2>1 DEF RollbackStops, Moves, JobRows
    <3>2. 2 \in 0..2
      OBVIOUS
    <3> QED BY <1>2, <1>6, <3>1, <3>2
  <2>2. CASE job[j].attempt # 1
    BY <1>4, <1>14, <2>2 DEF RollbackStops
  <2> QED BY <2>1, <2>2
<1>15. ASSUME Finish(j)
       PROVE  /\ job[j].step = "compare" /\ job[j].at = 0 /\ Untouched /\ SameRow(j)
              /\ RowBecomes(j, "done", 0, job[j].attempt, IF job[j].attempt = 1 THEN "receipt" ELSE "thrown")
  <2> DEFINE outcome == IF job[j].attempt = 1 THEN "receipt" ELSE "thrown"
  <2>0. outcome \in {"none", "thrown", "retained", "receipt", "died"} /\ 0 \in Nat
    OBVIOUS
  <2>1. job' = [job EXCEPT ![j].step = "done", ![j].outcome = outcome] /\ job[j].at = 0
    BY <1>15 DEF Finish
  <2> HIDE DEF outcome
  <2>2. Moves(j, "done", 0, job[j].attempt, outcome)
    BY <1>1, <2>1 DEF Moves, JobRows
  <2>3. RowBecomes(j, "done", 0, job[j].attempt, outcome) /\ SameRow(j)
    BY <1>2, <1>6, <2>0, <2>2
  <2> QED BY <1>15, <2>3 DEF Finish, Untouched, outcome
<1>16. ASSUME Break(j)
       PROVE  /\ job[j].step \in {"copy", "digest", "write", "record", "receipt", "read"} /\ Thrown(j)
              /\ breaks < MaxBreaks /\ breaks' = breaks + 1 /\ KeepDisk
              /\ UNCHANGED <<plans, mine, clashes, edits>>
  BY <1>4, <1>16 DEF Break, KeepDisk
<1> QED BY <1>8, <1>9, <1>10, <1>11, <1>12, <1>13, <1>14, <1>15, <1>16


\* The steps that also fill the rest of the row.
LEMMA CopyFacts ==
  ASSUME InstallShape, NEW j \in Jobs, File(j) \in Paths, Copy(j)
  PROVE  /\ job[j].step = "copy" /\ Keep /\ disk' = disk /\ dirs' = dirs \cup {DirOf(File(j))}
         /\ RowBecomes(j, IF disk[File(j)] = "none" THEN "write" ELSE "digest", job[j].at, job[j].attempt, job[j].outcome)
         /\ job'[j].backup = [job[j].backup EXCEPT ![File(j)] = disk[File(j)]]
         /\ job'[j].seen = job[j].seen /\ SameInstalled(j) /\ SameCounts(j)
<1>1. job \in [Jobs -> JobRows] /\ job[j] \in JobRows
  BY DEF InstallShape
<1> DEFINE p == File(j)
           step == IF disk[p] = "none" THEN "write" ELSE "digest"
           new == [job[j] EXCEPT !.backup[p] = disk[p], !.step = step]
           copies == [job[j].backup EXCEPT ![p] = disk[p]]
<1>2. job' = [job EXCEPT ![j].backup[p] = disk[p], ![j].step = step]
  BY DEF Copy, BackupOf
<1>3. p \in Paths /\ disk[p] \in Contents /\ step \in {"write", "digest"}
  BY DEF InstallShape
<1> HIDE DEF p, step
<1>4. job' = [job EXCEPT ![j] = new]
  BY <1>1, <1>2 DEF JobRows
<1>5. copies \in [Paths -> Contents] /\ new = [job[j] EXCEPT !.backup = copies, !.step = step]
  BY <1>1, <1>3 DEF JobRows
<1> HIDE DEF copies, new
<1>6. /\ new \in JobRows /\ new.step = step /\ new.at = job[j].at /\ new.attempt = job[j].attempt
      /\ new.outcome = job[j].outcome /\ new.backup = copies /\ new.seen = job[j].seen
      /\ new.installed = job[j].installed /\ new.ops = job[j].ops /\ new.left = job[j].left
      /\ new.passed = job[j].passed /\ new.proofs = job[j].proofs
  BY <1>1, <1>3, <1>5 DEF JobRows
<1>7. job' \in [Jobs -> JobRows] /\ job'[j] = new /\ \A k \in Jobs \ {j} : job'[k] = job[k]
  BY <1>1, <1>4, <1>6
<1>8. RowBecomes(j, step, job[j].at, job[j].attempt, job[j].outcome)
  BY <1>6, <1>7 DEF RowBecomes
<1>9. SameInstalled(j) /\ SameCounts(j) /\ job'[j].backup = copies /\ job'[j].seen = job[j].seen
  BY <1>6, <1>7 DEF SameInstalled, SameCounts
<1> QED BY <1>8, <1>9 DEF Copy, p, step, copies

LEMMA DigestFacts ==
  ASSUME InstallShape, NEW j \in Jobs, File(j) \in Paths, Digest(j)
  PROVE  /\ job[j].step = "digest" /\ Untouched
         /\ RowBecomes(j, "write", job[j].at, job[j].attempt, job[j].outcome)
         /\ job'[j].seen = [job[j].seen EXCEPT ![File(j)] = disk[File(j)]]
         /\ job'[j].backup = job[j].backup /\ SameInstalled(j) /\ SameCounts(j)
<1>1. job \in [Jobs -> JobRows] /\ job[j] \in JobRows
  BY DEF InstallShape
<1> DEFINE p == File(j)
           new == [job[j] EXCEPT !.seen[p] = disk[p], !.step = "write"]
           sights == [job[j].seen EXCEPT ![p] = disk[p]]
<1>2. job' = [job EXCEPT ![j].seen[p] = disk[p], ![j].step = "write"]
  BY DEF Digest
<1>3. p \in Paths /\ disk[p] \in Contents
  BY DEF InstallShape
<1> HIDE DEF p
<1>4. job' = [job EXCEPT ![j] = new]
  BY <1>1, <1>2 DEF JobRows
<1>5. sights \in [Paths -> Contents] /\ new = [job[j] EXCEPT !.seen = sights, !.step = "write"]
  BY <1>1, <1>3 DEF JobRows
<1> HIDE DEF sights, new
<1>6. /\ new \in JobRows /\ new.step = "write" /\ new.at = job[j].at /\ new.attempt = job[j].attempt
      /\ new.outcome = job[j].outcome /\ new.backup = job[j].backup /\ new.seen = sights
      /\ new.installed = job[j].installed /\ new.ops = job[j].ops /\ new.left = job[j].left
      /\ new.passed = job[j].passed /\ new.proofs = job[j].proofs
  BY <1>1, <1>3, <1>5 DEF JobRows
<1>7. job' \in [Jobs -> JobRows] /\ job'[j] = new /\ \A k \in Jobs \ {j} : job'[k] = job[k]
  BY <1>1, <1>4, <1>6
<1>8. RowBecomes(j, "write", job[j].at, job[j].attempt, job[j].outcome)
  BY <1>6, <1>7 DEF RowBecomes
<1>9. SameInstalled(j) /\ SameCounts(j) /\ job'[j].seen = sights /\ job'[j].backup = job[j].backup
  BY <1>6, <1>7 DEF SameInstalled, SameCounts
<1> QED BY <1>8, <1>9 DEF Digest, Untouched, p, sights

LEMMA RecordFacts ==
  ASSUME InstallShape, NEW j \in Jobs, File(j) \in Paths, Record(j)
  PROVE  /\ job[j].step = "record" /\ Untouched
         /\ \/ Thrown(j)
            \/ /\ IF job[j].at = Len(Bundle(j))
                  THEN RowBecomes(j, "receipt", 1, job[j].attempt, job[j].outcome)
                  ELSE RowBecomes(j, "copy", job[j].at + 1, job[j].attempt, job[j].outcome)
               /\ job'[j].installed = [job[j].installed EXCEPT ![File(j)] = disk[File(j)]]
               /\ SameCopies(j) /\ job'[j].ops = job[j].ops + 1 /\ job'[j].left = job[j].left
               /\ job'[j].passed = job[j].passed /\ job'[j].proofs = job[j].proofs
<1>1. job \in [Jobs -> JobRows] /\ job[j] \in JobRows
  BY DEF InstallShape
<1>0. CASE disk[File(j)] = "none"
  BY <1>0, ThrowRow DEF Record, Untouched, Thrown, SameRow
<1>a. CASE disk[File(j)] # "none"
  <2> DEFINE p == File(j)
             last == job[j].at = Len(Bundle(j))
             at == IF last THEN 1 ELSE job[j].at + 1
             step == IF last THEN "receipt" ELSE "copy"
             new == [job[j] EXCEPT !.installed[p] = disk[p], !.ops = job[j].ops + 1, !.at = at, !.step = step]
             own == [job[j].installed EXCEPT ![p] = disk[p]]
  <2>2. job' = [job EXCEPT ![j].installed[p] = disk[p], ![j].ops = @ + 1,
                           ![j].at = IF last THEN 1 ELSE @ + 1, ![j].step = step]
    BY <1>a DEF Record
  <2>3. p \in Paths /\ disk[p] \in Contents /\ step \in {"receipt", "copy"}
    BY DEF InstallShape
  <2>4. job[j].at \in Nat /\ job[j].ops \in Nat
    BY <1>1 DEF JobRows
  <2>5. at \in Nat /\ job[j].ops + 1 \in Nat
    BY <2>4
  <2> HIDE DEF p, last, step
  <2>6. job' = [job EXCEPT ![j] = new]
    BY <1>1, <2>2 DEF JobRows
  <2>7. own \in [Paths -> Contents]
        /\ new = [job[j] EXCEPT !.installed = own, !.ops = job[j].ops + 1, !.at = at, !.step = step]
    BY <1>1, <2>3 DEF JobRows
  <2> HIDE DEF own, new, at
  <2>8. /\ new \in JobRows /\ new.step = step /\ new.at = at /\ new.attempt = job[j].attempt
        /\ new.outcome = job[j].outcome /\ new.backup = job[j].backup /\ new.seen = job[j].seen
        /\ new.installed = own /\ new.ops = job[j].ops + 1 /\ new.left = job[j].left
        /\ new.passed = job[j].passed /\ new.proofs = job[j].proofs
    BY <1>1, <2>3, <2>5, <2>7 DEF JobRows
  <2>9. job' \in [Jobs -> JobRows] /\ job'[j] = new /\ \A k \in Jobs \ {j} : job'[k] = job[k]
    BY <1>1, <2>6, <2>8
  <2>10. RowBecomes(j, step, at, job[j].attempt, job[j].outcome)
    BY <2>8, <2>9 DEF RowBecomes
  <2>11. /\ SameCopies(j) /\ job'[j].installed = own /\ job'[j].ops = job[j].ops + 1 /\ job'[j].left = job[j].left
         /\ job'[j].passed = job[j].passed /\ job'[j].proofs = job[j].proofs
    BY <2>8, <2>9 DEF SameCopies
  <2>12. job[j].step = "record" /\ Untouched
    BY DEF Record, Untouched
  <2>13. IF job[j].at = Len(Bundle(j))
         THEN RowBecomes(j, "receipt", 1, job[j].attempt, job[j].outcome)
         ELSE RowBecomes(j, "copy", job[j].at + 1, job[j].attempt, job[j].outcome)
    BY <2>10 DEF at, step, last
  <2> QED BY <2>11, <2>12, <2>13 DEF p, own
<1> QED BY <1>0, <1>a

LEMMA RunCaseFacts ==
  ASSUME InstallShape, NEW j \in Jobs, NEW answer \in BOOLEAN, NEW marker \in BOOLEAN, RunCase(j, answer, marker)
  PROVE  /\ job[j].step = "cases" /\ job[j].left > 0 /\ Untouched /\ SameCopies(j) /\ SameInstalled(j)
         /\ RowBecomes(j, "cases", job[j].at, job[j].attempt, job[j].outcome)
         /\ job'[j].ops = job[j].ops /\ job'[j].left = job[j].left - 1
         /\ job'[j].passed \in {job[j].passed, job[j].passed + 1}
         /\ IsNative(j) => job'[j].passed - job[j].passed = job'[j].proofs - job[j].proofs
<1>1. job \in [Jobs -> JobRows] /\ job[j] \in JobRows
  BY DEF InstallShape
<1> DEFINE one == IF Passes(j, answer, marker) THEN 1 ELSE 0
           proof == IF answer /\ marker THEN 1 ELSE 0
           new == [job[j] EXCEPT !.left = job[j].left - 1, !.passed = job[j].passed + one, !.proofs = job[j].proofs + proof]
<1>2. job' = [job EXCEPT ![j].left = @ - 1, ![j].passed = @ + one, ![j].proofs = @ + proof]
  BY DEF RunCase
<1>3. /\ one \in {0, 1} /\ proof \in {0, 1} /\ (IsNative(j) => one = proof)
      /\ job[j].left \in Nat /\ job[j].passed \in Nat /\ job[j].proofs \in Nat /\ job[j].left > 0
  BY <1>1 DEF Passes, JobRows, RunCase
<1> HIDE DEF one, proof
<1>4. job[j].left - 1 \in Nat /\ job[j].passed + one \in Nat /\ job[j].proofs + proof \in Nat
  BY <1>3
<1>5. job' = [job EXCEPT ![j] = new]
  BY <1>1, <1>2 DEF JobRows
<1>6. /\ new \in JobRows /\ new.step = job[j].step /\ new.at = job[j].at /\ new.attempt = job[j].attempt
      /\ new.outcome = job[j].outcome /\ new.backup = job[j].backup /\ new.seen = job[j].seen
      /\ new.installed = job[j].installed /\ new.ops = job[j].ops /\ new.left = job[j].left - 1
      /\ new.passed = job[j].passed + one /\ new.proofs = job[j].proofs + proof
  BY <1>1, <1>4 DEF JobRows
<1> HIDE DEF new
<1>7. job' \in [Jobs -> JobRows] /\ job'[j] = new /\ \A k \in Jobs \ {j} : job'[k] = job[k]
  BY <1>1, <1>5, <1>6
<1>8. job[j].step = "cases" /\ Untouched
  BY DEF RunCase, Untouched
<1>9. RowBecomes(j, "cases", job[j].at, job[j].attempt, job[j].outcome)
  BY <1>6, <1>7, <1>8 DEF RowBecomes
<1>10. /\ SameCopies(j) /\ SameInstalled(j) /\ job'[j].ops = job[j].ops /\ job'[j].left = job[j].left - 1
       /\ job'[j].passed = job[j].passed + one /\ job'[j].proofs = job[j].proofs + proof
  BY <1>6, <1>7 DEF SameCopies, SameInstalled
<1>11. job'[j].passed \in {job[j].passed, job[j].passed + 1}
       /\ (IsNative(j) => job'[j].passed - job[j].passed = job'[j].proofs - job[j].proofs)
  BY <1>3, <1>10
<1> QED BY <1>3, <1>8, <1>9, <1>10, <1>11

\* A rollback: each file is compared and put back, the last one first.
Stopped(j) ==
  \/ RowBecomes(j, "compare", job[j].ops, 2, job[j].outcome) /\ SameRow(j)
  \/ Thrown(j)
LEMMA RollbackFacts ==
  ASSUME InstallShape, NEW j \in Jobs
  PROVE  /\ CompareFile(j) =>
              /\ job[j].step = "compare" /\ job[j].at > 0 /\ Untouched
              /\ \/ Stopped(j)
                 \/ /\ disk[File(j)] \in {"none", job[j].installed[File(j)]} /\ SameRow(j)
                    /\ RowBecomes(j, "restore", job[j].at, job[j].attempt, job[j].outcome)
         /\ Restore(j) /\ job[j].at > 0 =>
              /\ job[j].step = "restore" /\ Keep /\ dirs' = dirs
              /\ \/ disk' = disk /\ Stopped(j)
                 \/ /\ RowBecomes(j, "compare", job[j].at - 1, job[j].attempt, job[j].outcome) /\ SameRow(j)
                    /\ disk' = [disk EXCEPT ![File(j)] = Restored(j, File(j))]
<1>1. job \in [Jobs -> JobRows] /\ job[j] \in JobRows
  BY DEF InstallShape
<1>2. RollbackStops(j) => Stopped(j)
  BY StepFacts DEF Stopped
<1>3. ASSUME CompareFile(j)
      PROVE  /\ job[j].step = "compare" /\ job[j].at > 0 /\ Untouched
             /\ \/ Stopped(j)
                \/ /\ disk[File(j)] \in {"none", job[j].installed[File(j)]} /\ SameRow(j)
                   /\ RowBecomes(j, "restore", job[j].at, job[j].attempt, job[j].outcome)
  <2>1. CASE Drifted(j, File(j))
    BY <1>2, <1>3, <2>1 DEF CompareFile, Untouched
  <2>2. CASE ~Drifted(j, File(j))
    <3>1. Goto(j, "restore")
      BY <1>3, <2>2 DEF CompareFile
    <3>2. RowBecomes(j, "restore", job[j].at, job[j].attempt, job[j].outcome) /\ SameRow(j)
      BY <3>1, GotoRow DEF SameRow
    <3> QED BY <1>3, <2>2, <3>2 DEF CompareFile, Untouched, Drifted
  <2> QED BY <2>1, <2>2
<1>4. ASSUME Restore(j), job[j].at > 0
      PROVE  /\ job[j].step = "restore" /\ Keep /\ dirs' = dirs
             /\ \/ disk' = disk /\ Stopped(j)
                \/ /\ RowBecomes(j, "compare", job[j].at - 1, job[j].attempt, job[j].outcome) /\ SameRow(j)
                   /\ disk' = [disk EXCEPT ![File(j)] = Restored(j, File(j))]
  <2>1. CASE BackupMatches(j, File(j))
    <3>1. job' = [job EXCEPT ![j].step = "compare", ![j].at = @ - 1] /\ disk' = [disk EXCEPT ![File(j)] = Restored(j, File(j))]
      BY <1>4, <2>1 DEF Restore
    <3>2. Moves(j, "compare", job[j].at - 1, job[j].attempt, job[j].outcome)
      BY <1>1, <3>1 DEF Moves, JobRows
    <3>3. job[j].at \in Nat /\ job[j].attempt \in 0..2 /\ job[j].outcome \in {"none", "thrown", "retained", "receipt", "died"}
      BY <1>1 DEF JobRows
    <3>4. job[j].at - 1 \in Nat
      BY <1>4, <3>3
    <3>5. RowBecomes(j, "compare", job[j].at - 1, job[j].attempt, job[j].outcome) /\ SameRow(j)
      BY <3>2, <3>3, <3>4, MoveRow DEF SameRow
    <3> QED BY <1>4, <3>1, <3>5 DEF Restore
  <2>2. CASE ~BackupMatches(j, File(j))
    BY <1>2, <1>4, <2>2 DEF Restore
  <2> QED BY <2>1, <2>2
<1> QED BY <1>3, <1>4


-----------------------------------------------------------------------------
(* Where a verification is: its row alone decides.                         *)

RowOK(j) ==
  /\ job[j].at \in 0..Len(Bundle(j)) + 1 /\ job[j].ops \in 0..Len(Bundle(j))
  /\ job[j].attempt \in 0..2
  /\ job[j].passed + job[j].left <= CaseCount
  /\ job[j].outcome \in {"none", "thrown", "retained", "receipt", "died"}
  /\ job[j].outcome = "none" <=> job[j].step # "done"

LEMMA PlansStay ==
  ASSUME plans' = plans
  PROVE  \A j \in Jobs :
           /\ Bundle(j)' = Bundle(j) /\ Guarded(j)' = Guarded(j) /\ (IsNative(j)' <=> IsNative(j))
           /\ \A p : Content(j, p)' = Content(j, p)
<1>1. \A j \in Jobs : Bundle(j)' = Bundle(j) /\ (IsNative(j)' <=> IsNative(j))
  BY DEF Bundle, IsNative, Split
<1>2. \A j \in Jobs : Guarded(j)' = Guarded(j) /\ Skill(j)' = Skill(j)
  BY <1>1 DEF Guarded, Skill
<1>3. \A j \in Jobs : \A p : Content(j, p)' = Content(j, p)
  BY <1>1, <1>2 DEF Content
<1> QED BY <1>1, <1>2, <1>3

\* Where File(j) is in the bundle.
Copying == {"copy", "digest", "write", "record"}
LEMMA FileIs ==
  ASSUME InstallShape, NEW j \in Jobs, InPlace(j)
  PROVE  job[j].step \in Copying \cup {"restore"} \/ (job[j].step = "compare" /\ job[j].at > 0)
         => job[j].at \in DOMAIN Bundle(j) /\ File(j) = Bundle(j)[job[j].at] /\ File(j) \in Paths
<1>1. job[j].at \in Nat
  BY DEF InstallShape, JobRows
<1>2. DOMAIN Bundle(j) = 1..Len(Bundle(j)) /\ Len(Bundle(j)) \in Nat /\ \A i \in DOMAIN Bundle(j) : Bundle(j)[i] \in Paths
  BY BundleIs
<1>3. ASSUME job[j].step \in Copying \cup {"restore"} \/ (job[j].step = "compare" /\ job[j].at > 0)
      PROVE  job[j].at \in 1..Len(Bundle(j))
  BY <1>1, <1>2, <1>3 DEF InPlace, Copying
<1> QED BY <1>2, <1>3 DEF File

\* A row after a step, from the facts about the step.
LEMMA PlaceFacts ==
  ASSUME InstallShape, NEW j \in Jobs, RowOK(j), InPlace(j), plans' = plans,
         NEW step, NEW at, NEW attempt, NEW outcome, RowBecomes(j, step, at, attempt, outcome), SameCounts(j)
  PROVE  /\ (at \in 0..Len(Bundle(j)) + 1 /\ attempt \in 0..2
              /\ outcome \in {"none", "thrown", "retained", "receipt", "died"} /\ (outcome = "none" <=> step # "done"))
            => RowOK(j)'
         /\ (/\ step # "idle"
             /\ step = "check" => at \in 1..Len(Guarded(j)) + 1 /\ job[j].ops = 0
             /\ step \in Copying => at \in 1..Len(Bundle(j)) /\ job[j].ops = at - 1
             /\ step \in {"receipt", "read", "cases"} => at \in 1..Len(Bundle(j)) /\ job[j].ops = Len(Bundle(j))
             /\ step \in {"compare", "restore"} =>
                  at \in 0..Len(Bundle(j)) /\ job[j].ops = Len(Bundle(j)) /\ attempt # 0
             /\ step = "restore" => at > 0)
            => InPlace(j)'
<1>1. Bundle(j)' = Bundle(j) /\ Guarded(j)' = Guarded(j) /\ (IsNative(j)' <=> IsNative(j))
  BY PlansStay
<1>2. /\ job'[j].step = step /\ job'[j].at = at /\ job'[j].attempt = attempt /\ job'[j].outcome = outcome
      /\ job'[j].ops = job[j].ops /\ job'[j].left = job[j].left
      /\ job'[j].passed = job[j].passed /\ job'[j].proofs = job[j].proofs
  BY DEF RowBecomes, SameCounts
<1>3. ASSUME at \in 0..Len(Bundle(j)) + 1, attempt \in 0..2,
             outcome \in {"none", "thrown", "retained", "receipt", "died"}, outcome = "none" <=> step # "done"
      PROVE  RowOK(j)'
  BY <1>1, <1>2, <1>3 DEF RowOK
<1>4. ASSUME step # "idle",
             step = "check" => at \in 1..Len(Guarded(j)) + 1 /\ job[j].ops = 0,
             step \in Copying => at \in 1..Len(Bundle(j)) /\ job[j].ops = at - 1,
             step \in {"receipt", "read", "cases"} => at \in 1..Len(Bundle(j)) /\ job[j].ops = Len(Bundle(j)),
             step \in {"compare", "restore"} =>
               at \in 0..Len(Bundle(j)) /\ job[j].ops = Len(Bundle(j)) /\ attempt # 0,
             step = "restore" => at > 0
      PROVE  InPlace(j)'
  BY <1>1, <1>2, <1>4 DEF InPlace, Copying
<1> QED BY <1>3, <1>4

LEMMA PlaceStep ==
  ASSUME InstallShape, NEW j \in Jobs, RowOK(j), InPlace(j), plans' = plans, Work(j) \/ Break(j)
  PROVE  RowOK(j)' /\ InPlace(j)'
<1> DEFINE n == Len(Bundle(j))
           g == Len(Guarded(j))
           r == job[j]
<1>1. /\ n \in Nat /\ n >= 1 /\ g \in 0..n /\ r.at \in 0..n + 1 /\ r.ops \in 0..n /\ r.attempt \in 0..2
      /\ r.outcome \in {"none", "thrown", "retained", "receipt", "died"} /\ (r.outcome = "none" <=> r.step # "done")
  BY BundleIs DEF RowOK
<1>2. /\ r.step = "check" => r.at \in 1..g + 1
      /\ r.step \in Copying => r.at \in 1..n /\ r.ops = r.at - 1
      /\ r.step \in {"receipt", "read", "cases"} => r.at \in 1..n /\ r.ops = n
      /\ r.step \in {"compare", "restore"} => r.at \in 0..n /\ r.ops = n /\ r.attempt # 0
      /\ (r.step = "restore" => r.at > 0) /\ (r.step = "idle" => r.at = 1)
      /\ r.step \in {"idle", "check"} => r.ops = 0
  BY DEF InPlace, Copying
<1> DEFINE Fits(step, at, attempt, outcome) ==
             /\ at \in 0..n + 1 /\ attempt \in 0..2
             /\ outcome \in {"none", "thrown", "retained", "receipt", "died"} /\ (outcome = "none" <=> step # "done")
             /\ step # "idle"
             /\ step = "check" => at \in 1..g + 1 /\ r.ops = 0
             /\ step \in Copying => at \in 1..n /\ r.ops = at - 1
             /\ step \in {"receipt", "read", "cases"} => at \in 1..n /\ r.ops = n
             /\ step \in {"compare", "restore"} => at \in 0..n /\ r.ops = n /\ attempt # 0
             /\ step = "restore" => at > 0
<1>3. ASSUME NEW step, NEW at, NEW attempt, NEW outcome, RowBecomes(j, step, at, attempt, outcome), SameCounts(j),
             Fits(step, at, attempt, outcome)
      PROVE  RowOK(j)' /\ InPlace(j)'
  <2>1. RowOK(j)'
    BY <1>3, PlaceFacts
  <2>2. InPlace(j)'
    BY <1>3, PlaceFacts
  <2> QED BY <2>1, <2>2
<1>4. Thrown(j) => RowOK(j)' /\ InPlace(j)'
  <2>1. Fits("done", r.at, r.attempt, "thrown")
    BY <1>1 DEF Copying
  <2> QED BY <1>3, <2>1 DEF Thrown, SameRow
<1>5. (r.step = "compare" \/ r.step = "restore") /\ Stopped(j) => RowOK(j)' /\ InPlace(j)'
  <2>1. r.step = "compare" \/ r.step = "restore" => Fits("compare", r.ops, 2, r.outcome)
    BY <1>1, <1>2 DEF Copying
  <2> QED BY <1>3, <1>4, <2>1 DEF Stopped, SameRow
<1>6. CASE Begin(j)
  <2>1. r.step = "idle" /\ SameCounts(j) /\ RowBecomes(j, "check", r.at, r.attempt, r.outcome)
    BY <1>6, StepFacts DEF SameRow
  <2>2. Fits("check", r.at, r.attempt, r.outcome)
    BY <1>1, <1>2, <2>1 DEF Copying
  <2> QED BY <1>3, <2>1, <2>2
<1>7. CASE Check(j)
  <2>1. /\ r.step = "check"
        /\ \/ /\ SameCounts(j) /\ RowBecomes(j, "copy", 1, r.attempt, r.outcome)
           \/ r.at <= g /\ SameCounts(j) /\ RowBecomes(j, "check", r.at + 1, r.attempt, r.outcome)
           \/ Thrown(j)
    BY <1>7, StepFacts DEF SameRow
  <2>2. Fits("copy", 1, r.attempt, r.outcome)
    BY <1>1, <1>2, <2>1 DEF Copying
  <2>3. r.at <= g => Fits("check", r.at + 1, r.attempt, r.outcome)
    BY <1>1, <1>2, <2>1 DEF Copying
  <2> QED BY <1>3, <1>4, <2>1, <2>2, <2>3
<1>8. CASE Copy(j)
  <2>1. File(j) \in Paths
    BY <1>8, FileIs DEF Copy, Copying
  <2>2. PICK step \in {"write", "digest"} :
          r.step = "copy" /\ SameCounts(j) /\ RowBecomes(j, step, r.at, r.attempt, r.outcome)
    BY <1>8, <2>1, CopyFacts
  <2>3. Fits(step, r.at, r.attempt, r.outcome)
    BY <1>1, <1>2, <2>2 DEF Copying
  <2> QED BY <1>3, <2>2, <2>3
<1>9. CASE Digest(j)
  <2>1. File(j) \in Paths
    BY <1>9, FileIs DEF Digest, Copying
  <2>2. r.step = "digest" /\ SameCounts(j) /\ RowBecomes(j, "write", r.at, r.attempt, r.outcome)
    BY <1>9, <2>1, DigestFacts
  <2>3. Fits("write", r.at, r.attempt, r.outcome)
    BY <1>1, <1>2, <2>2 DEF Copying
  <2> QED BY <1>3, <2>2, <2>3
<1>10. CASE Write(j)
  <2>1. r.step = "write" /\ SameCounts(j) /\ RowBecomes(j, "record", r.at, r.attempt, r.outcome)
    BY <1>10, StepFacts DEF SameRow
  <2>2. Fits("record", r.at, r.attempt, r.outcome)
    BY <1>1, <1>2, <2>1 DEF Copying
  <2> QED BY <1>3, <2>1, <2>2
<1>11. CASE Record(j)
  <2>1. File(j) \in Paths
    BY <1>11, FileIs DEF Record, Copying
  <2>2. /\ r.step = "record"
        /\ \/ Thrown(j)
           \/ /\ IF r.at = n THEN RowBecomes(j, "receipt", 1, r.attempt, r.outcome)
                             ELSE RowBecomes(j, "copy", r.at + 1, r.attempt, r.outcome)
              /\ job'[j].ops = r.ops + 1 /\ job'[j].left = r.left
              /\ job'[j].passed = r.passed /\ job'[j].proofs = r.proofs
    BY <1>11, <2>1, RecordFacts
  <2>3. Bundle(j)' = Bundle(j) /\ Guarded(j)' = Guarded(j) /\ (IsNative(j)' <=> IsNative(j))
    BY PlansStay
  <2>4. CASE ~Thrown(j)
    <3>1. /\ job'[j].step = IF r.at = n THEN "receipt" ELSE "copy"
          /\ job'[j].at = IF r.at = n THEN 1 ELSE r.at + 1
          /\ job'[j].attempt = r.attempt /\ job'[j].outcome = r.outcome
      BY <2>2, <2>4 DEF RowBecomes
    <3>2. /\ job'[j].at \in 1..n /\ job'[j].ops \in 0..n
          /\ job'[j].ops = IF r.at = n THEN n ELSE job'[j].at - 1
      BY <1>1, <1>2, <2>2, <2>4, <3>1, SMTT(30) DEF Copying
    <3>3. RowOK(j)'
      BY <1>1, <2>2, <2>3, <2>4, <3>1, <3>2 DEF RowOK
    <3>4. InPlace(j)'
      BY <1>1, <2>2, <2>3, <2>4, <3>1, <3>2 DEF InPlace
    <3> QED BY <3>3, <3>4
  <2> QED BY <1>4, <2>4
<1>12. CASE WriteReceipt(j)
  <2>1. PICK step \in {"read", "cases"} :
          r.step = "receipt" /\ SameCounts(j) /\ RowBecomes(j, step, r.at, r.attempt, r.outcome)
    BY <1>12, StepFacts DEF SameRow
  <2>2. Fits(step, r.at, r.attempt, r.outcome)
    BY <1>1, <1>2, <2>1 DEF Copying
  <2> QED BY <1>3, <2>1, <2>2
<1>13. CASE ReadArtifact(j)
  <2>1. /\ r.step = "read"
        /\ \/ r.at # n /\ SameCounts(j) /\ RowBecomes(j, "read", r.at + 1, r.attempt, r.outcome)
           \/ SameCounts(j) /\ RowBecomes(j, "cases", 1, r.attempt, r.outcome)
           \/ Thrown(j)
    BY <1>13, StepFacts DEF SameRow
  <2>2. Fits("cases", 1, r.attempt, r.outcome) /\ (r.at # n => Fits("read", r.at + 1, r.attempt, r.outcome))
    BY <1>1, <1>2, <2>1 DEF Copying
  <2> QED BY <1>3, <1>4, <2>1, <2>2
<1>14. CASE \E answer, marker \in BOOLEAN : RunCase(j, answer, marker)
  <2>1. /\ r.step = "cases" /\ r.left > 0 /\ RowBecomes(j, "cases", r.at, r.attempt, r.outcome)
        /\ job'[j].ops = r.ops /\ job'[j].left = r.left - 1 /\ job'[j].passed \in {r.passed, r.passed + 1}
        /\ IsNative(j) => job'[j].passed - r.passed = job'[j].proofs - r.proofs
    BY <1>14, RunCaseFacts
  <2>2. Bundle(j)' = Bundle(j) /\ Guarded(j)' = Guarded(j) /\ (IsNative(j)' <=> IsNative(j))
    BY PlansStay
  <2>3. job'[j].step = "cases" /\ job'[j].at = r.at /\ job'[j].attempt = r.attempt /\ job'[j].outcome = r.outcome
    BY <2>1 DEF RowBecomes
  <2>4. /\ r.left \in Nat /\ r.passed \in Nat /\ r.proofs \in Nat /\ job'[j].proofs \in Nat /\ CaseCount \in Nat
        /\ r.passed + r.left <= CaseCount
    BY <2>1, InstallAssumption DEF InstallShape, JobRows, RowBecomes, RowOK
  <2>5. job'[j].passed + job'[j].left <= CaseCount
    BY <2>1, <2>4
  <2>6. RowOK(j)'
    BY <1>1, <2>1, <2>2, <2>3, <2>5 DEF RowOK
  <2>7. IsNative(j) => job'[j].passed = job'[j].proofs
    BY <2>1, <2>4, SMTT(30) DEF InPlace
  <2>8. InPlace(j)'
    BY <1>1, <1>2, <2>1, <2>2, <2>3, <2>7 DEF InPlace
  <2> QED BY <2>6, <2>8
<1>15. CASE Judge(j)
  <2>1. /\ r.step = "cases" /\ SameCounts(j)
        /\ RowBecomes(j, "done", r.ops, 1, "retained") \/ RowBecomes(j, "compare", r.ops, 1, r.outcome)
    BY <1>15, StepFacts DEF SameRow
  <2>2. Fits("done", r.ops, 1, "retained") /\ Fits("compare", r.ops, 1, r.outcome)
    BY <1>1, <1>2, <2>1 DEF Copying
  <2> QED BY <1>3, <2>1, <2>2
<1>16. CASE CompareFile(j)
  <2>1. /\ r.step = "compare" /\ r.at > 0
        /\ Stopped(j) \/ (SameCounts(j) /\ RowBecomes(j, "restore", r.at, r.attempt, r.outcome))
    BY <1>16, RollbackFacts DEF SameRow
  <2>2. Fits("restore", r.at, r.attempt, r.outcome)
    BY <1>1, <1>2, <2>1 DEF Copying
  <2> QED BY <1>3, <1>5, <2>1, <2>2
<1>17. CASE Restore(j)
  <2>0. r.step = "restore" /\ r.at > 0
    BY <1>2, <1>17 DEF Restore
  <2>1. Stopped(j) \/ (SameCounts(j) /\ RowBecomes(j, "compare", r.at - 1, r.attempt, r.outcome))
    BY <1>17, <2>0, RollbackFacts DEF SameRow
  <2>2. Fits("compare", r.at - 1, r.attempt, r.outcome)
    BY <1>1, <1>2, <2>0 DEF Copying
  <2> QED BY <1>3, <1>5, <2>0, <2>1, <2>2
<1>18. CASE Finish(j)
  <2> DEFINE outcome == IF r.attempt = 1 THEN "receipt" ELSE "thrown"
  <2>1. SameCounts(j) /\ RowBecomes(j, "done", 0, r.attempt, outcome)
    BY <1>18, StepFacts DEF SameRow
  <2>2. Fits("done", 0, r.attempt, outcome)
    BY <1>1 DEF Copying
  <2> HIDE DEF outcome
  <2> QED BY <1>3, <2>1, <2>2
<1>19. CASE Break(j)
  BY <1>4, <1>19, StepFacts
<1> QED BY <1>6, <1>7, <1>8, <1>9, <1>10, <1>11, <1>12, <1>13, <1>14, <1>15, <1>16, <1>17, <1>18, <1>19 DEF Work


-----------------------------------------------------------------------------
(* The kinds of steps of a verification: only two touch the disk, and only *)
(* the copy adds to the backups.                                           *)

Moved(j) ==
  /\ job' \in [Jobs -> JobRows] /\ job'[j].step # "idle" /\ \A k \in Jobs \ {j} : job'[k] = job[k]
  /\ plans' = plans /\ mine' = mine /\ clashes' = clashes /\ edits' = edits
  /\ breaks' \in {breaks} \cup {breaks + 1} /\ (breaks' # breaks => breaks < MaxBreaks)
\* What becomes of the row when neither the disk nor a backup changes.
Unheld(j) == job'[j].step \notin {"digest", "write", "record", "restore"}
Looks(j) ==
  /\ KeepDisk /\ job'[j].backup = job[j].backup
  /\ \/ job[j].step = "digest" /\ job'[j].step = "write" /\ File(j)' = File(j) /\ SameInstalled(j)
     \/ /\ job[j].step = "compare" /\ job'[j].step = "restore" /\ File(j)' = File(j) /\ SameInstalled(j)
        /\ File(j) \in Paths /\ disk[File(j)] \in {"none", job[j].installed[File(j)]}
     \/ Unheld(j) /\ SameInstalled(j)
     \/ /\ Unheld(j) /\ job[j].step = "record" /\ File(j) \in Paths
        /\ job'[j].installed = [job[j].installed EXCEPT ![File(j)] = disk[File(j)]]
Copies(j) ==
  /\ job[j].step = "copy" /\ File(j) \in Paths /\ disk' = disk /\ dirs' = dirs \cup {DirOf(File(j))}
  /\ job'[j].step = IF disk[File(j)] = "none" THEN "write" ELSE "digest"
  /\ job'[j].at = job[j].at /\ File(j)' = File(j) /\ job'[j].outcome = job[j].outcome
  /\ job'[j].backup = [job[j].backup EXCEPT ![File(j)] = disk[File(j)]]
  /\ job'[j].seen = job[j].seen /\ SameInstalled(j)
Writes(j) ==
  /\ job[j].step = "write" /\ job'[j].step = "record" /\ File(j) \in Paths /\ File(j)' = File(j)
  /\ disk' = [disk EXCEPT ![File(j)] = Content(j, File(j))] /\ dirs' = dirs
  /\ job'[j].at = job[j].at /\ job'[j].outcome = job[j].outcome
  /\ SameCopies(j) /\ SameInstalled(j)
Restores(j) ==
  /\ job[j].step = "restore" /\ job'[j].step = "compare" /\ File(j) \in Paths /\ job[j].at \in DOMAIN Bundle(j)
  /\ disk' = [disk EXCEPT ![File(j)] = Restored(j, File(j))] /\ dirs' = dirs
  /\ job'[j].at = job[j].at - 1 /\ job'[j].attempt = job[j].attempt /\ job'[j].outcome = job[j].outcome
  /\ SameCopies(j) /\ SameInstalled(j)

LEMMA StepKinds ==
  ASSUME InstallShape, NEW j \in Jobs, RowOK(j), InPlace(j), Work(j) \/ Break(j)
  PROVE  Moved(j) /\ (Looks(j) \/ Copies(j) \/ Writes(j) \/ Restores(j))
<1>0. plans' = plans
  BY DEF Work, Break, Begin, Check, Copy, Digest, Write, Record, WriteReceipt, ReadArtifact, RunCase, Judge,
         CompareFile, Restore, Finish, Keep
<1>1. Bundle(j)' = Bundle(j)
  BY <1>0, PlansStay
<1>2. ASSUME job'[j].at = job[j].at PROVE File(j)' = File(j)
  BY <1>1, <1>2 DEF File
<1>3. Keep => mine' = mine /\ clashes' = clashes /\ edits' = edits /\ breaks' = breaks
  BY DEF Keep
<1>4. ASSUME NEW step, step # "idle", NEW at, NEW attempt, NEW outcome, RowBecomes(j, step, at, attempt, outcome), Keep
      PROVE  Moved(j) /\ job'[j].step = step /\ job'[j].at = at /\ job'[j].attempt = attempt /\ job'[j].outcome = outcome
  BY <1>0, <1>3, <1>4 DEF RowBecomes, Moved
<1>5. ASSUME NEW step \in {"check", "copy", "compare", "read", "cases", "receipt", "done"}, NEW at, NEW attempt, NEW outcome,
             RowBecomes(j, step, at, attempt, outcome), SameCopies(j), SameInstalled(j), Untouched
      PROVE  Moved(j) /\ Looks(j)
  <2>1. Moved(j) /\ job'[j].step = step
    BY <1>4, <1>5 DEF Untouched
  <2> QED BY <1>5, <2>1 DEF Looks, Unheld, SameCopies, Untouched
<1>6. Thrown(j) /\ Untouched => Moved(j) /\ Looks(j)
  BY <1>5 DEF Thrown, SameRow
<1>7. Stopped(j) /\ Untouched => Moved(j) /\ Looks(j)
  BY <1>5, <1>6 DEF Stopped, SameRow
<1>8. CASE Begin(j)
  BY <1>5, <1>8, StepFacts DEF SameRow
<1>9. CASE Check(j)
  BY <1>5, <1>6, <1>9, StepFacts DEF SameRow
<1>10. CASE Copy(j)
  <2>1. File(j) \in Paths
    BY <1>10, FileIs DEF Copy, Copying
  <2> DEFINE step == IF disk[File(j)] = "none" THEN "write" ELSE "digest"
  <2>2. /\ job[j].step = "copy" /\ Keep /\ disk' = disk /\ dirs' = dirs \cup {DirOf(File(j))}
        /\ RowBecomes(j, step, job[j].at, job[j].attempt, job[j].outcome)
        /\ job'[j].backup = [job[j].backup EXCEPT ![File(j)] = disk[File(j)]]
        /\ job'[j].seen = job[j].seen /\ SameInstalled(j)
    BY <1>10, <2>1, CopyFacts
  <2>3. step # "idle"
    OBVIOUS
  <2> HIDE DEF step
  <2>4. Moved(j) /\ job'[j].step = step /\ job'[j].at = job[j].at /\ job'[j].outcome = job[j].outcome
    BY <1>4, <2>2, <2>3
  <2> QED BY <1>2, <2>1, <2>2, <2>4 DEF Copies, step
<1>11. CASE Digest(j)
  <2>1. File(j) \in Paths
    BY <1>11, FileIs DEF Digest, Copying
  <2>2. /\ job[j].step = "digest" /\ Untouched /\ RowBecomes(j, "write", job[j].at, job[j].attempt, job[j].outcome)
        /\ job'[j].backup = job[j].backup /\ SameInstalled(j)
    BY <1>11, <2>1, DigestFacts
  <2>3. Moved(j) /\ job'[j].step = "write" /\ job'[j].at = job[j].at
    BY <1>4, <2>2 DEF Untouched
  <2> QED BY <1>2, <2>2, <2>3 DEF Looks, Untouched
<1>12. CASE Write(j)
  <2>1. File(j) \in Paths
    BY <1>12, FileIs DEF Write, Copying
  <2>2. /\ job[j].step = "write" /\ disk' = [disk EXCEPT ![File(j)] = Content(j, File(j))] /\ dirs' = dirs /\ Keep
        /\ RowBecomes(j, "record", job[j].at, job[j].attempt, job[j].outcome) /\ SameCopies(j) /\ SameInstalled(j)
    BY <1>12, StepFacts DEF SameRow
  <2>3. Moved(j) /\ job'[j].step = "record" /\ job'[j].at = job[j].at /\ job'[j].outcome = job[j].outcome
    BY <1>4, <2>2
  <2> QED BY <1>2, <2>1, <2>2, <2>3 DEF Writes
<1>13. CASE Record(j)
  <2>1. File(j) \in Paths
    BY <1>13, FileIs DEF Record, Copying
  <2>2. /\ job[j].step = "record" /\ Untouched
        /\ \/ Thrown(j)
           \/ /\ IF job[j].at = Len(Bundle(j))
                 THEN RowBecomes(j, "receipt", 1, job[j].attempt, job[j].outcome)
                 ELSE RowBecomes(j, "copy", job[j].at + 1, job[j].attempt, job[j].outcome)
              /\ job'[j].installed = [job[j].installed EXCEPT ![File(j)] = disk[File(j)]] /\ SameCopies(j)
    BY <1>13, <2>1, RecordFacts
  <2>3. CASE ~Thrown(j)
    <3>1. Moved(j) /\ job'[j].step \in {"receipt", "copy"}
      BY <1>4, <2>2, <2>3 DEF Untouched
    <3> QED BY <2>1, <2>2, <2>3, <3>1 DEF Looks, Unheld, Untouched, SameCopies
  <2> QED BY <1>6, <2>2, <2>3
<1>14. CASE WriteReceipt(j)
  BY <1>5, <1>14, StepFacts DEF SameRow
<1>15. CASE ReadArtifact(j)
  BY <1>5, <1>6, <1>15, StepFacts DEF SameRow
<1>16. CASE \E answer, marker \in BOOLEAN : RunCase(j, answer, marker)
  BY <1>5, <1>16, RunCaseFacts
<1>17. CASE Judge(j)
  BY <1>5, <1>17, StepFacts DEF SameRow
<1>18. CASE CompareFile(j)
  <2>1. /\ job[j].step = "compare" /\ job[j].at > 0 /\ Untouched
        /\ \/ Stopped(j)
           \/ /\ disk[File(j)] \in {"none", job[j].installed[File(j)]} /\ SameCopies(j) /\ SameInstalled(j)
              /\ RowBecomes(j, "restore", job[j].at, job[j].attempt, job[j].outcome)
    BY <1>18, RollbackFacts DEF SameRow
  <2>2. File(j) \in Paths
    BY <2>1, FileIs
  <2>3. CASE ~Stopped(j)
    <3>1. Moved(j) /\ job'[j].step = "restore" /\ job'[j].at = job[j].at
      BY <1>4, <2>1, <2>3 DEF Untouched
    <3> QED BY <1>2, <2>1, <2>2, <2>3, <3>1 DEF Looks, Untouched, SameCopies
  <2> QED BY <1>7, <2>1, <2>3
<1>19. CASE Restore(j)
  <2>1. job[j].step = "restore" /\ job[j].at > 0
    BY <1>19 DEF Restore, InPlace
  <2>2. File(j) \in Paths /\ job[j].at \in DOMAIN Bundle(j)
    BY <2>1, FileIs
  <2>3. /\ Keep /\ dirs' = dirs
        /\ \/ disk' = disk /\ Stopped(j)
           \/ /\ RowBecomes(j, "compare", job[j].at - 1, job[j].attempt, job[j].outcome) /\ SameCopies(j) /\ SameInstalled(j)
              /\ disk' = [disk EXCEPT ![File(j)] = Restored(j, File(j))]
    BY <1>19, <2>1, RollbackFacts DEF SameRow
  <2>4. CASE disk' = disk /\ Stopped(j)
    BY <1>7, <2>3, <2>4 DEF Untouched, KeepDisk
  <2>5. CASE ~(disk' = disk /\ Stopped(j))
    <3>1. /\ Moved(j) /\ job'[j].step = "compare" /\ job'[j].at = job[j].at - 1
          /\ job'[j].attempt = job[j].attempt /\ job'[j].outcome = job[j].outcome
      BY <1>4, <2>3, <2>5
    <3> QED BY <2>1, <2>2, <2>3, <2>5, <3>1 DEF Restores
  <2> QED BY <2>4, <2>5
<1>20. CASE Finish(j)
  BY <1>5, <1>20, StepFacts DEF SameRow
<1>21. CASE Break(j)
  <2>1. Thrown(j) /\ breaks < MaxBreaks /\ breaks' = breaks + 1 /\ KeepDisk /\ mine' = mine /\ clashes' = clashes /\ edits' = edits
    BY <1>21, StepFacts
  <2>2. Moved(j)
    BY <1>0, <2>1 DEF Moved, Thrown, RowBecomes
  <2> QED BY <2>1, <2>2 DEF Looks, Unheld, Thrown, RowBecomes, SameRow, SameCopies
<1> QED BY <1>8, <1>9, <1>10, <1>11, <1>12, <1>13, <1>14, <1>15, <1>16, <1>17, <1>18, <1>19, <1>20, <1>21 DEF Work


-----------------------------------------------------------------------------
(* What the user wrote is on the disk or in a backup.                      *)

Kept == UserContentIsKept /\ \A j \in Jobs : KeptBy(j)
Ours == {"user", "edit"}
SavedNext(p, content) == \E k \in Jobs : job'[k].backup[p] = content

LEMMA ContentIsOurs ==
  ASSUME InstallShape, NEW j \in Jobs, NEW p
  PROVE  Content(j, p) \notin {"user", "edit", "none"} /\ Content(j, p) \in Contents
<1>1. plans[j].version \in Versions
  BY BundleIs DEF PlanRows
<1> QED BY <1>1, InstallAssumption DEF Content, Texts, Contents

\* What it takes for it to stay so.
LEMMA KeptAfter ==
  ASSUME InstallShape, InstallShape', plans' = plans, mine' = mine, clashes' = clashes, Kept,
         NEW j \in Jobs, \A k \in Jobs \ {j} : job'[k] = job[k],
         \A p \in Paths, c \in Ours : Saved(p, c) => SavedNext(p, c),
         \A p \in Paths \ clashes : disk'[p] = disk[p] \/ mine[p] = "none" \/ Saved(p, mine[p]),
         \A p \in Paths \ clashes : disk'[p] = disk[p] \/ disk'[p] \notin Ours \/ SavedNext(p, disk'[p]),
         \A p \in Paths \ clashes : Writing(j, p)' =>
           /\ mine[p] = "none" \/ SavedNext(p, mine[p])
           /\ job'[j].step = "record" /\ disk'[p] \in Ours => SavedNext(p, disk'[p]),
         \A p \in Paths \ clashes : job'[j].installed[p] \in Ours => SavedNext(p, job'[j].installed[p])
  PROVE  Kept'
<1>1. \A p \in Paths : mine[p] \in {"user", "edit", "none"} /\ mine'[p] = mine[p]
  BY DEF InstallShape
<1>2. UserContentIsKept'
  <2> SUFFICES ASSUME NEW p \in Paths \ clashes
               PROVE  mine[p] \in {disk'[p], "none"} \/ SavedNext(p, mine[p])
    BY <1>1 DEF UserContentIsKept, SavedNext
  <2>1. mine[p] \in {disk[p], "none"} \/ Saved(p, mine[p])
    BY DEF Kept, UserContentIsKept, Saved
  <2>2. mine[p] \in Ours /\ Saved(p, mine[p]) => SavedNext(p, mine[p])
    OBVIOUS
  <2>3. disk'[p] = disk[p] \/ mine[p] = "none" \/ Saved(p, mine[p])
    OBVIOUS
  <2> QED BY <1>1, <2>1, <2>2, <2>3 DEF Ours
<1>3. ASSUME NEW k \in Jobs PROVE KeptBy(k)'
  <2> SUFFICES ASSUME NEW p \in Paths \ clashes
               PROVE  /\ Writing(k, p)' => mine[p] = "none" \/ SavedNext(p, mine[p])
                      /\ Writing(k, p)' /\ job'[k].step = "record" /\ disk'[p] \in Ours => SavedNext(p, disk'[p])
                      /\ job'[k].installed[p] \in Ours => SavedNext(p, job'[k].installed[p])
    BY <1>1 DEF KeptBy, Ours, Saved, SavedNext
  <2>1. CASE k = j
    BY <2>1
  <2>2. CASE k # j
    <3>1. job'[k] = job[k] /\ Bundle(k)' = Bundle(k)
      BY <2>2, PlansStay
    <3>2. Writing(k, p)' <=> Writing(k, p)
      BY <3>1 DEF Writing, File
    <3>3. /\ Writing(k, p) => mine[p] = "none" \/ Saved(p, mine[p])
          /\ Writing(k, p) /\ job[k].step = "record" /\ disk[p] \in Ours => Saved(p, disk[p])
          /\ job[k].installed[p] \in Ours => Saved(p, job[k].installed[p])
      BY DEF Kept, KeptBy, Ours
    <3>4. \A c \in Ours : Saved(p, c) => SavedNext(p, c)
      OBVIOUS
    <3>5. disk'[p] = disk[p] \/ disk'[p] \notin Ours \/ SavedNext(p, disk'[p])
      OBVIOUS
    <3>6. Writing(k, p)' => mine[p] = "none" \/ SavedNext(p, mine[p])
      BY <1>1, <3>2, <3>3, <3>4 DEF Ours
    <3>7. Writing(k, p)' /\ job'[k].step = "record" /\ disk'[p] \in Ours => SavedNext(p, disk'[p])
      BY <3>1, <3>2, <3>3, <3>4, <3>5
    <3>8. job'[k].installed[p] \in Ours => SavedNext(p, job'[k].installed[p])
      BY <3>1, <3>3, <3>4
    <3> QED BY <3>6, <3>7, <3>8
  <2> QED BY <2>1, <2>2
<1> QED BY <1>2, <1>3 DEF Kept

LEMMA KeptStep ==
  ASSUME InstallShape, InstallShape', Kept, NEW j \in Jobs, CopiedOnce(j), InPlace(j),
         Moved(j), Looks(j) \/ Copies(j) \/ Writes(j) \/ Restores(j)
  PROVE  Kept'
<1>1. /\ job \in [Jobs -> JobRows] /\ job' \in [Jobs -> JobRows] /\ \A k \in Jobs \ {j} : job'[k] = job[k]
      /\ plans' = plans /\ mine' = mine /\ clashes' = clashes
      /\ disk \in [Paths -> Contents] /\ mine \in [Paths -> {"user", "edit", "none"}]
  BY DEF Moved, InstallShape
<1>2. \A k \in Jobs : job[k].backup \in [Paths -> Contents] /\ job[k].installed \in [Paths -> Contents]
  BY <1>1 DEF JobRows
<1>3. UserContentIsKept /\ KeptBy(j)
  BY DEF Kept
<1> DEFINE Stays == \A p \in Paths, c \in Ours : Saved(p, c) => SavedNext(p, c)
<1>4. job'[j].backup = job[j].backup => Stays
  <2> SUFFICES ASSUME job'[j].backup = job[j].backup, NEW p \in Paths, NEW c \in Ours, Saved(p, c) PROVE SavedNext(p, c)
    OBVIOUS
  <2>1. PICK k \in Jobs : job[k].backup[p] = c
    BY DEF Saved
  <2>2. job'[k].backup[p] = c
    BY <1>1, <2>1
  <2> QED BY <2>2 DEF SavedNext
<1>5. CASE Looks(j)
  <2>1. disk' = disk /\ Stays
    BY <1>4, <1>5 DEF Looks, KeepDisk
  <2>2. ASSUME NEW p \in Paths \ clashes, Writing(j, p)'
        PROVE  /\ mine[p] = "none" \/ Saved(p, mine[p])
               /\ job'[j].step # "record" /\ SameInstalled(j)
    <3>1. ~Unheld(j)
      BY <2>2 DEF Writing, Unheld
    <3>2. CASE job[j].step = "digest" /\ job'[j].step = "write" /\ File(j)' = File(j) /\ SameInstalled(j)
      <4>1. Writing(j, p)
        BY <2>2, <3>2 DEF Writing
      <4> QED BY <1>3, <3>2, <4>1 DEF KeptBy
    <3>3. CASE /\ job[j].step = "compare" /\ job'[j].step = "restore" /\ File(j)' = File(j) /\ SameInstalled(j)
               /\ File(j) \in Paths /\ disk[File(j)] \in {"none", job[j].installed[File(j)]}
      <4>1. p = File(j)
        BY <2>2, <3>3 DEF Writing
      <4>2. mine[p] \in {disk[p], "none"} \/ Saved(p, mine[p])
        BY <1>3 DEF UserContentIsKept, Saved
      <4>3. job[j].installed[p] \in {"user", "edit"} => Saved(p, job[j].installed[p])
        BY <1>3 DEF KeptBy
      <4>4. mine[p] \in {"user", "edit", "none"} /\ disk[p] \in {"none", job[j].installed[p]}
        BY <1>1, <3>3, <4>1
      <4> QED BY <3>3, <4>2, <4>3, <4>4
    <3> QED BY <1>5, <3>1, <3>2, <3>3 DEF Looks
  <2>3. ASSUME NEW p \in Paths \ clashes, job'[j].installed[p] \in Ours PROVE Saved(p, job'[j].installed[p])
    <3>1. CASE SameInstalled(j)
      BY <1>3, <2>3, <3>1 DEF KeptBy, SameInstalled, Ours
    <3>2. CASE job[j].step = "record" /\ job'[j].installed = [job[j].installed EXCEPT ![File(j)] = disk[File(j)]]
      <4>1. CASE p # File(j)
        <5>1. job'[j].installed[p] = job[j].installed[p]
          BY <1>2, <3>2, <4>1
        <5> QED BY <1>3, <2>3, <5>1 DEF KeptBy, Ours
      <4>2. CASE p = File(j)
        <5>1. job'[j].installed[p] = disk[p]
          BY <1>2, <3>2, <4>2
        <5>2. Writing(j, p) /\ job[j].step = "record"
          BY <3>2, <4>2 DEF Writing
        <5> QED BY <1>3, <2>3, <5>1, <5>2 DEF KeptBy, Ours
      <4> QED BY <4>1, <4>2
    <3> QED BY <1>5, <3>1, <3>2 DEF Looks
  <2>4. \A p \in Paths \ clashes : Writing(j, p)' =>
           /\ mine[p] = "none" \/ SavedNext(p, mine[p])
           /\ job'[j].step = "record" /\ disk'[p] \in Ours => SavedNext(p, disk'[p])
    BY <1>1, <2>1, <2>2 DEF Ours
  <2>5. \A p \in Paths \ clashes : job'[j].installed[p] \in Ours => SavedNext(p, job'[j].installed[p])
    BY <2>1, <2>3
  <2> QED BY <1>1, <2>1, <2>4, <2>5, KeptAfter
<1>6. CASE Copies(j)
  <2> DEFINE f == File(j)
  <2>1. f \in Paths /\ job[j].backup[f] = "none"
    <3>1. job[j].at \in DOMAIN Bundle(j) /\ f = Bundle(j)[job[j].at] /\ job[j].at \in Nat
      BY <1>1, <1>6, FileIs DEF Copies, Copying, JobRows
    <3>2. Pending(j, job[j].at)
      BY <1>6, <3>1 DEF Copies, Pending
    <3> QED BY <1>6, <3>1, <3>2 DEF CopiedOnce, Copies
  <2>2. /\ disk' = disk /\ job'[j].backup = [job[j].backup EXCEPT ![f] = disk[f]] /\ SameInstalled(j)
        /\ File(j)' = f /\ job'[j].step \in {"write", "digest"}
    BY <1>6 DEF Copies
  <2> HIDE DEF f
  <2>3. job'[j].backup[f] = disk[f] /\ \A p \in Paths : p # f => job'[j].backup[p] = job[j].backup[p]
    BY <1>2, <2>1, <2>2
  <2>4. Stays
    <3> SUFFICES ASSUME NEW p \in Paths, NEW c \in Ours, Saved(p, c) PROVE SavedNext(p, c)
      OBVIOUS
    <3>1. PICK k \in Jobs : job[k].backup[p] = c
      BY DEF Saved
    <3>2. job'[k].backup[p] = c
      BY <1>1, <2>1, <2>3, <3>1 DEF Ours
    <3> QED BY <3>2 DEF SavedNext
  <2>5. ASSUME NEW p \in Paths \ clashes, Writing(j, p)'
        PROVE  /\ mine[p] = "none" \/ SavedNext(p, mine[p])
               /\ job'[j].step # "record"
    <3>1. p = f
      BY <2>2, <2>5 DEF Writing
    <3>2. SavedNext(f, disk[f])
      BY <2>2, <2>3 DEF SavedNext
    <3>3. mine[p] \in {disk[p], "none"} \/ Saved(p, mine[p])
      BY <1>3 DEF UserContentIsKept, Saved
    <3>4. mine[p] \in {"user", "edit", "none"}
      BY <1>1
    <3>5. mine[p] \in Ours /\ Saved(p, mine[p]) => SavedNext(p, mine[p])
      BY <2>4
    <3>6. mine[p] = disk[p] => SavedNext(p, mine[p])
      BY <3>1, <3>2, <1>1
    <3> QED BY <2>2, <3>3, <3>4, <3>5, <3>6 DEF Ours
  <2>6. \A p \in Paths \ clashes : job'[j].installed[p] \in Ours => SavedNext(p, job'[j].installed[p])
    <3> SUFFICES ASSUME NEW p \in Paths \ clashes, job'[j].installed[p] \in Ours PROVE SavedNext(p, job'[j].installed[p])
      OBVIOUS
    <3>1. job'[j].installed[p] = job[j].installed[p]
      BY <2>2 DEF SameInstalled
    <3>2. Saved(p, job[j].installed[p])
      BY <1>3, <3>1 DEF KeptBy, Ours
    <3> QED BY <2>4, <3>1, <3>2
  <2>7. \A p \in Paths \ clashes : Writing(j, p)' =>
           /\ mine[p] = "none" \/ SavedNext(p, mine[p])
           /\ job'[j].step = "record" /\ disk'[p] \in Ours => SavedNext(p, disk'[p])
    BY <2>5
  <2> QED BY <1>1, <2>2, <2>4, <2>6, <2>7, KeptAfter
<1>7. ASSUME NEW f \in Paths, File(j) = f, job[j].step \in {"write", "restore"}, SameInstalled(j), Stays,
             NEW c, disk' = [disk EXCEPT ![f] = c], c \notin Ours \/ Saved(f, c),
             \A p : Writing(j, p)' => p = f /\ job'[j].step = "record" /\ c \notin Ours
      PROVE  Kept'
  <2>1. disk'[f] = c /\ \A p \in Paths : p # f => disk'[p] = disk[p]
    BY <1>1, <1>7
  <2>2. Writing(j, f)
    BY <1>7 DEF Writing
  <2>3. f \notin clashes => mine[f] = "none" \/ Saved(f, mine[f])
    BY <1>3, <2>2 DEF KeptBy
  <2>4. \A p \in Paths \ clashes : disk'[p] = disk[p] \/ mine[p] = "none" \/ Saved(p, mine[p])
    BY <2>1, <2>3
  <2>5. \A p \in Paths \ clashes : disk'[p] = disk[p] \/ disk'[p] \notin Ours \/ SavedNext(p, disk'[p])
    BY <1>7, <2>1
  <2>6. \A p \in Paths \ clashes : Writing(j, p)' =>
           /\ mine[p] = "none" \/ SavedNext(p, mine[p])
           /\ job'[j].step = "record" /\ disk'[p] \in Ours => SavedNext(p, disk'[p])
    <3> SUFFICES ASSUME NEW p \in Paths \ clashes, Writing(j, p)'
                 PROVE  (mine[p] = "none" \/ SavedNext(p, mine[p])) /\ disk'[p] \notin Ours
      OBVIOUS
    <3>1. p = f /\ disk'[p] \notin Ours
      BY <1>7, <2>1
    <3>2. mine[p] \in Ours \cup {"none"}
      BY <1>1 DEF Ours
    <3> QED BY <1>7, <2>3, <3>1, <3>2
  <2>7. \A p \in Paths \ clashes : job'[j].installed[p] \in Ours => SavedNext(p, job'[j].installed[p])
    <3> SUFFICES ASSUME NEW p \in Paths \ clashes, job'[j].installed[p] \in Ours PROVE SavedNext(p, job'[j].installed[p])
      OBVIOUS
    <3>1. job'[j].installed[p] = job[j].installed[p]
      BY <1>7 DEF SameInstalled
    <3>2. Saved(p, job[j].installed[p])
      BY <1>3, <3>1 DEF KeptBy, Ours
    <3> QED BY <1>7, <3>1, <3>2
  <2> QED BY <1>1, <1>7, <2>4, <2>5, <2>6, <2>7, KeptAfter
<1>8. CASE Writes(j)
  <2>1. Content(j, File(j)) \notin Ours
    BY ContentIsOurs DEF Ours
  <2>2. \A p : Writing(j, p)' => p = File(j) /\ job'[j].step = "record"
    BY <1>8 DEF Writes, Writing
  <2>3. Stays /\ SameInstalled(j)
    BY <1>4, <1>8 DEF Writes, SameCopies
  <2> QED BY <1>7, <1>8, <2>1, <2>2, <2>3 DEF Writes
<1>9. CASE Restores(j)
  <2>1. Restored(j, File(j)) \notin Ours \/ Saved(File(j), Restored(j, File(j)))
    BY DEF Restored, Saved, Ours
  <2>2. \A p : ~Writing(j, p)'
    BY <1>9 DEF Restores, Writing
  <2>3. Stays /\ SameInstalled(j)
    BY <1>4, <1>9 DEF Restores, SameCopies
  <2> QED BY <1>7, <1>9, <2>1, <2>2, <2>3 DEF Restores
<1> QED BY <1>5, <1>6, <1>8, <1>9


-----------------------------------------------------------------------------
(* A file has its directory.                                               *)

LEMMA DirsStep ==
  ASSUME InstallShape, InstallShape', DirsExist, NEW j \in Jobs,
         Moved(j), Looks(j) \/ Copies(j) \/ Writes(j) \/ Restores(j)
  PROVE  DirsExist'
<1>1. /\ job \in [Jobs -> JobRows] /\ job' \in [Jobs -> JobRows] /\ \A k \in Jobs \ {j} : job'[k] = job[k]
      /\ plans' = plans /\ disk \in [Paths -> Contents]
  BY DEF Moved, InstallShape
<1>2. \A k \in Jobs : job[k].backup \in [Paths -> Contents]
  BY <1>1 DEF JobRows
<1>3. ASSUME NEW k \in Jobs \ {j} PROVE File(k)' = File(k) /\ job'[k] = job[k]
  BY <1>1, PlansStay DEF File
<1>4. ASSUME dirs \subseteq dirs',
             \A p \in Paths : disk'[p] # "none" => DirOf(p) \in dirs',
             \A p \in Paths : job'[j].backup[p] # "none" => DirOf(p) \in dirs',
             job'[j].step \in {"digest", "write"} => DirOf(File(j)') \in dirs'
      PROVE  DirsExist'
  <2>1. ASSUME NEW k \in Jobs
        PROVE  /\ \A p \in Paths : job'[k].backup[p] # "none" => DirOf(p) \in dirs'
               /\ job'[k].step \in {"digest", "write"} => DirOf(File(k)') \in dirs'
    <3>1. CASE k = j
      BY <1>4, <3>1
    <3>2. CASE k # j
      BY <1>3, <1>4, <3>2 DEF DirsExist
    <3> QED BY <3>1, <3>2
  <2> QED BY <1>4, <2>1 DEF DirsExist
<1>5. CASE Looks(j)
  <2>1. disk' = disk /\ dirs' = dirs /\ job'[j].backup = job[j].backup
    BY <1>5 DEF Looks, KeepDisk
  <2>2. job'[j].step \in {"digest", "write"} => job[j].step = "digest" /\ File(j)' = File(j)
    BY <1>5 DEF Looks, Unheld
  <2> QED BY <1>4, <2>1, <2>2 DEF DirsExist
<1>6. CASE Copies(j)
  <2> DEFINE f == File(j)
  <2>1. /\ f \in Paths /\ disk' = disk /\ dirs' = dirs \cup {DirOf(f)} /\ File(j)' = f
        /\ job'[j].backup = [job[j].backup EXCEPT ![f] = disk[f]]
    BY <1>6 DEF Copies
  <2> HIDE DEF f
  <2>2. \A p \in Paths : job'[j].backup[p] # "none" => DirOf(p) \in dirs'
    BY <1>2, <2>1 DEF DirsExist
  <2> QED BY <1>4, <2>1, <2>2 DEF DirsExist
<1>7. ASSUME NEW f \in Paths, NEW c, disk' = [disk EXCEPT ![f] = c], dirs' = dirs, c # "none" => DirOf(f) \in dirs,
             job'[j].backup = job[j].backup, job'[j].step \notin {"digest", "write"}
      PROVE  DirsExist'
  <2>1. \A p \in Paths : disk'[p] # "none" => DirOf(p) \in dirs'
    BY <1>1, <1>7 DEF DirsExist
  <2> QED BY <1>4, <1>7, <2>1 DEF DirsExist
<1>8. CASE Writes(j)
  <2>1. DirOf(File(j)) \in dirs
    BY <1>8 DEF Writes, DirsExist
  <2> QED BY <1>7, <1>8, <2>1 DEF Writes, SameCopies
<1>9. CASE Restores(j)
  <2>1. Restored(j, File(j)) # "none" => DirOf(File(j)) \in dirs
    BY <1>9 DEF Restores, Restored, DirsExist
  <2> QED BY <1>7, <1>9, <2>1 DEF Restores, SameCopies
<1> QED BY <1>5, <1>6, <1>8, <1>9

-----------------------------------------------------------------------------
(* A verification that no other one meets in its files.                    *)

LEMMA AloneStays ==
  ASSUME plans' = plans, \A m \in Jobs : job'[m].step = "idle" => job[m].step = "idle"
  PROVE  \A k \in Jobs : Alone(k)' => Alone(k)
BY PlansStay DEF Alone

LEMMA OthersAside ==
  ASSUME InstallShape, NEW j \in Jobs, InPlace(j), NEW k \in Jobs, k # j,
         Moved(j), Looks(j) \/ Copies(j) \/ Writes(j) \/ Restores(j), Alone(k)'
  PROVE  /\ Alone(k) /\ job'[k] = job[k] /\ Bundle(k)' = Bundle(k)
         /\ \A i \in DOMAIN Bundle(k) : disk'[Bundle(k)[i]] = disk[Bundle(k)[i]]
<1>1. plans' = plans /\ job'[j].step # "idle" /\ \A m \in Jobs \ {j} : job'[m] = job[m]
  BY DEF Moved
<1>2. Alone(k)
  BY <1>1, AloneStays
<1>3. \A m \in Jobs : Bundle(m)' = Bundle(m)
  BY <1>1, PlansStay
<1>4. ToSet(Bundle(j)) \cap ToSet(Bundle(k)) = {}
  BY <1>1, <1>3 DEF Alone
<1>5. ASSUME NEW i \in DOMAIN Bundle(k), job[j].step \in Copying \cup {"restore"} PROVE Bundle(k)[i] # File(j)
  <2>1. Bundle(k)[i] \in ToSet(Bundle(k))
    BY DEF ToSet
  <2>2. File(j) \in ToSet(Bundle(j))
    BY <1>5, FileIs DEF ToSet
  <2> QED BY <1>4, <2>1, <2>2
<1>6. ASSUME NEW i \in DOMAIN Bundle(k) PROVE disk'[Bundle(k)[i]] = disk[Bundle(k)[i]]
  <2>0. Bundle(k)[i] \in Paths
    BY BundleIs
  <2>1. CASE Looks(j) \/ Copies(j)
    BY <2>1 DEF Looks, Copies, KeepDisk
  <2>2. CASE Writes(j) \/ Restores(j)
    <3>1. Bundle(k)[i] # File(j)
      BY <1>5, <2>2 DEF Writes, Restores, Copying
    <3>2. PICK c : disk' = [disk EXCEPT ![File(j)] = c]
      BY <2>2 DEF Writes, Restores
    <3> QED BY <2>0, <3>1, <3>2 DEF InstallShape
  <2> QED BY <2>1, <2>2
<1> QED BY <1>1, <1>2, <1>3, <1>6


LEMMA AloneOwn ==
  ASSUME InstallShape, NEW j \in Jobs, RowOK(j), InPlace(j), CopiedOnce(j), Work(j) \/ Break(j),
         NEW i \in DOMAIN Bundle(j), NEW p, p = Bundle(j)[i], AloneIn(j, i, p)
  PROVE  AloneIn(j, i, p)'
<1> DEFINE r == job[j]
           c == Content(j, p)
           n == Len(Bundle(j))
<1>1. /\ n \in Nat /\ i \in 1..n /\ p \in Paths /\ r.at \in Nat
      /\ \A k \in DOMAIN Bundle(j) : Bundle(j)[k] = p => k = i
  BY BundleIs DEF InstallShape, JobRows
<1>2. Moved(j) /\ (Looks(j) \/ Copies(j) \/ Writes(j) \/ Restores(j))
  BY StepKinds
<1>3. plans' = plans /\ mine' = mine /\ edits' = edits /\ mine[p] \in {"user", "edit", "none"}
  BY <1>1, <1>2 DEF Moved, InstallShape
<1>4. Content(j, p)' = c /\ c \notin {"user", "edit", "none"}
  BY <1>3, PlansStay, ContentIsOurs
<1>5. r.outcome = "none" <=> r.step # "done"
  BY DEF RowOK
<1>6. /\ job[j].backup \in [Paths -> Contents] /\ job[j].seen \in [Paths -> Contents]
      /\ job[j].installed \in [Paths -> Contents] /\ disk \in [Paths -> Contents]
  BY DEF InstallShape, JobRows
<1>7. r.step \in Copying \cup {"restore"} \/ (r.step = "compare" /\ r.at > 0) =>
        /\ r.at \in 1..n /\ (File(j) = p <=> i = r.at)
  BY <1>1, BundleIs, FileIs
<1>8. ASSUME job'[j].step = "done", job'[j].outcome # "receipt" PROVE AloneIn(j, i, p)'
  BY <1>8 DEF AloneIn, Pending
<1>9. Thrown(j) => AloneIn(j, i, p)'
  BY <1>8 DEF Thrown, RowBecomes
<1>10. ASSUME Stopped(j), r.step # "done" PROVE AloneIn(j, i, p)'
  <2>1. CASE RowBecomes(j, "compare", job[j].ops, 2, job[j].outcome)
    <3>1. job'[j].step = "compare" /\ job'[j].attempt = 2 /\ job'[j].outcome = "none"
      BY <1>5, <1>10, <2>1 DEF RowBecomes
    <3> QED BY <3>1 DEF AloneIn, Pending
  <2> QED BY <1>9, <1>10, <2>1 DEF Stopped
<1> HIDE DEF c, n
\* The file is as the verification left it, and so are its copies.
<1>11. ASSUME NEW step, NEW at, NEW attempt, RowBecomes(j, step, at, attempt, r.outcome), SameCopies(j), r.step # "done"
       PROVE  /\ job'[j].step = step /\ job'[j].at = at /\ job'[j].attempt = attempt /\ job'[j].outcome = "none"
              /\ job'[j].backup = r.backup /\ job'[j].seen = r.seen
  BY <1>5, <1>11 DEF RowBecomes, SameCopies
<1>12. CASE Begin(j)
  <2>1. /\ r.step = "idle" /\ disk' = disk /\ RowBecomes(j, "check", r.at, r.attempt, r.outcome) /\ SameCopies(j)
    BY <1>12, StepFacts DEF SameRow, Untouched, KeepDisk
  <2>2. job'[j].step = "check" /\ job'[j].outcome = "none" /\ disk' = disk
    BY <1>11, <2>1
  <2>3. disk[p] = mine[p]
    BY <2>1 DEF AloneIn, Pending
  <2> QED BY <1>3, <2>2, <2>3 DEF AloneIn, Pending
<1>13. CASE Check(j)
  <2>1. /\ r.step = "check" /\ disk' = disk
        /\ \/ RowBecomes(j, "copy", 1, r.attempt, r.outcome) /\ SameCopies(j)
           \/ RowBecomes(j, "check", r.at + 1, r.attempt, r.outcome) /\ SameCopies(j)
           \/ Thrown(j)
    BY <1>13, StepFacts DEF SameRow, Untouched, KeepDisk
  <2>2. Thrown(j) \/ (job'[j].step \in {"check", "copy"} /\ job'[j].outcome = "none" /\ (job'[j].step = "copy" => job'[j].at = 1))
    BY <1>11, <2>1
  <2>3. disk[p] = mine[p]
    BY <2>1 DEF AloneIn, Pending
  <2>4. CASE ~Thrown(j)
    BY <1>1, <1>3, <2>1, <2>2, <2>3, <2>4 DEF AloneIn, Pending
  <2> QED BY <1>9, <2>4
<1>14. CASE Copy(j)
  <2>1. File(j) \in Paths
    BY <1>14, FileIs DEF Copy, Copying
  <2> DEFINE step == IF disk[File(j)] = "none" THEN "write" ELSE "digest"
  <2>2. /\ r.step = "copy" /\ disk' = disk /\ RowBecomes(j, step, r.at, r.attempt, r.outcome)
        /\ job'[j].backup = [r.backup EXCEPT ![File(j)] = disk[File(j)]]
        /\ job'[j].seen = r.seen /\ job'[j].installed = r.installed
    BY <1>14, <2>1, CopyFacts DEF SameInstalled
  <2>3. job'[j].step = step /\ job'[j].at = r.at /\ job'[j].outcome = "none"
    BY <1>5, <2>2 DEF RowBecomes
  <2>4. r.at \in 1..n /\ (File(j) = p <=> i = r.at)
    BY <1>7, <2>2 DEF Copying
  <2>5. CASE i = r.at
    <3>1. File(j) = p /\ disk[p] = mine[p] /\ r.seen[p] = "none"
      <4>1. Pending(j, i)
        BY <2>2, <2>5, <2>4 DEF Pending
      <4> QED BY <1>1, <2>4, <2>5, <4>1 DEF AloneIn, CopiedOnce
    <3>2. job'[j].backup[p] = mine[p]
      BY <1>6, <1>1, <2>2, <3>1
    <3>3. job'[j].step = "write" => job'[j].seen[p] = mine[p]
      BY <2>2, <2>3, <3>1
    <3>4. job'[j].step \in {"write", "digest"}
      BY <2>3
    <3> QED BY <1>1, <1>3, <2>2, <2>3, <2>5, <3>1, <3>2, <3>3, <3>4 DEF AloneIn, Pending
  <2>6. CASE i # r.at
    <3>1. job'[j].backup[p] = r.backup[p]
      BY <1>6, <1>1, <2>2, <2>4, <2>6
    <3>2. job'[j].step \in {"write", "digest"}
      BY <2>3
    <3>3. i < r.at => AsInstalled(j, p)'
      BY <1>3, <1>4, <2>2, <3>1 DEF AloneIn, AsInstalled, c
    <3>4. i > r.at => disk[p] = mine[p]
      BY <1>1, <2>2 DEF AloneIn, Pending
    <3> QED BY <1>1, <1>3, <2>2, <2>3, <2>6, <3>2, <3>3, <3>4 DEF AloneIn, Pending
  <2> QED BY <2>5, <2>6
<1>15. CASE Digest(j)
  <2>1. File(j) \in Paths
    BY <1>15, FileIs DEF Digest, Copying
  <2>2. /\ r.step = "digest" /\ disk' = disk /\ RowBecomes(j, "write", r.at, r.attempt, r.outcome)
        /\ job'[j].seen = [r.seen EXCEPT ![File(j)] = disk[File(j)]]
        /\ job'[j].backup = r.backup /\ job'[j].installed = r.installed
    BY <1>15, <2>1, DigestFacts DEF SameInstalled, Untouched, KeepDisk
  <2>3. job'[j].step = "write" /\ job'[j].at = r.at /\ job'[j].outcome = "none"
    BY <1>5, <2>2 DEF RowBecomes
  <2>4. r.at \in 1..n /\ (File(j) = p <=> i = r.at)
    BY <1>7, <2>2 DEF Copying
  <2>5. CASE i = r.at
    <3>1. disk[p] = mine[p] /\ r.backup[p] = mine[p] /\ job'[j].seen[p] = disk[p]
      BY <1>1, <1>6, <2>2, <2>4, <2>5 DEF AloneIn
    <3> QED BY <1>1, <1>3, <2>2, <2>3, <2>5, <3>1 DEF AloneIn, Pending
  <2>6. CASE i # r.at
    <3>1. job'[j].seen[p] = r.seen[p]
      BY <1>6, <1>1, <2>2, <2>4, <2>6
    <3>2. i < r.at => AsInstalled(j, p)'
      BY <1>3, <1>4, <2>2, <3>1 DEF AloneIn, AsInstalled, c
    <3>3. i > r.at => disk[p] = mine[p]
      BY <1>1, <2>2 DEF AloneIn, Pending
    <3> QED BY <1>1, <1>3, <2>2, <2>3, <2>6, <3>2, <3>3 DEF AloneIn, Pending
  <2> QED BY <2>5, <2>6
<1>16. CASE Write(j)
  <2>1. /\ r.step = "write" /\ disk' = [disk EXCEPT ![File(j)] = Content(j, File(j))]
        /\ RowBecomes(j, "record", r.at, r.attempt, r.outcome) /\ SameCopies(j) /\ job'[j].installed = r.installed
    BY <1>16, StepFacts DEF SameRow, SameInstalled
  <2>2. /\ job'[j].step = "record" /\ job'[j].at = r.at /\ job'[j].outcome = "none"
        /\ job'[j].backup = r.backup /\ job'[j].seen = r.seen
    BY <1>11, <2>1
  <2>3. r.at \in 1..n /\ (File(j) = p <=> i = r.at)
    BY <1>7, <2>1 DEF Copying
  <2>4. CASE i = r.at
    <3>1. disk'[p] = c /\ r.backup[p] = mine[p] /\ r.seen[p] = mine[p]
      BY <1>1, <1>6, <2>1, <2>3, <2>4 DEF AloneIn, c
    <3> QED BY <1>1, <1>3, <1>4, <2>2, <2>4, <3>1 DEF AloneIn, Pending
  <2>5. CASE i # r.at
    <3>1. disk'[p] = disk[p]
      BY <1>6, <1>1, <2>1, <2>3, <2>5
    <3>2. i < r.at => AsInstalled(j, p)'
      BY <1>3, <1>4, <2>1, <2>2, <3>1 DEF AloneIn, AsInstalled, c
    <3>3. i > r.at => disk[p] = mine[p]
      BY <1>1, <2>1 DEF AloneIn, Pending
    <3> QED BY <1>1, <1>3, <2>2, <2>5, <3>1, <3>2, <3>3 DEF AloneIn, Pending
  <2> QED BY <2>4, <2>5
<1>17. CASE Record(j)
  <2>1. File(j) \in Paths
    BY <1>17, FileIs DEF Record, Copying
  <2>2. /\ r.step = "record" /\ disk' = disk
        /\ \/ Thrown(j)
           \/ /\ IF r.at = Len(Bundle(j))
                 THEN RowBecomes(j, "receipt", 1, r.attempt, r.outcome)
                 ELSE RowBecomes(j, "copy", r.at + 1, r.attempt, r.outcome)
              /\ job'[j].installed = [r.installed EXCEPT ![File(j)] = disk[File(j)]] /\ SameCopies(j)
    BY <1>17, <2>1, RecordFacts DEF Untouched, KeepDisk
  <2>3. r.at \in 1..n /\ (File(j) = p <=> i = r.at)
    BY <1>7, <2>2 DEF Copying
  <2>4. CASE ~Thrown(j)
    <3>1. /\ IF r.at = n THEN job'[j].step = "receipt" ELSE job'[j].step = "copy" /\ job'[j].at = r.at + 1
          /\ job'[j].outcome = "none" /\ job'[j].backup = r.backup /\ job'[j].seen = r.seen
          /\ job'[j].installed = [r.installed EXCEPT ![File(j)] = disk[File(j)]]
      BY <1>11, <2>2, <2>4 DEF n
    <3>2. i = r.at => AsInstalled(j, p)'
      <4>1. i = r.at => disk[p] = c /\ r.backup[p] = mine[p] /\ r.seen[p] = mine[p] /\ job'[j].installed[p] = disk[p]
        BY <1>1, <1>6, <2>2, <2>3, <3>1 DEF AloneIn, c
      <4> QED BY <1>3, <1>4, <2>2, <3>1, <4>1 DEF AsInstalled
    <3>3. i < r.at => AsInstalled(j, p)'
      <4>1. i < r.at => job'[j].installed[p] = r.installed[p] /\ AsInstalled(j, p)
        BY <1>1, <1>6, <2>2, <2>3, <3>1 DEF AloneIn
      <4> QED BY <1>3, <1>4, <2>2, <3>1, <4>1 DEF AsInstalled, c
    <3>4. i > r.at => disk[p] = mine[p]
      BY <1>1, <2>2 DEF AloneIn, Pending
    <3>5. CASE r.at = n
      BY <1>1, <2>3, <3>1, <3>2, <3>3, <3>5 DEF AloneIn, Pending
    <3>6. CASE r.at # n
      BY <1>1, <1>3, <2>2, <2>3, <3>1, <3>2, <3>3, <3>4, <3>6 DEF AloneIn, Pending
    <3> QED BY <3>5, <3>6
  <2> QED BY <1>9, <2>4
\* From the receipt of the installation to the first rollback.
<1>18. ASSUME r.step \in {"receipt", "read", "cases"}, disk' = disk, SameRow(j),
              NEW step \in {"read", "cases", "compare"}, NEW at, NEW attempt, RowBecomes(j, step, at, attempt, r.outcome),
              step = "compare" => at = n
       PROVE  AloneIn(j, i, p)'
  <2>1. /\ job'[j].step = step /\ job'[j].at = at /\ job'[j].outcome = "none"
        /\ job'[j].backup = r.backup /\ job'[j].seen = r.seen /\ job'[j].installed = r.installed
    BY <1>11, <1>18 DEF SameRow, SameInstalled
  <2>2. AsInstalled(j, p)
    BY <1>18 DEF AloneIn
  <2>3. AsInstalled(j, p)'
    BY <1>3, <1>4, <1>18, <2>1, <2>2 DEF AsInstalled, c
  <2> QED BY <1>1, <1>18, <2>1, <2>3 DEF AloneIn, Pending
<1>19. CASE WriteReceipt(j)
  <2>1. PICK step \in {"read", "cases"} :
          r.step = "receipt" /\ disk' = disk /\ SameRow(j) /\ RowBecomes(j, step, r.at, r.attempt, r.outcome)
    BY <1>19, StepFacts DEF Untouched, KeepDisk
  <2> QED BY <1>18, <2>1
<1>20. CASE ReadArtifact(j)
  <2>1. /\ r.step = "read" /\ disk' = disk
        /\ \/ SameRow(j) /\ RowBecomes(j, "read", r.at + 1, r.attempt, r.outcome)
           \/ SameRow(j) /\ RowBecomes(j, "cases", 1, r.attempt, r.outcome)
           \/ Thrown(j)
    BY <1>20, StepFacts DEF Untouched, KeepDisk
  <2> QED BY <1>9, <1>18, <2>1
<1>21. CASE \E answer, marker \in BOOLEAN : RunCase(j, answer, marker)
  <2>1. r.step = "cases" /\ disk' = disk /\ SameCopies(j) /\ SameInstalled(j) /\ RowBecomes(j, "cases", r.at, r.attempt, r.outcome)
    BY <1>21, RunCaseFacts DEF Untouched, KeepDisk
  <2>2. /\ job'[j].step = "cases" /\ job'[j].outcome = "none"
        /\ job'[j].backup = r.backup /\ job'[j].seen = r.seen /\ job'[j].installed = r.installed
    BY <1>11, <2>1 DEF SameInstalled
  <2>3. AsInstalled(j, p)
    BY <2>1 DEF AloneIn
  <2>4. AsInstalled(j, p)'
    BY <1>3, <1>4, <2>1, <2>2, <2>3 DEF AsInstalled, c
  <2> QED BY <2>2, <2>4 DEF AloneIn, Pending
<1>22. CASE Judge(j)
  <2>1. /\ r.step = "cases" /\ disk' = disk /\ SameRow(j)
        /\ RowBecomes(j, "done", r.ops, 1, "retained") \/ RowBecomes(j, "compare", r.ops, 1, r.outcome)
    BY <1>22, StepFacts DEF Untouched, KeepDisk
  <2>2. r.ops = n
    BY <2>1 DEF InPlace, n
  <2>3. CASE RowBecomes(j, "done", r.ops, 1, "retained")
    BY <1>8, <2>3 DEF RowBecomes
  <2> QED BY <1>18, <2>1, <2>2, <2>3
<1>23. CASE CompareFile(j)
  <2>1. /\ r.step = "compare" /\ r.at > 0 /\ disk' = disk
        /\ \/ Stopped(j)
           \/ /\ disk[File(j)] \in {"none", r.installed[File(j)]} /\ SameRow(j)
              /\ RowBecomes(j, "restore", r.at, r.attempt, r.outcome)
    BY <1>23, RollbackFacts DEF Untouched, KeepDisk
  <2>2. CASE ~Stopped(j)
    <3>1. /\ job'[j].step = "restore" /\ job'[j].at = r.at /\ job'[j].attempt = r.attempt /\ job'[j].outcome = "none"
          /\ job'[j].backup = r.backup /\ job'[j].seen = r.seen /\ job'[j].installed = r.installed
      BY <1>11, <2>1, <2>2 DEF SameRow, SameInstalled
    <3>2. r.attempt = 1 => (i <= r.at => AsInstalled(j, p)) /\ (i > r.at => AsBefore(p))
      BY <2>1 DEF AloneIn
    <3>3. r.attempt = 1 => (i <= r.at => AsInstalled(j, p)') /\ (i > r.at => AsBefore(p)')
      BY <1>3, <1>4, <2>1, <3>1, <3>2 DEF AsInstalled, AsBefore, c
    <3>4. r.attempt = 1 /\ i = r.at => disk[p] \in {"none", c}
      <4>1. i = r.at => File(j) = p
        BY <1>7, <2>1
      <4> QED BY <1>1, <2>1, <2>2, <3>2, <4>1 DEF AsInstalled, c
    <3> QED BY <1>1, <1>3, <1>4, <2>1, <3>1, <3>3, <3>4 DEF AloneIn, Pending
  <2> QED BY <1>10, <2>1, <2>2
<1>24. CASE Restore(j)
  <2>0. r.step = "restore" /\ r.at > 0
    BY <1>24 DEF Restore, InPlace
  <2>1. \/ disk' = disk /\ Stopped(j)
        \/ /\ RowBecomes(j, "compare", r.at - 1, r.attempt, r.outcome) /\ SameRow(j)
           /\ disk' = [disk EXCEPT ![File(j)] = Restored(j, File(j))]
    BY <1>24, <2>0, RollbackFacts
  <2>2. CASE ~Stopped(j)
    <3>1. /\ job'[j].step = "compare" /\ job'[j].at = r.at - 1 /\ job'[j].attempt = r.attempt /\ job'[j].outcome = "none"
          /\ job'[j].backup = r.backup /\ job'[j].seen = r.seen /\ job'[j].installed = r.installed
          /\ disk' = [disk EXCEPT ![File(j)] = Restored(j, File(j))]
      BY <1>11, <2>0, <2>1, <2>2 DEF SameRow, SameInstalled
    <3>2. r.at \in 1..n /\ (File(j) = p <=> i = r.at)
      BY <1>7, <2>0
    <3>3. CASE i = r.at
      <4>1. r.attempt = 1 => AsInstalled(j, p) /\ disk[p] \in {"none", c}
        BY <1>1, <2>0, <3>3 DEF AloneIn, c
      <4>2. disk'[p] = Restored(j, p)
        BY <1>1, <1>6, <3>1, <3>2, <3>3
      <4>3. r.attempt = 1 => AsBefore(p)'
        <5>1. r.attempt = 1 => disk'[p] = r.backup[p]
          BY <4>1, <4>2 DEF Restored, AsInstalled
        <5> QED BY <1>3, <1>4, <4>1, <5>1 DEF AsInstalled, AsBefore, c
      <4> QED BY <1>1, <3>1, <3>2, <3>3, <4>3 DEF AloneIn, Pending
    <3>4. CASE i # r.at
      <4>1. disk'[p] = disk[p]
        BY <1>1, <1>6, <3>1, <3>2, <3>4
      <4>2. r.attempt = 1 => (i <= r.at => AsInstalled(j, p)) /\ (i > r.at => AsBefore(p))
        BY <2>0 DEF AloneIn
      <4>3. r.attempt = 1 => (i <= r.at => AsInstalled(j, p)') /\ (i > r.at => AsBefore(p)')
        BY <1>3, <1>4, <3>1, <4>1, <4>2 DEF AsInstalled, AsBefore, c
      <4> QED BY <1>1, <3>1, <3>2, <3>4, <4>3 DEF AloneIn, Pending
    <3> QED BY <3>3, <3>4
  <2> QED BY <1>10, <2>0, <2>1, <2>2
<1>25. CASE Finish(j)
  <2>1. /\ r.step = "compare" /\ r.at = 0 /\ disk' = disk
        /\ RowBecomes(j, "done", 0, r.attempt, IF r.attempt = 1 THEN "receipt" ELSE "thrown")
    BY <1>25, StepFacts DEF Untouched, KeepDisk
  <2>2. job'[j].step = "done" /\ job'[j].outcome = IF r.attempt = 1 THEN "receipt" ELSE "thrown"
    BY <2>1 DEF RowBecomes
  <2>3. r.attempt = 1 => AsBefore(p)
    BY <1>1, <2>1 DEF AloneIn
  <2>4. r.attempt = 1 => AsBefore(p)'
    BY <1>3, <2>1, <2>3 DEF AsBefore
  <2> QED BY <2>2, <2>4 DEF AloneIn, Pending
<1>26. CASE Break(j)
  BY <1>9, <1>26, StepFacts
<1> QED BY <1>12, <1>13, <1>14, <1>15, <1>16, <1>17, <1>19, <1>20, <1>21, <1>22, <1>23, <1>24, <1>25, <1>26 DEF Work


StepsOf(j) ==
  /\ job'[j].step = "check" =>
       \/ job[j].step = "idle" /\ job'[j].at = 1
       \/ /\ job[j].step = "check" /\ job'[j].at = job[j].at + 1 /\ job[j].at \in 1..Len(Guarded(j))
          /\ ~Exists(Guarded(j)[job[j].at])
  /\ job'[j].step = "check" => disk' = disk
  /\ job'[j].step = "copy" => disk' = disk /\ (job[j].step = "check" => job[j].at = Len(Guarded(j)) + 1)

LEMMA PendingOwn ==
  ASSUME InstallShape, NEW j \in Jobs, RowOK(j), InPlace(j), Work(j) \/ Break(j),
         NEW i \in DOMAIN Bundle(j), NEW p, p = Bundle(j)[i]
  PROVE  /\ Pending(j, i)' => Pending(j, i) /\ job'[j].backup[p] = job[j].backup[p] /\ job'[j].seen[p] = job[j].seen[p]
         /\ Unwritten(j, i)' => disk'[p] = disk[p] /\ (Unwritten(j, i) \/ (job[j].step = "check" /\ job'[j].step = "copy"))
         /\ job'[j].backup[p] = job[j].backup[p] \/ (job'[j].backup[p] = disk[p] /\ Unwritten(j, i))
         /\ StepsOf(j)
<1> DEFINE r == job[j]
           n == Len(Bundle(j))
           Goal == /\ Pending(j, i)' => Pending(j, i) /\ job'[j].backup[p] = job[j].backup[p] /\ job'[j].seen[p] = job[j].seen[p]
                   /\ Unwritten(j, i)' => disk'[p] = disk[p] /\ (Unwritten(j, i) \/ (job[j].step = "check" /\ job'[j].step = "copy"))
                   /\ job'[j].backup[p] = job[j].backup[p] \/ (job'[j].backup[p] = disk[p] /\ Unwritten(j, i))
                   /\ StepsOf(j)
<1>1. /\ n \in Nat /\ i \in 1..n /\ p \in Paths /\ r.at \in Nat /\ Len(Guarded(j)) \in Nat
      /\ \A k \in DOMAIN Bundle(j) : Bundle(j)[k] = p => k = i
  BY BundleIs DEF InstallShape, JobRows
<1>2. r.backup \in [Paths -> Contents] /\ r.seen \in [Paths -> Contents] /\ disk \in [Paths -> Contents]
  BY DEF InstallShape, JobRows
<1>3. r.step \in Copying => r.at \in 1..n /\ (File(j) = p <=> i = r.at)
  BY <1>1, BundleIs, FileIs
<1> HIDE DEF n
<1>4. ASSUME job'[j].step \notin {"idle", "check"} \cup Copying, SameCopies(j) PROVE Goal
  BY <1>4 DEF Pending, Unwritten, StepsOf, SameCopies, Copying
<1>5. Thrown(j) => Goal
  BY <1>4 DEF Thrown, SameRow, RowBecomes, Copying
<1>6. Stopped(j) => Goal
  BY <1>4, <1>5 DEF Stopped, SameRow, RowBecomes, Copying
<1>7. CASE Begin(j)
  <2>1. /\ r.step = "idle" /\ disk' = disk /\ SameCopies(j) /\ r.at = 1
        /\ RowBecomes(j, "check", r.at, r.attempt, r.outcome)
    BY <1>7, StepFacts DEF SameRow, Untouched, KeepDisk, InPlace
  <2>2. job'[j].step = "check" /\ job'[j].at = 1
    BY <2>1 DEF RowBecomes
  <2> QED BY <2>1, <2>2 DEF Pending, Unwritten, StepsOf, SameCopies
<1>8. CASE Check(j)
  <2>1. /\ r.step = "check" /\ disk' = disk
        /\ \/ r.at > Len(Guarded(j)) /\ SameCopies(j) /\ RowBecomes(j, "copy", 1, r.attempt, r.outcome)
           \/ /\ r.at <= Len(Guarded(j)) /\ ~Exists(Guarded(j)[r.at]) /\ SameCopies(j)
              /\ RowBecomes(j, "check", r.at + 1, r.attempt, r.outcome)
           \/ Thrown(j)
    BY <1>8, StepFacts DEF SameRow, Untouched, KeepDisk
  <2>2. r.at \in 1..Len(Guarded(j)) + 1
    BY <2>1 DEF InPlace
  <2>3. CASE r.at > Len(Guarded(j)) /\ SameCopies(j) /\ RowBecomes(j, "copy", 1, r.attempt, r.outcome)
    <3>1. job'[j].step = "copy" /\ job'[j].at = 1 /\ r.at = Len(Guarded(j)) + 1
      BY <1>1, <2>2, <2>3 DEF RowBecomes
    <3> QED BY <2>1, <2>3, <3>1 DEF Pending, Unwritten, StepsOf, SameCopies
  <2>4. CASE /\ r.at <= Len(Guarded(j)) /\ ~Exists(Guarded(j)[r.at]) /\ SameCopies(j)
             /\ RowBecomes(j, "check", r.at + 1, r.attempt, r.outcome)
    <3>1. job'[j].step = "check" /\ job'[j].at = r.at + 1 /\ r.at \in 1..Len(Guarded(j))
      BY <1>1, <2>2, <2>4 DEF RowBecomes
    <3> QED BY <2>1, <2>4, <3>1 DEF Pending, Unwritten, StepsOf, SameCopies
  <2> QED BY <1>5, <2>1, <2>3, <2>4
<1>9. CASE Copy(j)
  <2>1. File(j) \in Paths
    BY <1>9, FileIs DEF Copy, Copying
  <2> DEFINE step == IF disk[File(j)] = "none" THEN "write" ELSE "digest"
  <2>2. /\ r.step = "copy" /\ disk' = disk /\ RowBecomes(j, step, r.at, r.attempt, r.outcome)
        /\ job'[j].backup = [r.backup EXCEPT ![File(j)] = disk[File(j)]] /\ job'[j].seen = r.seen
    BY <1>9, <2>1, CopyFacts
  <2>3. job'[j].step \in {"write", "digest"} /\ job'[j].at = r.at
    BY <2>2 DEF RowBecomes
  <2>4. r.at \in 1..n /\ (File(j) = p <=> i = r.at)
    BY <1>3, <2>2 DEF Copying
  <2>5. i # r.at => job'[j].backup[p] = r.backup[p]
    BY <1>1, <1>2, <2>2, <2>4
  <2>6. i = r.at => job'[j].backup[p] = disk[p]
    BY <1>1, <1>2, <2>2, <2>4
  <2>a. Pending(j, i)' => Pending(j, i) /\ job'[j].backup[p] = r.backup[p] /\ job'[j].seen[p] = r.seen[p]
    BY <1>1, <2>2, <2>3, <2>4, <2>5, <2>6 DEF Pending
  <2>b. Unwritten(j, i)' => disk'[p] = disk[p] /\ Unwritten(j, i)
    BY <1>1, <2>2, <2>3, <2>4, <2>5, <2>6 DEF Unwritten
  <2>c. job'[j].backup[p] = r.backup[p] \/ (job'[j].backup[p] = disk[p] /\ Unwritten(j, i))
    BY <1>1, <2>2, <2>3, <2>4, <2>5, <2>6 DEF Unwritten
  <2>d. StepsOf(j)
    BY <2>2, <2>3, <2>4, <2>5, <2>6 DEF StepsOf
  <2> QED BY <2>a, <2>b, <2>c, <2>d
<1>10. CASE Digest(j)
  <2>1. File(j) \in Paths
    BY <1>10, FileIs DEF Digest, Copying
  <2>2. /\ r.step = "digest" /\ disk' = disk /\ RowBecomes(j, "write", r.at, r.attempt, r.outcome)
        /\ job'[j].seen = [r.seen EXCEPT ![File(j)] = disk[File(j)]] /\ job'[j].backup = r.backup
    BY <1>10, <2>1, DigestFacts DEF Untouched, KeepDisk
  <2>3. job'[j].step = "write" /\ job'[j].at = r.at
    BY <2>2 DEF RowBecomes
  <2>4. r.at \in 1..n /\ (File(j) = p <=> i = r.at)
    BY <1>3, <2>2 DEF Copying
  <2>5. i # r.at => job'[j].seen[p] = r.seen[p]
    BY <1>1, <1>2, <2>2, <2>4
  <2>a. Pending(j, i)' => Pending(j, i) /\ job'[j].backup[p] = r.backup[p] /\ job'[j].seen[p] = r.seen[p]
    BY <1>1, <2>2, <2>3, <2>4, <2>5 DEF Pending
  <2>b. Unwritten(j, i)' => disk'[p] = disk[p] /\ Unwritten(j, i)
    BY <1>1, <2>2, <2>3, <2>4, <2>5 DEF Unwritten
  <2>c. job'[j].backup[p] = r.backup[p] \/ (job'[j].backup[p] = disk[p] /\ Unwritten(j, i))
    BY <1>1, <2>2, <2>3, <2>4, <2>5 DEF Unwritten
  <2>d. StepsOf(j)
    BY <2>2, <2>3, <2>4, <2>5 DEF StepsOf
  <2> QED BY <2>a, <2>b, <2>c, <2>d
<1>11. CASE Write(j)
  <2>1. /\ r.step = "write" /\ disk' = [disk EXCEPT ![File(j)] = Content(j, File(j))]
        /\ RowBecomes(j, "record", r.at, r.attempt, r.outcome) /\ SameCopies(j)
    BY <1>11, StepFacts DEF SameRow
  <2>2. job'[j].step = "record" /\ job'[j].at = r.at
    BY <2>1 DEF RowBecomes
  <2>3. r.at \in 1..n /\ (File(j) = p <=> i = r.at)
    BY <1>3, <2>1 DEF Copying
  <2>4. i # r.at => disk'[p] = disk[p]
    BY <1>1, <1>2, <2>1, <2>3
  <2>a. Pending(j, i)' => Pending(j, i) /\ job'[j].backup[p] = r.backup[p] /\ job'[j].seen[p] = r.seen[p]
    BY <1>1, <2>1, <2>2, <2>3, <2>4 DEF Pending, SameCopies
  <2>b. Unwritten(j, i)' => disk'[p] = disk[p] /\ Unwritten(j, i)
    BY <1>1, <2>1, <2>2, <2>3, <2>4 DEF Unwritten
  <2>c. job'[j].backup[p] = r.backup[p] \/ (job'[j].backup[p] = disk[p] /\ Unwritten(j, i))
    BY <1>1, <2>1, <2>2, <2>3, <2>4 DEF Unwritten, SameCopies
  <2>d. StepsOf(j)
    BY <2>1, <2>2, <2>3, <2>4 DEF StepsOf
  <2> QED BY <2>a, <2>b, <2>c, <2>d
<1>12. CASE Record(j)
  <2>1. File(j) \in Paths
    BY <1>12, FileIs DEF Record, Copying
  <2>2. /\ r.step = "record" /\ disk' = disk
        /\ \/ Thrown(j)
           \/ /\ IF r.at = Len(Bundle(j))
                 THEN RowBecomes(j, "receipt", 1, r.attempt, r.outcome)
                 ELSE RowBecomes(j, "copy", r.at + 1, r.attempt, r.outcome)
              /\ SameCopies(j)
    BY <1>12, <2>1, RecordFacts DEF Untouched, KeepDisk
  <2>3. CASE r.at # n /\ RowBecomes(j, "copy", r.at + 1, r.attempt, r.outcome) /\ SameCopies(j)
    <3>1. job'[j].step = "copy" /\ job'[j].at = r.at + 1
      BY <2>3 DEF RowBecomes
    <3> QED BY <1>1, <2>2, <2>3, <3>1 DEF Pending, Unwritten, StepsOf, SameCopies
  <2>4. CASE r.at = n /\ RowBecomes(j, "receipt", 1, r.attempt, r.outcome) /\ SameCopies(j)
    BY <1>4, <2>4 DEF RowBecomes, Copying
  <2> QED BY <1>5, <2>2, <2>3, <2>4 DEF n
<1>13. CASE WriteReceipt(j)
  BY <1>4, <1>13, StepFacts DEF SameRow, RowBecomes, Copying
<1>14. CASE ReadArtifact(j)
  BY <1>4, <1>5, <1>14, StepFacts DEF SameRow, RowBecomes, Copying
<1>15. CASE \E answer, marker \in BOOLEAN : RunCase(j, answer, marker)
  BY <1>4, <1>15, RunCaseFacts DEF RowBecomes, Copying
<1>16. CASE Judge(j)
  BY <1>4, <1>16, StepFacts DEF SameRow, RowBecomes, Copying
<1>17. CASE CompareFile(j)
  BY <1>4, <1>6, <1>17, RollbackFacts DEF SameRow, RowBecomes, Copying
<1>18. CASE Restore(j)
  <2>1. r.at > 0
    BY <1>18 DEF Restore, InPlace
  <2> QED BY <1>4, <1>6, <1>18, <2>1, RollbackFacts DEF SameRow, RowBecomes, Copying
<1>19. CASE Finish(j)
  BY <1>4, <1>19, StepFacts DEF SameRow, RowBecomes, Copying
<1>20. CASE Break(j)
  BY <1>5, <1>20, StepFacts
<1> QED BY <1>7, <1>8, <1>9, <1>10, <1>11, <1>12, <1>13, <1>14, <1>15, <1>16, <1>17, <1>18, <1>19, <1>20 DEF Work


LEMMA CopiedOnceStep ==
  ASSUME InstallShape, \A k \in Jobs : CopiedOnce(k), NEW j \in Jobs, RowOK(j), InPlace(j), Work(j) \/ Break(j)
  PROVE  \A k \in Jobs : CopiedOnce(k)'
<1>1. plans' = plans /\ \A k \in Jobs \ {j} : job'[k] = job[k]
  BY StepKinds DEF Moved
<1>2. \A k \in Jobs : Bundle(k)' = Bundle(k)
  BY <1>1, PlansStay
<1>3. CopiedOnce(j)'
  <2> SUFFICES ASSUME NEW i \in DOMAIN Bundle(j), Pending(j, i)'
               PROVE  job'[j].backup[Bundle(j)[i]] = "none" /\ job'[j].seen[Bundle(j)[i]] = "none"
    BY <1>2 DEF CopiedOnce
  <2> DEFINE p == Bundle(j)[i]
  <2>1. Pending(j, i) => job[j].backup[p] = "none" /\ job[j].seen[p] = "none"
    BY DEF CopiedOnce
  <2>2. Pending(j, i) /\ job'[j].backup[p] = job[j].backup[p] /\ job'[j].seen[p] = job[j].seen[p]
    BY PendingOwn
  <2> QED BY <2>1, <2>2
<1>4. \A k \in Jobs \ {j} : CopiedOnce(k)'
  BY <1>1, <1>2 DEF CopiedOnce, Pending
<1> QED BY <1>3, <1>4

-----------------------------------------------------------------------------
(* What the check of a native verification found missing.                  *)

LEMMA AllGuarded ==
  ASSUME InstallShape, NEW j \in Jobs, IsNative(j), NEW i \in DOMAIN Bundle(j)
  PROVE  \E m \in 1..Len(Guarded(j)) : Covers(Guarded(j)[m], Bundle(j)[i])
<1>1. CASE Guarded(j) = CodexGuard /\ \A k \in DOMAIN Bundle(j) : Bundle(j)[k] \in CodexPaths
  <2>1. /\ Len(CodexGuard) = 3 /\ CodexGuard[1] = "marketplace.json"
        /\ CodexGuard[2] = "config.toml" /\ CodexGuard[3] = "plugins/skill"
    BY DEF CodexGuard
  <2>2. Bundle(j)[i] \in {"plugins/skill", "plugins/details", "plugin.json", "marketplace.json", "config.toml"}
    BY <1>1 DEF CodexPaths
  <2>3. 1 \in 1..3 /\ 2 \in 1..3 /\ 3 \in 1..3
    OBVIOUS
  <2>4. CASE Bundle(j)[i] = "marketplace.json"
    BY <1>1, <2>1, <2>3, <2>4 DEF Covers
  <2>5. CASE Bundle(j)[i] = "config.toml"
    BY <1>1, <2>1, <2>3, <2>5 DEF Covers
  <2>6. CASE Bundle(j)[i] \in {"plugins/skill", "plugins/details", "plugin.json"}
    <3>1. DirOf(Bundle(j)[i]) = "plugins/skill"
      BY <2>6 DEF DirOf
    <3>2. Covers("plugins/skill", Bundle(j)[i])
      BY <3>1 DEF Covers
    <3> QED BY <1>1, <2>1, <2>3, <3>2
  <2> QED BY <2>2, <2>4, <2>5, <2>6
<1>2. CASE /\ Guarded(j) = <<Skill(j)>> /\ Len(Bundle(j)) = 1
           /\ Skill(j) \in {".claude/skill", ".cursor/skill", ".opencode/skill"}
  <2>1. i = 1 /\ Bundle(j)[i] = Skill(j)
    BY <1>2, BundleIs DEF Skill
  <2>2. Covers(Skill(j), Skill(j))
    BY <1>2 DEF Covers, DirOf
  <2>3. Len(Guarded(j)) = 1 /\ Guarded(j)[1] = Skill(j) /\ 1 \in 1..1
    BY <1>2
  <2> QED BY <2>1, <2>2, <2>3
<1> QED BY <1>1, <1>2, BundleIs

LEMMA MissingIsNone ==
  ASSUME InstallShape, DirsExist, NEW guard, NEW p \in Paths, Covers(guard, p), ~Exists(guard)
  PROVE  disk[p] = "none"
BY DEF Covers, Exists, DirsExist

NoCopies(j) == \A p \in ToSet(Bundle(j)) : job[j].backup[p] = "none"
LEMMA NothingOwn ==
  ASSUME InstallShape, DirsExist, NEW j \in Jobs, RowOK(j), InPlace(j), Work(j) \/ Break(j),
         NothingThere(j), NoCopies(j), IsNative(j), Alone(j), edits = 0
  PROVE  NothingThere(j)' /\ NoCopies(j)'
<1>1. plans' = plans
  BY StepKinds DEF Moved
<1>2. Bundle(j)' = Bundle(j) /\ Guarded(j)' = Guarded(j)
  BY <1>1, PlansStay
<1>3. ASSUME NEW i \in DOMAIN Bundle(j)
      PROVE  /\ job'[j].step = "check" =>
                  \A m \in 1..(job'[j].at - 1) : Covers(Guarded(j)[m], Bundle(j)[i]) => disk'[Bundle(j)[i]] = "none"
             /\ Unwritten(j, i)' => disk'[Bundle(j)[i]] = "none"
             /\ job'[j].backup[Bundle(j)[i]] = "none"
  <2> DEFINE p == Bundle(j)[i]
             g == Len(Guarded(j))
  <2>1. p \in Paths /\ g \in Nat /\ job[j].at \in Nat
    BY BundleIs DEF InstallShape, JobRows
  <2>2. /\ job[j].step = "check" =>
             \A m \in 1..(job[j].at - 1) : Covers(Guarded(j)[m], p) => disk[p] = "none"
        /\ Unwritten(j, i) => disk[p] = "none"
    BY DEF NothingThere
  <2>3. job[j].backup[p] = "none"
    BY DEF NoCopies, ToSet
  <2>4. /\ Unwritten(j, i)' => disk'[p] = disk[p] /\ (Unwritten(j, i) \/ (job[j].step = "check" /\ job'[j].step = "copy"))
        /\ job'[j].backup[p] = job[j].backup[p] \/ (job'[j].backup[p] = disk[p] /\ Unwritten(j, i))
        /\ StepsOf(j)
    BY PendingOwn
  <2>5. PICK q \in 1..g : Covers(Guarded(j)[q], p)
    BY AllGuarded
  <2> HIDE DEF p, g
  <2>6. ASSUME job[j].step = "check", job'[j].step = "copy" PROVE disk[p] = "none"
    <3>1. job[j].at = g + 1
      BY <2>4, <2>6 DEF StepsOf, g
    <3>2. q \in 1..(job[j].at - 1)
      BY <2>1, <3>1
    <3> QED BY <2>2, <2>5, <2>6, <3>2
  <2>7. ASSUME job'[j].step = "check", NEW m \in 1..(job'[j].at - 1), Covers(Guarded(j)[m], p)
        PROVE  disk'[p] = "none"
    <3>1. disk' = disk
      BY <2>4, <2>7 DEF StepsOf
    <3>2. CASE job[j].step = "idle" /\ job'[j].at = 1
      BY <2>7, <3>2
    <3>3. CASE /\ job[j].step = "check" /\ job'[j].at = job[j].at + 1 /\ job[j].at \in 1..Len(Guarded(j))
               /\ ~Exists(Guarded(j)[job[j].at])
      <4>1. m \in 1..(job[j].at - 1) \/ m = job[j].at
        BY <2>1, <2>7, <3>3
      <4>2. CASE m = job[j].at
        BY <2>1, <2>7, <3>1, <3>3, <4>2, MissingIsNone
      <4> QED BY <2>2, <2>7, <3>1, <3>3, <4>1, <4>2
    <3> QED BY <2>4, <2>7, <3>2, <3>3 DEF StepsOf
  <2>8. Unwritten(j, i)' => disk'[p] = "none"
    BY <2>2, <2>4, <2>6
  <2>9. job'[j].backup[p] = "none"
    BY <2>2, <2>3, <2>4
  <2> QED BY <2>7, <2>8, <2>9 DEF p
<1>4. NothingThere(j)'
  BY <1>2, <1>3 DEF NothingThere
<1>5. NoCopies(j)'
  BY <1>2, <1>3 DEF NoCopies, ToSet
<1> QED BY <1>4, <1>5


-----------------------------------------------------------------------------
(* The inductive invariant.                                                *)

\* Two parts follow from the others.
LEMMA PartsFollow ==
  ASSUME InstallShape, NEW j \in Jobs, InPlace(j), AloneInFiles(j)
  PROVE  /\ (job[j].outcome = "receipt" /\ Alone(j)) =>
              \A p \in ToSet(Bundle(j)) \ clashes : disk[p] = mine[p] \/ (mine[p] = "none" /\ edits > 0)
         /\ (job[j].outcome = "receipt" /\ IsNative(j) /\ Passed(j)) => job[j].proofs >= PassMark
<1>1. ASSUME job[j].outcome = "receipt", Alone(j), NEW p \in ToSet(Bundle(j)) \ clashes
      PROVE  disk[p] = mine[p] \/ (mine[p] = "none" /\ edits > 0)
  <2>1. PICK i \in DOMAIN Bundle(j) : p = Bundle(j)[i]
    BY <1>1 DEF ToSet
  <2>2. AloneIn(j, i, p)
    BY <1>1, <2>1 DEF AloneInFiles
  <2> QED BY <1>1, <2>2 DEF AloneIn, AsBefore
<1>2. IsNative(j) /\ Passed(j) => job[j].proofs >= PassMark
  BY DEF InPlace, Passed
<1> QED BY <1>1, <1>2

InstallCore ==
  /\ (\A j \in Jobs : RowOK(j)) /\ clashes \subseteq Paths /\ edits \in 0..MaxEdits /\ breaks \in 0..MaxBreaks
  /\ InstallShape /\ Kept /\ DirsExist
  /\ \A j \in Jobs : InPlace(j) /\ CopiedOnce(j)
  /\ \A j \in Jobs : AloneInFiles(j) /\ NothingThere(j)
  /\ \A j \in Jobs : IsNative(j) /\ Alone(j) /\ edits = 0 => NoCopies(j)

LEMMA CoreIsEnough == InstallCore <=> InstallIInv
<1>1. InstallCore => InstallIInv
  <2> SUFFICES ASSUME InstallCore PROVE InstallIInv
    OBVIOUS
  <2>1. InstallTypeOK
    BY DEF InstallCore, InstallTypeOK, RowOK
  <2>2. InstallShape /\ UserContentIsKept /\ DirsExist
    BY DEF InstallCore, Kept
  <2>3. ReceiptMeansRestored /\ NativePassIsProof
    BY PartsFollow DEF InstallCore, ReceiptMeansRestored, NativePassIsProof
  <2>4. ProbeReplacesNothing
    BY DEF InstallCore, ProbeReplacesNothing, NoCopies
  <2>5. \A j \in Jobs : InPlace(j) /\ CopiedOnce(j) /\ KeptBy(j) /\ AloneInFiles(j) /\ NothingThere(j)
    BY DEF InstallCore, Kept
  <2> QED BY <2>1, <2>2, <2>3, <2>4, <2>5 DEF InstallIInv
<1>2. InstallIInv => InstallCore
  <2> SUFFICES ASSUME InstallIInv PROVE InstallCore
    OBVIOUS
  <2>1. (\A j \in Jobs : RowOK(j)) /\ clashes \subseteq Paths /\ edits \in 0..MaxEdits /\ breaks \in 0..MaxBreaks
    BY DEF InstallIInv, InstallTypeOK, RowOK
  <2>2. InstallShape /\ Kept /\ DirsExist
    BY DEF InstallIInv, Kept
  <2>3. \A j \in Jobs : IsNative(j) /\ Alone(j) /\ edits = 0 => NoCopies(j)
    BY DEF InstallIInv, ProbeReplacesNothing, NoCopies
  <2> QED BY <2>1, <2>2, <2>3 DEF InstallIInv, InstallCore
<1> QED BY <1>1, <1>2

LEMMA InstallStart == InstallInit => InstallCore
<1> SUFFICES ASSUME InstallInit PROVE InstallCore
  OBVIOUS
<1>1. disk \in [Paths -> {"user", "none"}] /\ mine = disk
  BY DEF InstallInit
<1>2. job = [j \in Jobs |-> Idle] /\ clashes = {} /\ edits = 0 /\ breaks = 0 /\ plans \in PlanSets
  BY DEF InstallInit
<1>3. NoFile \in [Paths -> Contents] /\ \A p \in Paths : NoFile[p] = "none"
  BY DEF NoFile, Contents
<1>4. /\ Idle \in JobRows /\ Idle.step = "idle" /\ Idle.at = 1 /\ Idle.backup = NoFile /\ Idle.seen = NoFile
      /\ Idle.installed = NoFile /\ Idle.ops = 0 /\ Idle.left = CaseCount /\ Idle.passed = 0 /\ Idle.proofs = 0
      /\ Idle.attempt = 0 /\ Idle.outcome = "none"
  BY <1>3, InstallAssumption DEF Idle, JobRows
<1>5. InstallShape
  <2>1. job \in [Jobs -> JobRows]
    BY <1>2, <1>4
  <2> QED BY <1>1, <1>2, <2>1 DEF InstallShape, Contents
<1>6. \A j \in Jobs : job[j] = Idle
  BY <1>2
<1>7. \A j \in Jobs : Len(Bundle(j)) \in Nat /\ \A i \in DOMAIN Bundle(j) : Bundle(j)[i] \in Paths
  BY <1>5, BundleIs
<1>8. \A j \in Jobs : RowOK(j)
  BY <1>4, <1>6, <1>7, InstallAssumption DEF RowOK
<1>9. Kept
  BY <1>1, <1>3, <1>4, <1>6 DEF Kept, UserContentIsKept, KeptBy, Writing
<1>10. DirsExist
  <2>1. \A p \in Paths : disk[p] # "none" => DirOf(p) \in dirs
    BY DEF InstallInit
  <2> QED BY <1>3, <1>4, <1>6, <2>1 DEF DirsExist
<1>11. \A j \in Jobs : InPlace(j) /\ CopiedOnce(j)
  BY <1>3, <1>4, <1>6, <1>7 DEF InPlace, CopiedOnce
<1>12. \A j \in Jobs : AloneInFiles(j)
  BY <1>1, <1>4, <1>6 DEF AloneInFiles, AloneIn, Pending
<1>13. \A j \in Jobs : NothingThere(j)
  BY <1>4, <1>6 DEF NothingThere, Unwritten
<1>14. \A j \in Jobs : NoCopies(j)
  BY <1>3, <1>4, <1>6, <1>7 DEF NoCopies, ToSet
<1>15. clashes \subseteq Paths /\ edits \in 0..MaxEdits /\ breaks \in 0..MaxBreaks
  BY <1>2, InstallAssumption
<1> QED BY <1>5, <1>8, <1>9, <1>10, <1>11, <1>12, <1>13, <1>14, <1>15 DEF InstallCore

LEMMA WorkStep ==
  ASSUME InstallCore, NEW j \in Jobs, Work(j) \/ Break(j)
  PROVE  InstallCore'
<1>1. /\ InstallShape /\ Kept /\ DirsExist /\ RowOK(j) /\ InPlace(j)
      /\ \A k \in Jobs : CopiedOnce(k)
  BY DEF InstallCore
<1>2. Moved(j) /\ (Looks(j) \/ Copies(j) \/ Writes(j) \/ Restores(j))
  BY <1>1, StepKinds
<1>3. /\ plans' = plans /\ mine' = mine /\ clashes' = clashes /\ edits' = edits
      /\ job' \in [Jobs -> JobRows] /\ job'[j].step # "idle" /\ \A k \in Jobs \ {j} : job'[k] = job[k]
      /\ breaks' \in {breaks} \cup {breaks + 1} /\ (breaks' # breaks => breaks < MaxBreaks)
  BY <1>2 DEF Moved
<1>4. disk' \in [Paths -> Contents]
  <2>0. disk \in [Paths -> Contents]
    BY <1>1 DEF InstallShape
  <2>1. CASE Looks(j) \/ Copies(j)
    BY <2>0, <2>1 DEF Looks, Copies, KeepDisk
  <2>2. CASE Writes(j)
    BY <1>1, <2>0, <2>2, ContentIsOurs DEF Writes
  <2>3. CASE Restores(j)
    <3>1. Restored(j, File(j)) \in Contents /\ disk' = [disk EXCEPT ![File(j)] = Restored(j, File(j))]
      BY <1>1, <2>3 DEF Restores, Restored, InstallShape, JobRows, Contents
    <3> QED BY <2>0, <3>1
  <2> QED BY <1>2, <2>1, <2>2, <2>3
<1>5. InstallShape'
  BY <1>1, <1>3, <1>4 DEF InstallShape
<1>6. \A k \in Jobs : Bundle(k)' = Bundle(k) /\ Guarded(k)' = Guarded(k) /\ (IsNative(k)' <=> IsNative(k))
                      /\ \A p : Content(k, p)' = Content(k, p)
  BY <1>3, PlansStay
<1>7. RowOK(j)' /\ InPlace(j)'
  BY <1>1, <1>3, PlaceStep
<1>8. \A k \in Jobs : RowOK(k)' /\ InPlace(k)'
  <2>1. ASSUME NEW k \in Jobs \ {j} PROVE RowOK(k)' /\ InPlace(k)'
    <3>1. RowOK(k) /\ InPlace(k) /\ job'[k] = job[k]
      BY <1>3 DEF InstallCore
    <3>2. RowOK(k)'
      BY <1>6, <3>1 DEF RowOK
    <3>3. InPlace(k)'
      BY <1>6, <3>1 DEF InPlace
    <3> QED BY <3>2, <3>3
  <2> QED BY <1>7, <2>1
<1>9. Kept'
  BY <1>1, <1>2, <1>5, KeptStep
<1>10. DirsExist'
  BY <1>1, <1>2, <1>5, DirsStep
<1>11. \A k \in Jobs : CopiedOnce(k)'
  BY <1>1, CopiedOnceStep
<1>12. \A k \in Jobs : Alone(k)' => Alone(k)
  <2>1. \A m \in Jobs : job'[m].step = "idle" => job[m].step = "idle"
    BY <1>3
  <2> QED BY <1>3, <2>1, AloneStays
<1>13. \A k \in Jobs : AloneInFiles(k)'
  <2> SUFFICES ASSUME NEW k \in Jobs, Alone(k)', NEW i \in DOMAIN Bundle(k), Bundle(k)[i] \notin clashes
               PROVE  AloneIn(k, i, Bundle(k)[i])'
    BY <1>3, <1>6 DEF AloneInFiles
  <2>1. Alone(k)
    BY <1>12
  <2>2. PICK p : p = Bundle(k)[i]
    OBVIOUS
  <2>3. AloneIn(k, i, p)
    BY <2>1, <2>2 DEF InstallCore, AloneInFiles
  <2>4. AloneIn(k, i, p)'
    <3>1. CASE k = j
      BY <1>1, <2>2, <2>3, <3>1, AloneOwn
    <3>2. CASE k # j
      <4>1. job'[k] = job[k] /\ disk'[p] = disk[p]
        BY <1>1, <1>2, <2>2, <3>2, OthersAside
      <4> QED BY <1>3, <1>6, <2>3, <4>1 DEF AloneIn, AsInstalled, AsBefore, Pending
    <3> QED BY <3>1, <3>2
  <2>5. p = Bundle(k)'[i]
    BY <1>6, <2>2
  <2> QED BY <2>4, <2>5 DEF AloneIn, AsInstalled, AsBefore, Pending
<1>14. ASSUME NEW k \in Jobs, IsNative(k)', Alone(k)', edits' = 0
       PROVE  NothingThere(k)' /\ NoCopies(k)'
  <2>1. IsNative(k) /\ Alone(k) /\ edits = 0
    BY <1>3, <1>6, <1>12, <1>14
  <2>2. NothingThere(k) /\ NoCopies(k)
    BY <2>1 DEF InstallCore
  <2>3. CASE k = j
    BY <1>1, <2>1, <2>2, <2>3, NothingOwn
  <2>4. CASE k # j
    <3>1. job'[k] = job[k] /\ \A i \in DOMAIN Bundle(k) : disk'[Bundle(k)[i]] = disk[Bundle(k)[i]]
      BY <1>1, <1>2, <1>14, <2>4, OthersAside
    <3>2. NothingThere(k)'
      BY <1>6, <2>1, <2>2, <3>1 DEF NothingThere, Unwritten
    <3>3. NoCopies(k)'
      BY <1>6, <2>2, <3>1 DEF NoCopies
    <3> QED BY <3>2, <3>3
  <2> QED BY <2>3, <2>4
<1>15. \A k \in Jobs : NothingThere(k)'
  <2> SUFFICES ASSUME NEW k \in Jobs PROVE NothingThere(k)'
    OBVIOUS
  <2>1. CASE IsNative(k)' /\ Alone(k)' /\ edits' = 0
    BY <1>14, <2>1
  <2>2. CASE ~(IsNative(k)' /\ Alone(k)' /\ edits' = 0)
    BY <2>2 DEF NothingThere
  <2> QED BY <2>1, <2>2
<1>16. clashes' \subseteq Paths /\ edits' \in 0..MaxEdits /\ breaks' \in 0..MaxBreaks
  BY <1>3, InstallAssumption DEF InstallCore
<1> QED BY <1>5, <1>8, <1>9, <1>10, <1>11, <1>13, <1>14, <1>15, <1>16 DEF InstallCore

LEMMA EditStep ==
  ASSUME InstallCore, NEW f \in Concerned, NEW content \in {"edit", "none"}, Edit(f, content)
  PROVE  InstallCore'
<1>1. InstallShape /\ Kept /\ DirsExist
  BY DEF InstallCore
<1>2. f \in Paths
  <2>1. PICK k \in Jobs : f \in ToSet(Bundle(k))
    BY DEF Concerned
  <2>2. PICK i \in DOMAIN Bundle(k) : f = Bundle(k)[i]
    BY <2>1 DEF ToSet
  <2> QED BY <1>1, <2>2, BundleIs
<1>3. /\ plans' = plans /\ job' = job /\ breaks' = breaks /\ edits < MaxEdits /\ edits' = edits + 1
      /\ disk' = [disk EXCEPT ![f] = content] /\ mine' = [mine EXCEPT ![f] = content]
      /\ dirs' = dirs \cup {DirOf(f)}
      /\ clashes' = IF \E k \in Jobs : Writing(k, f) THEN clashes \cup {f} ELSE clashes
  BY DEF Edit
<1>4. disk \in [Paths -> Contents] /\ mine \in [Paths -> {"user", "edit", "none"}] /\ content \in Contents
  BY <1>1 DEF InstallShape, Contents
<1>5. /\ disk'[f] = content /\ mine'[f] = content
      /\ \A p \in Paths \ {f} : disk'[p] = disk[p] /\ mine'[p] = mine[p]
  BY <1>2, <1>3, <1>4
<1>6. edits \in Nat /\ edits' > 0 /\ edits' \in 0..MaxEdits
  BY <1>3, InstallAssumption DEF InstallCore
<1>7. InstallShape'
  <2>1. disk' \in [Paths -> Contents] /\ mine' \in [Paths -> {"user", "edit", "none"}]
    BY <1>2, <1>3, <1>4
  <2> QED BY <1>1, <1>3, <2>1 DEF InstallShape
<1>8. \A k \in Jobs : Bundle(k)' = Bundle(k) /\ Guarded(k)' = Guarded(k) /\ (IsNative(k)' <=> IsNative(k))
                      /\ \A p : Content(k, p)' = Content(k, p)
  BY <1>3, PlansStay
<1>9. clashes \subseteq clashes' /\ clashes' \subseteq Paths
      /\ \A p \in Paths \ clashes' : p = f => \A k \in Jobs : ~Writing(k, p)
  BY <1>2, <1>3 DEF InstallCore
<1>10. \A k \in Jobs : RowOK(k)' /\ InPlace(k)' /\ CopiedOnce(k)'
  <2> SUFFICES ASSUME NEW k \in Jobs PROVE RowOK(k)' /\ InPlace(k)' /\ CopiedOnce(k)'
    OBVIOUS
  <2>1. RowOK(k) /\ InPlace(k) /\ CopiedOnce(k)
    BY DEF InstallCore
  <2>2. RowOK(k)'
    BY <1>3, <1>8, <2>1 DEF RowOK
  <2>3. InPlace(k)'
    BY <1>3, <1>8, <2>1 DEF InPlace
  <2>4. CopiedOnce(k)'
    BY <1>3, <1>8, <2>1 DEF CopiedOnce, Pending
  <2> QED BY <2>2, <2>3, <2>4
<1>11. \A p, c : Saved(p, c) <=> SavedNext(p, c)
  BY <1>3 DEF Saved, SavedNext
<1>12. Kept'
  <2>1. UserContentIsKept'
    <3> SUFFICES ASSUME NEW p \in Paths \ clashes'
                 PROVE  mine'[p] \in {disk'[p], "none"} \/ SavedNext(p, mine'[p])
      BY DEF UserContentIsKept, SavedNext
    <3>1. CASE p = f
      BY <1>5, <3>1
    <3>2. CASE p # f
      <4>1. mine[p] \in {disk[p], "none"} \/ Saved(p, mine[p])
        BY <1>1, <1>9 DEF Kept, UserContentIsKept, Saved
      <4> QED BY <1>5, <1>11, <3>2, <4>1
    <3> QED BY <3>1, <3>2
  <2>2. ASSUME NEW k \in Jobs PROVE KeptBy(k)'
    <3>1. \A p : Writing(k, p)' <=> Writing(k, p)
      BY <1>3, <1>8 DEF Writing, File
    <3> SUFFICES ASSUME NEW p \in Paths \ clashes'
                 PROVE  /\ Writing(k, p) => mine'[p] = "none" \/ SavedNext(p, mine'[p])
                        /\ Writing(k, p) /\ job[k].step = "record" /\ disk'[p] \in Ours => SavedNext(p, disk'[p])
                        /\ job[k].installed[p] \in Ours => SavedNext(p, job[k].installed[p])
      BY <1>3, <3>1 DEF KeptBy, Ours, Saved, SavedNext
    <3>2. /\ Writing(k, p) => mine[p] = "none" \/ Saved(p, mine[p])
          /\ Writing(k, p) /\ job[k].step = "record" /\ disk[p] \in Ours => Saved(p, disk[p])
          /\ job[k].installed[p] \in Ours => Saved(p, job[k].installed[p])
      BY <1>1, <1>9 DEF Kept, KeptBy, Ours
    <3>3. CASE p = f
      BY <1>9, <1>11, <3>2, <3>3
    <3>4. CASE p # f
      BY <1>5, <1>11, <3>2, <3>4
    <3> QED BY <3>3, <3>4
  <2> QED BY <2>1, <2>2 DEF Kept
<1>13. DirsExist'
  <2>1. \A p \in Paths : disk'[p] # "none" => DirOf(p) \in dirs'
    BY <1>1, <1>3, <1>5 DEF DirsExist
  <2>2. \A k \in Jobs : File(k)' = File(k)
    BY <1>3, <1>8 DEF File
  <2> QED BY <1>1, <1>3, <2>1, <2>2 DEF DirsExist
<1>14. \A k \in Jobs : Alone(k)' => Alone(k)
  BY <1>3, AloneStays
<1>15. \A k \in Jobs : AloneInFiles(k)'
  <2> SUFFICES ASSUME NEW k \in Jobs, Alone(k)', NEW i \in DOMAIN Bundle(k), Bundle(k)[i] \notin clashes'
               PROVE  AloneIn(k, i, Bundle(k)[i])'
    BY <1>8 DEF AloneInFiles
  <2>1. PICK p : p = Bundle(k)[i]
    OBVIOUS
  <2>2. AloneIn(k, i, p) /\ p \in Paths
    BY <1>1, <1>9, <1>14, <2>1, BundleIs DEF InstallCore, AloneInFiles
  <2>3. AloneIn(k, i, p)'
    <3>1. CASE p = f
      <4>1. ~Writing(k, p)
        BY <1>9, <2>1, <2>2, <3>1
      <4>2. i = job[k].at => job[k].step \notin {"digest", "write", "record", "restore"}
        BY <2>1, <4>1 DEF Writing, File
      <4>3. disk'[p] = mine'[p]
        BY <1>5, <3>1
      <4>4. AsInstalled(k, p) => AsInstalled(k, p)'
        BY <1>3, <1>6, <1>8, <4>3 DEF AsInstalled
      <4>5. AsBefore(p)'
        BY <4>3 DEF AsBefore
      <4> QED BY <1>3, <2>2, <4>2, <4>3, <4>4, <4>5 DEF AloneIn, Pending
    <3>2. CASE p # f
      <4>1. disk'[p] = disk[p] /\ mine'[p] = mine[p]
        BY <1>5, <2>2, <3>2
      <4>2. AsInstalled(k, p) => AsInstalled(k, p)'
        BY <1>3, <1>6, <1>8, <4>1 DEF AsInstalled
      <4>3. AsBefore(p) => AsBefore(p)'
        BY <1>6, <4>1 DEF AsBefore
      <4> QED BY <1>3, <1>8, <2>2, <4>1, <4>2, <4>3 DEF AloneIn, Pending
    <3> QED BY <3>1, <3>2
  <2>4. p = Bundle(k)'[i]
    BY <1>8, <2>1
  <2> QED BY <2>3, <2>4 DEF AloneIn, AsInstalled, AsBefore, Pending
<1>16. edits' # 0
  BY <1>6
<1>17. \A k \in Jobs : NothingThere(k)' /\ (IsNative(k)' /\ Alone(k)' /\ edits' = 0 => NoCopies(k)')
  BY <1>16 DEF NothingThere
<1>18. breaks' \in 0..MaxBreaks
  BY <1>3 DEF InstallCore
<1> QED BY <1>6, <1>7, <1>9, <1>10, <1>12, <1>13, <1>15, <1>17, <1>18 DEF InstallCore

LEMMA DieStep ==
  ASSUME InstallCore, Die
  PROVE  InstallCore'
<1>1. InstallShape /\ Kept /\ DirsExist /\ job \in [Jobs -> JobRows]
  BY DEF InstallCore, InstallShape
<1>2. /\ plans' = plans /\ disk' = disk /\ dirs' = dirs /\ mine' = mine /\ clashes' = clashes /\ edits' = edits
      /\ breaks < MaxBreaks /\ breaks' = breaks + 1
  BY DEF Die
<1>0. job' = [j \in Jobs |-> IF job[j].step \in {"idle", "done"} THEN job[j]
                         ELSE [job[j] EXCEPT !.step = "done", !.outcome = "died"]]
  BY DEF Die
<1>3. ASSUME NEW k \in Jobs
      PROVE  /\ job'[k] \in JobRows
             /\ \/ job'[k] = job[k]
                \/ /\ job'[k].step = "done" /\ job'[k].outcome = "died" /\ job[k].step \notin {"idle", "done"}
                   /\ job'[k].at = job[k].at /\ job'[k].attempt = job[k].attempt
                   /\ job'[k].backup = job[k].backup /\ job'[k].seen = job[k].seen
                   /\ job'[k].installed = job[k].installed /\ job'[k].ops = job[k].ops /\ job'[k].left = job[k].left
                   /\ job'[k].passed = job[k].passed /\ job'[k].proofs = job[k].proofs
  <2>1. job[k] \in JobRows
    BY <1>1
  <2>2. CASE job[k].step \in {"idle", "done"}
    BY <1>0, <2>1, <2>2
  <2>3. CASE job[k].step \notin {"idle", "done"}
    <3>1. job'[k] = [job[k] EXCEPT !.step = "done", !.outcome = "died"]
      BY <1>0, <2>3
    <3> QED BY <2>1, <2>3, <3>1 DEF JobRows
  <2> QED BY <2>2, <2>3
<1>4. InstallShape'
  <2>1. job' \in [Jobs -> JobRows]
    BY <1>0, <1>3
  <2> QED BY <1>1, <1>2, <2>1 DEF InstallShape
<1>5. \A k \in Jobs : Bundle(k)' = Bundle(k) /\ Guarded(k)' = Guarded(k) /\ (IsNative(k)' <=> IsNative(k))
                      /\ \A p : Content(k, p)' = Content(k, p)
  BY <1>2, PlansStay
<1>6. ASSUME NEW k \in Jobs PROVE RowOK(k)' /\ InPlace(k)' /\ CopiedOnce(k)'
  <2>1. RowOK(k) /\ InPlace(k) /\ CopiedOnce(k)
    BY DEF InstallCore
  <2>2. RowOK(k)'
    BY <1>3, <1>5, <2>1 DEF RowOK
  <2>3. InPlace(k)'
    BY <1>3, <1>5, <2>1 DEF InPlace
  <2>4. CopiedOnce(k)'
    BY <1>3, <1>5, <2>1 DEF CopiedOnce, Pending
  <2> QED BY <2>2, <2>3, <2>4
<1>7. \A p, c : Saved(p, c) <=> SavedNext(p, c)
  BY <1>3 DEF Saved, SavedNext
<1>8. Kept'
  <2>1. UserContentIsKept'
    <3> SUFFICES ASSUME NEW p \in Paths \ clashes
                 PROVE  mine[p] \in {disk[p], "none"} \/ SavedNext(p, mine[p])
      BY <1>2 DEF UserContentIsKept, SavedNext
    <3>1. mine[p] \in {disk[p], "none"} \/ Saved(p, mine[p])
      BY <1>1 DEF Kept, UserContentIsKept, Saved
    <3> QED BY <1>7, <3>1
  <2>2. ASSUME NEW k \in Jobs PROVE KeptBy(k)'
    <3> SUFFICES ASSUME NEW p \in Paths \ clashes
                 PROVE  /\ Writing(k, p)' => mine[p] = "none" \/ SavedNext(p, mine[p])
                        /\ Writing(k, p)' /\ job'[k].step = "record" /\ disk[p] \in Ours => SavedNext(p, disk[p])
                        /\ job'[k].installed[p] \in Ours => SavedNext(p, job'[k].installed[p])
      BY <1>2 DEF KeptBy, Ours, Saved, SavedNext
    <3>1. /\ Writing(k, p) => mine[p] = "none" \/ Saved(p, mine[p])
          /\ Writing(k, p) /\ job[k].step = "record" /\ disk[p] \in Ours => Saved(p, disk[p])
          /\ job[k].installed[p] \in Ours => Saved(p, job[k].installed[p])
      BY <1>1 DEF Kept, KeptBy, Ours
    <3>2. Writing(k, p)' => Writing(k, p) /\ job'[k] = job[k]
      BY <1>3, <1>5 DEF Writing, File
    <3>3. job'[k].installed = job[k].installed
      BY <1>3
    <3> QED BY <1>7, <3>1, <3>2, <3>3
  <2> QED BY <2>1, <2>2 DEF Kept
<1>9. DirsExist'
  <2>1. ASSUME NEW k \in Jobs
        PROVE  /\ \A p \in Paths : job'[k].backup[p] # "none" => DirOf(p) \in dirs
               /\ job'[k].step \in {"digest", "write"} => DirOf(File(k)') \in dirs
    <3>1. job'[k].backup = job[k].backup
      BY <1>3
    <3>2. job'[k].step \in {"digest", "write"} => job'[k] = job[k] /\ File(k)' = File(k)
      BY <1>3, <1>5 DEF File
    <3> QED BY <1>1, <3>1, <3>2 DEF DirsExist
  <2> QED BY <1>1, <1>2, <2>1 DEF DirsExist
<1>10. \A k \in Jobs : Alone(k)' => Alone(k)
  <2>1. \A m \in Jobs : job'[m].step = "idle" => job[m].step = "idle"
    BY <1>3
  <2> QED BY <1>2, <2>1, AloneStays
<1>11. \A k \in Jobs : AloneInFiles(k)'
  <2> SUFFICES ASSUME NEW k \in Jobs, Alone(k)', NEW i \in DOMAIN Bundle(k), Bundle(k)[i] \notin clashes
               PROVE  AloneIn(k, i, Bundle(k)[i])'
    BY <1>2, <1>5 DEF AloneInFiles
  <2>1. PICK p : p = Bundle(k)[i]
    OBVIOUS
  <2>2. AloneIn(k, i, p)
    BY <1>10, <2>1 DEF InstallCore, AloneInFiles
  <2>3. AloneIn(k, i, p)'
    <3>1. CASE job'[k] = job[k]
      BY <1>2, <1>5, <2>2, <3>1 DEF AloneIn, AsInstalled, AsBefore, Pending
    <3>2. CASE job'[k] # job[k]
      BY <1>3, <3>2 DEF AloneIn, Pending
    <3> QED BY <3>1, <3>2
  <2>4. p = Bundle(k)'[i]
    BY <1>5, <2>1
  <2> QED BY <2>3, <2>4 DEF AloneIn, AsInstalled, AsBefore, Pending
<1>12. ASSUME NEW k \in Jobs PROVE NothingThere(k)' /\ (IsNative(k)' /\ Alone(k)' /\ edits' = 0 => NoCopies(k)')
  <2>1. NothingThere(k) /\ (IsNative(k) /\ Alone(k) /\ edits = 0 => NoCopies(k))
    BY DEF InstallCore
  <2>2. NothingThere(k)'
    <3>1. CASE job'[k] = job[k]
      BY <1>2, <1>5, <1>10, <2>1, <3>1 DEF NothingThere, Unwritten
    <3>2. CASE job'[k] # job[k]
      BY <1>3, <3>2 DEF NothingThere, Unwritten
    <3> QED BY <3>1, <3>2
  <2>3. job'[k].backup = job[k].backup
    BY <1>3
  <2> QED BY <1>2, <1>5, <1>10, <2>1, <2>2, <2>3 DEF NoCopies
<1>13. clashes' \subseteq Paths /\ edits' \in 0..MaxEdits /\ breaks' \in 0..MaxBreaks
  BY <1>2, InstallAssumption DEF InstallCore
<1> QED BY <1>4, <1>6, <1>8, <1>9, <1>11, <1>12, <1>13 DEF InstallCore

LEMMA InstallStep ==
  ASSUME InstallCore, [InstallNext]_installVars
  PROVE  InstallCore'
<1>1. CASE \E j \in Jobs : Work(j) \/ Break(j)
  BY <1>1, WorkStep
<1>2. CASE \E p \in Concerned, content \in {"edit", "none"} : Edit(p, content)
  BY <1>2, EditStep
<1>3. CASE Die
  BY <1>3, DieStep
<1>4. CASE UNCHANGED installVars
  <2>1. /\ plans' = plans /\ disk' = disk /\ dirs' = dirs /\ mine' = mine /\ job' = job
        /\ clashes' = clashes /\ edits' = edits /\ breaks' = breaks
    BY <1>4 DEF installVars
  <2>2. \A k \in Jobs : Bundle(k)' = Bundle(k) /\ Guarded(k)' = Guarded(k) /\ (IsNative(k)' <=> IsNative(k))
                        /\ \A p : Content(k, p)' = Content(k, p)
    BY <2>1, PlansStay
  <2>3. (\A k \in Jobs : RowOK(k)') /\ clashes' \subseteq Paths /\ edits' \in 0..MaxEdits /\ breaks' \in 0..MaxBreaks
    BY <2>1, <2>2 DEF InstallCore, RowOK
  <2>4. InstallShape' /\ DirsExist'
    BY <2>1, <2>2 DEF InstallCore, InstallShape, DirsExist, File
  <2>5. Kept'
    BY <2>1, <2>2 DEF InstallCore, Kept, UserContentIsKept, KeptBy, Saved, Writing, File
  <2>6. \A k \in Jobs : InPlace(k)' /\ CopiedOnce(k)'
    BY <2>1, <2>2 DEF InstallCore, InPlace, CopiedOnce, Pending
  <2>7. \A k \in Jobs : Alone(k)' <=> Alone(k)
    BY <2>1, <2>2 DEF Alone
  <2>8. \A k \in Jobs : AloneInFiles(k)'
    BY <2>1, <2>2, <2>7 DEF InstallCore, AloneInFiles, AloneIn, AsInstalled, AsBefore, Pending
  <2>9. \A k \in Jobs : NothingThere(k)' /\ (IsNative(k)' /\ Alone(k)' /\ edits' = 0 => NoCopies(k)')
    BY <2>1, <2>2, <2>7 DEF InstallCore, NothingThere, Unwritten, NoCopies
  <2> QED BY <2>3, <2>4, <2>5, <2>6, <2>8, <2>9 DEF InstallCore
<1> QED BY <1>1, <1>2, <1>3, <1>4 DEF InstallNext


-----------------------------------------------------------------------------
(* The theorems.                                                           *)

\* Whatever the verifications, the user's editor and failing accesses do, and
\* in whatever order: every verification is where its row says, the copies
\* are made once and kept, and the files of one that is alone in them are as
\* the user has them or as it installed them.
THEOREM InstallInvariance == InstallSpec => []InstallIInv
<1>1. InstallInit => InstallCore
  BY InstallStart
<1>2. InstallCore /\ [InstallNext]_installVars => InstallCore'
  BY InstallStep
<1>3. InstallCore => InstallIInv
  BY CoreIsEnough
<1> QED BY <1>1, <1>2, <1>3, PTL DEF InstallSpec

\* What the user last wrote into a file is on the disk or in a backup, unless
\* the edit fell into the middle of a replacement (applyInstallPlan,
\* rollbackInstall).
THEOREM TheUserLosesNothing == InstallSpec => []UserContentIsKept
<1>1. InstallIInv => UserContentIsKept
  BY DEF InstallIInv
<1> QED BY <1>1, InstallInvariance, PTL

\* A receipt for a rolled back installation means the files of the bundle
\* are as the user has them (the adapters' verify after rollbackInstall).
THEOREM ReceiptsMeanRestored == InstallSpec => []ReceiptMeansRestored
<1>1. InstallIInv => ReceiptMeansRestored
  BY DEF InstallIInv
<1> QED BY <1>1, InstallInvariance, PTL

\* A native verification that passes has proofs of discovery enough, and its
\* files replace none (assertCleanVerificationWorkspace).
THEOREM NativeProofs == InstallSpec => [](NativePassIsProof /\ ProbeReplacesNothing)
<1>1. InstallIInv => NativePassIsProof /\ ProbeReplacesNothing
  BY DEF InstallIInv
<1> QED BY <1>1, InstallInvariance, PTL

\* No rollback takes an edit away that is not in a backup (rollbackInstall).
LEMMA SparesStep ==
  ASSUME InstallIInv, [InstallNext]_installVars, NEW p \in Paths \ clashes,
         disk[p] = "edit", disk'[p] # "edit", mine'[p] = "edit"
  PROVE  \E j \in Jobs :
           \/ job[j].backup[p] = "edit"
           \/ job[j].step = "write" /\ job'[j].step = "record" /\ File(j) = p
<1>1. InstallCore
  BY CoreIsEnough
<1>2. InstallShape /\ Kept /\ disk \in [Paths -> Contents]
  BY <1>1 DEF InstallCore, InstallShape
<1>3. CASE \E j \in Jobs : Work(j) \/ Break(j)
  <2>1. PICK j \in Jobs : Work(j) \/ Break(j)
    BY <1>3
  <2>2. Moved(j) /\ (Looks(j) \/ Copies(j) \/ Writes(j) \/ Restores(j))
    BY <1>1, <2>1, StepKinds DEF InstallCore
  <2>3. mine[p] = "edit"
    BY <2>2 DEF Moved
  <2>4. CASE Looks(j) \/ Copies(j)
    BY <2>4 DEF Looks, Copies, KeepDisk
  <2>5. CASE Writes(j)
    <3>1. File(j) = p
      BY <1>2, <2>5 DEF Writes
    <3> QED BY <2>5, <3>1 DEF Writes
  <2>6. CASE Restores(j)
    <3>1. File(j) = p
      BY <1>2, <2>6 DEF Restores
    <3>2. Writing(j, p)
      BY <2>6, <3>1 DEF Restores, Writing
    <3>3. Saved(p, "edit")
      BY <1>2, <2>3, <3>2 DEF Kept, KeptBy
    <3> QED BY <3>3 DEF Saved
  <2> QED BY <2>2, <2>4, <2>5, <2>6
<1>4. CASE \E f \in Concerned, content \in {"edit", "none"} : Edit(f, content)
  <2>1. PICK f \in Concerned, content \in {"edit", "none"} : Edit(f, content)
    BY <1>4
  <2>2. disk' = [disk EXCEPT ![f] = content] /\ mine' = [mine EXCEPT ![f] = content]
    BY <2>1 DEF Edit
  <2>3. p = f /\ disk'[p] = content
    BY <1>2, <2>2
  <2>4. mine'[p] = content
    BY <1>2, <2>2, <2>3 DEF InstallShape
  <2> QED BY <2>3, <2>4
<1>5. CASE Die
  BY <1>5 DEF Die
<1>6. CASE UNCHANGED installVars
  BY <1>6 DEF installVars
<1> QED BY <1>3, <1>4, <1>5, <1>6 DEF InstallNext

\* A file edited after it was installed survives the rollback, the second
\* attempt included.
THEOREM RollbacksSpareEdits == InstallSpec => RollbackSparesEdits
<1>1. InstallIInv /\ [InstallNext]_installVars =>
        [\A p \in Paths \ clashes : (disk[p] = "edit" /\ disk'[p] # "edit" /\ mine'[p] = "edit") =>
           \E j \in Jobs :
             \/ job[j].backup[p] = "edit"
             \/ job[j].step = "write" /\ job'[j].step = "record" /\ File(j) = p]_installVars
  BY SparesStep
<1> QED BY <1>1, InstallInvariance, PTL DEF InstallSpec, RollbackSparesEdits

=============================================================================
