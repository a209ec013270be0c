----------------------------- MODULE MCWorkItems -----------------------------
(* A small instance of WorkItems for TLC. *)
EXTENDS WorkItems

CONSTANTS x, y, k1, k2, p, q

TwoItems == {x, y}
TwoCommands == {k1, k2}
TwoSlots == {p, q}

Create(i) == [op |-> "create", item |-> i, expected |-> 0, to |-> "backlog"]
Move(i, v, s) == [op |-> "transition", item |-> i, expected |-> v, to |-> s]

\* Two items; of one, two moves that follow each other and an illegal one.
TwoLives == {Create(x), Create(y), Move(x, 1, "ready"), Move(x, 2, "running"),
             Move(x, 1, "running")}

\* Only the second command is ever used for the other item.
SecondForOther ==
  \A s \in Slots : request'[s] # None /\ request'[s].ask.item = y => request'[s].command = k2
=============================================================================
