--------------------------- MODULE WorkItemJournal ---------------------------
(***************************************************************************)
(* What a work item promises: a journal of entries, one for each change.   *)
(* It begins in backlog, each entry is a legal transition from the one     *)
(* before, and a command makes at most one entry in all the journals.      *)
(* WorkItems implements it.                                                *)
(***************************************************************************)
EXTENDS Naturals, Sequences

CONSTANTS
  Items,        \* work item ids
  Commands,     \* command ids
  Transitions   \* the statuses that may follow each status

VARIABLE journal   \* a sequence of entries [command, to] for each item

Init == journal = [i \in Items |-> <<>>]

Used(c) == \E i \in Items : \E k \in DOMAIN journal[i] : journal[i][k].command = c

Enter(i, c, to) ==
  /\ ~ Used(c)
  /\ IF journal[i] = <<>> THEN to = "backlog"
     ELSE to \in Transitions[journal[i][Len(journal[i])].to]
  /\ journal' = [journal EXCEPT ![i] = Append(@, [command |-> c, to |-> to])]

Next == \E i \in Items, c \in Commands, to \in DOMAIN Transitions : Enter(i, c, to)

Spec == Init /\ [][Next]_journal
=============================================================================
