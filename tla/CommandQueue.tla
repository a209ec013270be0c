---------------------------- MODULE CommandQueue ----------------------------
(***************************************************************************)
(* What the control plane promises about a daemon command, whoever carries *)
(* it: it is settled once, only after a daemon has been handed it, and a   *)
(* failure is written to the session or run it belongs to before anybody   *)
(* treats that failure as dealt with.  DaemonCommandRouter implements it.  *)
(***************************************************************************)
EXTENDS Naturals

CONSTANTS Commands

VARIABLES
  submitted,   \* commands committed to the queue
  handed,      \* commands a daemon has received at least once
  outcome,     \* "open", "acked" or "failed"
  recorded,    \* failures written to the resource of the command
  reconciled   \* failures nobody will look at again

vars == <<submitted, handed, outcome, recorded, reconciled>>

Init ==
  /\ submitted = {}
  /\ handed = {}
  /\ outcome = [c \in Commands |-> "open"]
  /\ recorded = {}
  /\ reconciled = {}

Submit(c) ==
  /\ submitted' = submitted \cup {c}
  /\ UNCHANGED <<handed, outcome, recorded, reconciled>>

\* At least once: a command may be handed over again and again, even after
\* it was settled.
Hand(c) ==
  /\ c \in submitted
  /\ handed' = handed \cup {c}
  /\ UNCHANGED <<submitted, outcome, recorded, reconciled>>

Settle(c, verdict) ==
  /\ c \in handed
  /\ outcome[c] = "open"
  /\ outcome' = [outcome EXCEPT ![c] = verdict]
  /\ UNCHANGED <<submitted, handed, recorded, reconciled>>

Record(c) ==
  /\ outcome[c] = "failed"
  /\ recorded' = recorded \cup {c}
  /\ UNCHANGED <<submitted, handed, outcome, reconciled>>

Reconcile(c) ==
  /\ c \in recorded
  /\ reconciled' = reconciled \cup {c}
  /\ UNCHANGED <<submitted, handed, outcome, recorded>>

Next ==
  \E c \in Commands :
    \/ Submit(c)
    \/ Hand(c)
    \/ \E verdict \in {"acked", "failed"} : Settle(c, verdict)
    \/ Record(c)
    \/ Reconcile(c)

Spec == Init /\ [][Next]_vars
=============================================================================
