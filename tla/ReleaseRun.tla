----------------------------- MODULE ReleaseRun -----------------------------
(***************************************************************************)
(* What one may rely on of a release run, without its steps: it works, it  *)
(* gives one verdict and returns, or it throws, or the daemon dies; the    *)
(* file says which.  ShippingSupervisor implements it, and ShippingRuns    *)
(* builds the control plane around it.                                     *)
(***************************************************************************)
EXTENDS Integers

CONSTANT Shas      \* shas a worktree can have; 0 is none
ASSUME ShasAssumption == Shas \subseteq Nat \ {0}

VARIABLES
  phase,           \* "idle", "working", "shipped", "returned", "thrown", "closing"
  file,            \* the run on disk
  shipped          \* history: shas a run was SHIPPED with

release == <<phase, file, shipped>>

Absent == [state |-> "ABSENT", tested |-> 0, receipt |-> FALSE]

Init == phase = "idle" /\ file = Absent /\ shipped = {}

Begin ==
  /\ phase = "idle" /\ phase' = "working"
  /\ file' = [Absent EXCEPT !.state = "WORKING"]
  /\ UNCHANGED shipped

Work ==
  /\ phase = "working"
  /\ \E sha \in Shas \cup {file.tested} : file' = [file EXCEPT !.tested = sha]
  /\ UNCHANGED <<phase, shipped>>

\* FAILED, or BLOCKED.
Fail ==
  /\ phase = "working" /\ phase' = "returned"
  /\ file' = [file EXCEPT !.state = "FAILED"]
  /\ UNCHANGED shipped

Ship ==
  /\ phase = "working" /\ file.tested # 0
  /\ phase' = "shipped"
  /\ file' = [file EXCEPT !.state = "SHIPPED"]
  /\ shipped' = shipped \cup {file.tested}

WriteReceipt ==
  /\ phase = "shipped"
  /\ file' = [file EXCEPT !.receipt = TRUE]
  /\ UNCHANGED <<phase, shipped>>

Return ==
  /\ phase = "shipped" /\ file.receipt
  /\ phase' = "returned"
  /\ UNCHANGED <<file, shipped>>

Throw ==
  /\ phase \in {"working", "shipped"}
  /\ phase' = "thrown"
  /\ UNCHANGED <<file, shipped>>

Outcomes == {"returned", "thrown"}

\* runShipping takes up the outcome, and is done.
Settle == phase \in Outcomes /\ phase' = "closing" /\ UNCHANGED <<file, shipped>>
End == phase = "closing" /\ phase' = "idle" /\ UNCHANGED <<file, shipped>>

Die == phase' = "idle" /\ UNCHANGED <<file, shipped>>

\* A run that was cut off is marked on disk, if anybody asks.
Reconcile ==
  /\ phase = "idle" /\ file.state = "WORKING"
  /\ file' = [file EXCEPT !.state = "INTERRUPTED"]
  /\ UNCHANGED <<phase, shipped>>

Works == Work \/ Fail \/ Ship \/ WriteReceipt \/ Return \/ Throw
Next == Begin \/ Works \/ Settle \/ End \/ Die \/ Reconcile

Spec == Init /\ [][Next]_release
=============================================================================
