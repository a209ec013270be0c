----------------------- MODULE MCDaemonCommandRouter -----------------------
(* Small instances of DaemonCommandRouter for TLC: one machine, two        *)
(* processes, and three scenarios in one run.                              *)
EXTENDS DaemonCommandRouter

CONSTANTS c1, c2, m1, a, b

TwoCommands  == {c1, c2}
OneMachine   == {m1}
TwoProcesses == {a, b}
AllToOne     == [c \in Commands |-> m1]

\* "upgrade": one command and a process of the previous version, no fault;
\* "fault": one command, processes of one version, a fault;
\* "order": two commands, processes of one version, no fault.
VARIABLE scenario

MCInit == Init /\ scenario \in {"upgrade", "fault", "order"}

MCNext ==
  /\ Next
  /\ UNCHANGED scenario
  /\ scenario # "order" => row'[c2].status = "absent"
  /\ scenario # "fault" => faultsLeft' = Faults
  /\ scenario # "upgrade" => \A c \in Commands : row'[c].owner # OldProcess

MCSpec == MCInit /\ [][MCNext]_<<vars, scenario>> /\ Fairness

\* EveryCommandIsClosed where no process of the previous version can take the
\* command again whenever its lease has lapsed.
CommandsAreClosed == scenario # "upgrade" => EveryCommandIsClosed
=============================================================================
