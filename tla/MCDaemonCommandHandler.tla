---------------------- MODULE MCDaemonCommandHandler ----------------------
(* Small instances of DaemonCommandHandler for TLC: six commands, of      *)
(* which one scenario delivers two.                                        *)
EXTENDS DaemonCommandHandler

CONSTANTS message, interrupt, wrong, start, ship, ship2, r1

AllCommands == {message, interrupt, wrong, start, ship, ship2}
OneRun  == {r1}
SameRun == [c \in Commands |-> r1]
NoAgent == {wrong}

ActionOf ==
  [c \in Commands |-> CASE c = message -> "session.message"
                        [] c \in {interrupt, wrong} -> "session.interrupt"
                        [] c = start -> "session.start"
                        [] c \in {ship, ship2} -> "shipping.start"]

VARIABLE offered \* the commands of this scenario

MCInit == Init /\ offered \in {{message, ship}, {interrupt, start}, {wrong, ship}, {ship, ship2}}

MCNext == /\ Next
          /\ UNCHANGED offered
          /\ \A s \in Sockets : ToSet(chain'[s]) \subseteq offered

MCSpec == MCInit /\ [][MCNext]_<<vars, offered>> /\ Fairness
=============================================================================
